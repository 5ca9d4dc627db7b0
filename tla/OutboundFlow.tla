---------------------------- MODULE OutboundFlow ----------------------------
(***************************************************************************)
(* The outbound half of the live sandbox: an operator starts a browser      *)
(* flow with a request that is POSTed downstream without a token and        *)
(* challenged; the browser comes back with a code, and the request, which   *)
(* was waiting, is POSTed again with a token (_outbound of                  *)
(* LiveSandboxApplication over OAuthMcpClient, border/live_sandbox.py,      *)
(* border/openid_gateway.py).                                               *)
(*                                                                          *)
(* gunicorn runs it on several threads of one process.  The application's   *)
(* _outbound_requests is guarded by a lock; the client's pending and tokens *)
(* are plain dictionaries, whose single operations are atomic.  There is    *)
(* one downstream resource, so tokens holds one entry.  A state names its   *)
(* flow: its request, its PKCE verifier and the token its code is worth     *)
(* (that the server never issues one token string twice is assumed).        *)
(* Authorization server, downstream server and browser are external.        *)
(***************************************************************************)
EXTENDS Naturals

CONSTANTS
  Threads,
  States,       \* the random state values begin can draw
  None,         \* no flow in hand, no token stored
  MaxRestarts   \* bound: number of process restarts

ASSUME StatesAssumption == None \notin States

ASSUME BoundsAssumption == MaxRestarts \in Nat

Replies == {"code", "error", "empty"}   \* what the browser brings back

VARIABLES
  requests,   \* LiveSandboxApplication._outbound_requests: keys
  pending,    \* OAuthMcpClient.pending: keys
  tokens,     \* OAuthMcpClient.tokens of the resource, or None
  pc,         \* where each thread is
  flow,       \* the flow each thread works for
  reply,      \* what the browser brought back to it
  bearer,     \* the token its downstream request carries
  drawn,      \* states ever drawn: secrets.token_bytes never repeats
  shown,      \* states sent to a browser in a 302
  attempts,   \* history: how often each flow's request was POSTed with no token
  exchanges,  \* history: how often each flow's code went to the token endpoint
  granted,    \* history: flows whose code was worth a token
  retried,    \* history: how often it was POSTed again, with one
  rejected,   \* history: tokens the downstream server answered with 401
  restarts

held == <<requests, pending, tokens>>
history == <<attempts, exchanges, granted, retried, rejected>>
thread == <<pc, flow, reply, bearer>>
vars == <<held, thread, drawn, shown, history, restarts>>

Stages == {"idle", "begun", "completing", "exchanging", "storing", "calling",
           "awaiting", "refused"}

TypeOK ==
  /\ requests \subseteq States
  /\ pending \subseteq States
  /\ tokens \in States \union {None}
  /\ pc \in [Threads -> Stages]
  /\ flow \in [Threads -> States \union {None}]
  /\ reply \in [Threads -> Replies \union {None}]
  /\ bearer \in [Threads -> States \union {None}]
  /\ drawn \subseteq States
  /\ shown \subseteq States
  /\ attempts \in [States -> Nat]
  /\ exchanges \in [States -> Nat]
  /\ granted \subseteq States
  /\ retried \in [States -> Nat]
  /\ rejected \subseteq States
  /\ restarts \in Nat

Init ==
  /\ requests = {}
  /\ pending = {}
  /\ tokens = None
  /\ pc = [t \in Threads |-> "idle"]
  /\ flow = [t \in Threads |-> None]
  /\ reply = [t \in Threads |-> None]
  /\ bearer = [t \in Threads |-> None]
  /\ drawn = {}
  /\ shown = {}
  /\ attempts = [s \in States |-> 0]
  /\ exchanges = [s \in States |-> 0]
  /\ granted = {}
  /\ retried = [s \in States |-> 0]
  /\ rejected = {}
  /\ restarts = 0

Goto(t, stage) == pc' = [pc EXCEPT ![t] = stage]

(* The response goes out, whatever its status.                              *)
Answer(t) ==
  /\ Goto(t, "idle")
  /\ flow' = [flow EXCEPT ![t] = None]
  /\ reply' = [reply EXCEPT ![t] = None]
  /\ bearer' = [bearer EXCEPT ![t] = None]

-----------------------------------------------------------------------------
(* POST /interop/outbound/start, by an authenticated operator.              *)

Fresh(s) == s \notin drawn

(* OAuthMcpClient.begin: the request is POSTed with no token and challenged *)
(* with a 401, discovery is sound, the state drawn: threads share none of   *)
(* it before pending.  (Any other answer to the POST is relayed, any        *)
(* failure after it a 403: no flow comes of the attempt.)                   *)
Begin(t, s) ==
  /\ pc[t] = "idle"
  /\ Fresh(s)
  /\ drawn' = drawn \union {s}
  /\ pending' = pending \union {s}
  /\ attempts' = [attempts EXCEPT ![s] = @ + 1]
  /\ Goto(t, "begun")
  /\ flow' = [flow EXCEPT ![t] = s]
  /\ UNCHANGED <<requests, tokens, reply, bearer, shown, exchanges, granted,
                 retried, rejected, restarts>>

(* The request is kept under its state, and the browser sent off.              *)
Redirect(t) ==
  /\ pc[t] = "begun"
  /\ requests' = requests \union {flow[t]}
  /\ shown' = shown \union {flow[t]}
  /\ Answer(t)
  /\ UNCHANGED <<pending, tokens, drawn, history, restarts>>

-----------------------------------------------------------------------------
(* GET /oauth/callback.                                                     *)

TakeRequestLeft(s) == requests' = requests
TakeRequest(s) == requests' = requests \ {s}

(* The waiting request is taken out under the lock; an unknown or replayed  *)
(* state is refused.  A browser may come back twice.                        *)
Callback(t, s, r) ==
  /\ pc[t] = "idle"
  /\ s \in shown
  /\ IF s \in requests
     THEN /\ TakeRequest(s)
          /\ Goto(t, "completing")
          /\ flow' = [flow EXCEPT ![t] = s]
          /\ reply' = [reply EXCEPT ![t] = r]
     ELSE UNCHANGED <<requests, pc, flow, reply>>
  /\ UNCHANGED <<pending, tokens, bearer, drawn, shown, history, restarts>>

(* complete, an error: raised before the flow is looked up, which stays.    *)
CompleteError(t) ==
  /\ pc[t] = "completing"
  /\ reply[t] = "error"
  /\ Answer(t)
  /\ UNCHANGED <<held, drawn, shown, history, restarts>>

(* complete: the flow is taken out; without one, or a code, it ends here.   *)
CompletePop(t) ==
  /\ pc[t] = "completing"
  /\ reply[t] # "error"
  /\ pending' = pending \ {flow[t]}
  /\ IF flow[t] \in pending /\ reply[t] = "code"
     THEN Goto(t, "exchanging") /\ UNCHANGED <<flow, reply, bearer>>
     ELSE Answer(t)
  /\ UNCHANGED <<requests, tokens, drawn, shown, history, restarts>>

CallsAnyway(t) == Goto(t, "calling") /\ UNCHANGED <<flow, reply, bearer>>
GivesUp(t) == Answer(t)

(* The client could not authenticate itself: the code was not sent.            *)
ExchangeUnsent(t) ==
  /\ pc[t] = "exchanging"
  /\ GivesUp(t)
  /\ UNCHANGED <<held, drawn, shown, history, restarts>>

(* The code goes to the token endpoint, which grants a token of the asked   *)
(* scope ...                                                                *)
ExchangeGranted(t) ==
  /\ pc[t] = "exchanging"
  /\ exchanges' = [exchanges EXCEPT ![flow[t]] = @ + 1]
  /\ granted' = granted \union {flow[t]}
  /\ Goto(t, "storing")
  /\ UNCHANGED <<held, flow, reply, bearer, drawn, shown, attempts, retried,
                 rejected, restarts>>

(* ... or anything else, or does not answer.                                *)
ExchangeFailed(t) ==
  /\ pc[t] = "exchanging"
  /\ exchanges' = [exchanges EXCEPT ![flow[t]] = @ + 1]
  /\ GivesUp(t)
  /\ UNCHANGED <<held, drawn, shown, attempts, granted, retried, rejected, restarts>>

(* tokens[resource] = token, over whatever another thread stored.           *)
Store(t) ==
  /\ pc[t] = "storing"
  /\ tokens' = flow[t]
  /\ Goto(t, "calling")
  /\ UNCHANGED <<requests, pending, flow, reply, bearer, drawn, shown, history, restarts>>

(* call: the token is looked up again, by resource.                         *)
Call(t) ==
  /\ pc[t] = "calling"
  /\ IF tokens # None
     THEN /\ bearer' = [bearer EXCEPT ![t] = tokens]
          /\ retried' = [retried EXCEPT ![flow[t]] = @ + 1]
          /\ Goto(t, "awaiting")
          /\ UNCHANGED <<flow, reply>>
     ELSE Answer(t) /\ UNCHANGED retried
  /\ UNCHANGED <<held, drawn, shown, attempts, exchanges, granted, rejected, restarts>>

(* The downstream server answers.                                           *)
Accepted(t) ==
  /\ pc[t] = "awaiting"
  /\ Answer(t)
  /\ UNCHANGED <<held, drawn, shown, history, restarts>>

Unauthorized(t) ==
  /\ pc[t] = "awaiting"
  /\ rejected' = rejected \union {bearer[t]}
  /\ Goto(t, "refused")
  /\ UNCHANGED <<held, flow, reply, bearer, drawn, shown, attempts, exchanges,
                 granted, retried, restarts>>

(* On a 401 the resource's token is dropped: by resource, so it may be one  *)
(* stored since.                                                            *)
StillStored == tokens
LeftStored == None

Discard(t) ==
  /\ pc[t] = "refused"
  /\ tokens' = LeftStored
  /\ Answer(t)
  /\ UNCHANGED <<requests, pending, drawn, shown, attempts, exchanges, granted,
                 retried, rejected, restarts>>

(* The process restarts: both dictionaries and every thread are gone.       *)
Restart ==
  /\ restarts < MaxRestarts
  /\ restarts' = restarts + 1
  /\ requests' = {}
  /\ pending' = {}
  /\ tokens' = None
  /\ pc' = [t \in Threads |-> "idle"]
  /\ flow' = [t \in Threads |-> None]
  /\ reply' = [t \in Threads |-> None]
  /\ bearer' = [t \in Threads |-> None]
  /\ UNCHANGED <<drawn, shown, history>>

Step(t) ==
  \/ Redirect(t)
  \/ CompleteError(t)
  \/ CompletePop(t)
  \/ ExchangeUnsent(t)
  \/ ExchangeGranted(t)
  \/ ExchangeFailed(t)
  \/ Store(t)
  \/ Call(t)
  \/ Accepted(t)
  \/ Unauthorized(t)
  \/ Discard(t)

Next ==
  \/ \E t \in Threads : Step(t)
  \/ \E t \in Threads, s \in States : Begin(t, s)
  \/ \E t \in Threads, s \in States, r \in Replies : Callback(t, s, r)
  \/ Restart

Spec == Init /\ [][Next]_vars

-----------------------------------------------------------------------------
(* Properties.                                                              *)

(* A callback state is single use (docs/live-sandbox.md): however often and *)
(* on however many threads a browser comes back, and over a restart, one    *)
(* code at most goes to the token endpoint for it.                          *)
OneExchangePerState == \A s \in States : exchanges[s] <= 1

(* Threads, browsers and restarts leave of each flow what the ledger says.  *)
(* Its request goes downstream twice at most: once with no token, before    *)
(* the flow exists, and once with a token, after the flow was shown and its *)
(* own code was granted one (attempt and retry, docs/openid-aiim-2026.md).  *)
(* The token itself is looked up by resource and may be another flow's.     *)
Ledger == INSTANCE FlowLedger WITH opened <- shown

LedgerSpec == Ledger!Spec

(* Two dictionaries in two classes agree: a request that waits for its      *)
(* browser always finds its PKCE verifier, or the callback would be spent   *)
(* for nothing.                                                             *)
WaitingRequestsCompletable == requests \subseteq pending

(* A rejected token is discarded (docs/openid-aiim-2026.md): whatever the   *)
(* threads store, look up and drop in between, none stays in the store but  *)
(* while the thread that was told so is on its way to drop it, and it never *)
(* comes back.                                                              *)
RejectedTokenLeaves ==
  tokens \in rejected => \E t \in Threads : pc[t] = "refused"

-----------------------------------------------------------------------------
(* The inductive invariant.                                                 *)

Exchanged(s) == exchanges[s] > 0

(* A thread that works for a flow has it to itself, and nothing of the flow *)
(* that lies ahead of the thread has happened.                              *)
FlowsExclusive ==
  \A t \in Threads :
    pc[t] # "idle" =>
      /\ flow[t] \in drawn
      /\ \A u \in Threads : pc[u] # "idle" /\ flow[u] = flow[t] => u = t
      /\ flow[t] \notin requests
      /\ pc[t] \in {"begun", "completing"} => flow[t] \in pending
      /\ pc[t] \in {"begun", "completing", "exchanging"} => ~Exchanged(flow[t])
      /\ pc[t] \notin {"awaiting", "refused"} => retried[flow[t]] = 0
      /\ pc[t] \in {"storing", "calling"} => flow[t] \in granted
      /\ pc[t] = "begun" <=> flow[t] \notin shown
      /\ pc[t] \in {"awaiting", "refused"} => bearer[t] # None

(* What waits has not been exchanged; what was not drawn has not begun.     *)
WaitingUntouched ==
  /\ requests \subseteq shown
  /\ shown \subseteq drawn
  /\ \A s \in requests : ~Exchanged(s) /\ retried[s] = 0
  /\ \A s \in States \ drawn : ~Exchanged(s) /\ retried[s] = 0

(* begin POSTs the request of a flow once, and call once more, for a flow   *)
(* that was granted.                                                        *)
AttemptedThenRetried ==
  \A s \in States :
    /\ attempts[s] = IF s \in drawn THEN 1 ELSE 0
    /\ retried[s] <= 1 /\ (retried[s] = 1 => s \in granted)

(* No token is stored, looked up or rejected before its flow stores it.     *)
Used(s) == tokens = s \/ s \in rejected \/ \E t \in Threads : bearer[t] = s

TokensNotAhead ==
  /\ \A s \in States : s \notin drawn \/ s \in requests => ~Used(s)
  /\ \A t \in Threads :
       pc[t] \in {"begun", "completing", "exchanging", "storing"} => ~Used(flow[t])

IInv ==
  /\ TypeOK
  /\ FlowsExclusive
  /\ WaitingUntouched
  /\ OneExchangePerState
  /\ WaitingRequestsCompletable
  /\ AttemptedThenRetried

TokenIInv == IInv /\ TokensNotAhead /\ RejectedTokenLeaves
=============================================================================
