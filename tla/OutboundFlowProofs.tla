------------------------- MODULE OutboundFlowProofs -------------------------
(* Theorems about OutboundFlow, for any number of threads and of flows.     *)
EXTENDS OutboundFlow, TLAPS

-----------------------------------------------------------------------------
(* The inductive invariant, action by action.                               *)

(* Nothing has been started, so nothing has gone wrong.                     *)
LEMMA Initially == Init => IInv
BY DEF Init, IInv, TypeOK, FlowsExclusive, WaitingUntouched, Stages, Exchanged,
       OneExchangePerState, WaitingRequestsCompletable, AttemptedThenRetried

(* A thread that answers lets go of its flow; nothing else is disturbed.    *)
LEMMA AnswerStep ==
  ASSUME IInv, NEW t \in Threads, Answer(t),
         UNCHANGED <<requests, pending, drawn, shown, attempts, exchanges, granted,
                     retried>>,
         tokens' \in States \union {None}, rejected' \subseteq States,
         restarts' \in Nat
  PROVE  IInv'
<1> USE DEF IInv
<1>1. /\ pc' = [pc EXCEPT ![t] = "idle"]
      /\ flow' = [flow EXCEPT ![t] = None]
      /\ reply' = [reply EXCEPT ![t] = None]
      /\ bearer' = [bearer EXCEPT ![t] = None]
  BY DEF Answer, Goto
<1>2. TypeOK'
  BY <1>1 DEF TypeOK, Stages
<1>3. FlowsExclusive'
  BY <1>1 DEF FlowsExclusive, TypeOK, Exchanged
<1> QED
  BY <1>2, <1>3 DEF WaitingUntouched, Exchanged, OneExchangePerState,
                    WaitingRequestsCompletable, AttemptedThenRetried

(* A flow just drawn is nobody else's.                                      *)
LEMMA BeginStep ==
  ASSUME IInv, NEW t \in Threads, NEW s \in States, Begin(t, s)
  PROVE  IInv'
<1> USE DEF IInv
<1>1. /\ pc[t] = "idle" /\ s \notin drawn
      /\ drawn' = drawn \union {s}
      /\ pending' = pending \union {s}
      /\ pc' = [pc EXCEPT ![t] = "begun"]
      /\ flow' = [flow EXCEPT ![t] = s]
      /\ attempts' = [attempts EXCEPT ![s] = @ + 1]
      /\ UNCHANGED <<requests, tokens, reply, bearer, shown, exchanges, granted,
                     retried, rejected, restarts>>
  BY DEF Begin, Goto, Fresh, history
<1>2. TypeOK'
  BY <1>1 DEF TypeOK, Stages
<1>3. s \notin requests /\ s \notin shown /\ ~Exchanged(s) /\ retried[s] = 0
  BY <1>1 DEF WaitingUntouched
<1>4. FlowsExclusive'
  BY <1>1, <1>3 DEF FlowsExclusive, TypeOK, Exchanged
<1>5. AttemptedThenRetried'
  <2>1. /\ attempts'[s] = 1
        /\ \A x \in States : x # s => attempts'[x] = attempts[x]
    BY <1>1 DEF TypeOK, AttemptedThenRetried
  <2> QED
    BY <1>1, <2>1 DEF AttemptedThenRetried
<1> QED
  BY <1>1, <1>2, <1>4, <1>5 DEF WaitingUntouched, Exchanged, OneExchangePerState,
                                WaitingRequestsCompletable

(* The request is put where its browser will find it, the verifier in place.*)
LEMMA RedirectStep ==
  ASSUME IInv, NEW t \in Threads, Redirect(t)
  PROVE  IInv'
<1> USE DEF IInv
<1>1. /\ pc[t] = "begun"
      /\ requests' = requests \union {flow[t]}
      /\ shown' = shown \union {flow[t]}
      /\ pc' = [pc EXCEPT ![t] = "idle"]
      /\ flow' = [flow EXCEPT ![t] = None]
      /\ reply' = [reply EXCEPT ![t] = None]
      /\ bearer' = [bearer EXCEPT ![t] = None]
      /\ UNCHANGED <<pending, tokens, drawn, attempts, exchanges, granted, retried,
                     rejected, restarts>>
  BY DEF Redirect, Answer, Goto, history
<1>2. /\ flow[t] \in drawn /\ flow[t] \in pending
      /\ ~Exchanged(flow[t]) /\ retried[flow[t]] = 0
  BY <1>1 DEF FlowsExclusive
<1>3. TypeOK'
  BY <1>1, <1>2 DEF TypeOK, Stages
<1>4. FlowsExclusive'
  BY <1>1 DEF FlowsExclusive, TypeOK, Exchanged
<1>5. WaitingUntouched'
  BY <1>1, <1>2 DEF WaitingUntouched, Exchanged
<1> QED
  BY <1>1, <1>2, <1>3, <1>4, <1>5
     DEF OneExchangePerState, WaitingRequestsCompletable, AttemptedThenRetried

(* The one thread that takes a request out has its flow to itself.          *)
LEMMA CallbackStep ==
  ASSUME IInv, NEW t \in Threads, NEW s \in States, NEW r \in Replies,
         Callback(t, s, r)
  PROVE  IInv'
<1> USE DEF IInv
<1>1. /\ pc[t] = "idle"
      /\ UNCHANGED <<pending, tokens, bearer, drawn, shown, attempts, exchanges,
                     granted, retried, rejected, restarts>>
  BY DEF Callback, history
<1>2. CASE s \in requests
  <2>1. /\ requests' = requests \ {s}
        /\ pc' = [pc EXCEPT ![t] = "completing"]
        /\ flow' = [flow EXCEPT ![t] = s]
        /\ reply' = [reply EXCEPT ![t] = r]
    BY <1>2 DEF Callback, Goto, TakeRequest
  <2>2. TypeOK'
    BY <1>1, <2>1 DEF TypeOK, Stages
  <2>3. /\ s \in drawn /\ s \in pending /\ ~Exchanged(s) /\ retried[s] = 0
        /\ s \in shown
        /\ \A u \in Threads : pc[u] # "idle" => flow[u] # s
    BY <1>2 DEF WaitingUntouched, WaitingRequestsCompletable, FlowsExclusive
  <2>4. FlowsExclusive'
    BY <1>1, <2>1, <2>3 DEF FlowsExclusive, TypeOK, Exchanged
  <2> QED
    BY <1>1, <2>1, <2>2, <2>4
       DEF WaitingUntouched, Exchanged, OneExchangePerState,
           WaitingRequestsCompletable, AttemptedThenRetried
<1>3. CASE s \notin requests
  BY <1>1, <1>3
     DEF Callback, TypeOK, FlowsExclusive, WaitingUntouched, Exchanged,
         OneExchangePerState, WaitingRequestsCompletable, AttemptedThenRetried
<1> QED
  BY <1>2, <1>3

(* The verifier is taken out for a flow whose request is no longer waiting. *)
LEMMA CompletePopStep ==
  ASSUME IInv, NEW t \in Threads, CompletePop(t)
  PROVE  IInv'
<1> USE DEF IInv
<1>1. /\ pc[t] = "completing"
      /\ pending' = pending \ {flow[t]}
      /\ UNCHANGED <<requests, tokens, drawn, shown, attempts, exchanges, granted,
                     retried, rejected, restarts>>
  BY DEF CompletePop, history
<1>2. \/ /\ pc' = [pc EXCEPT ![t] = "exchanging"]
         /\ UNCHANGED <<flow, reply, bearer>>
      \/ /\ pc' = [pc EXCEPT ![t] = "idle"]
         /\ flow' = [flow EXCEPT ![t] = None]
         /\ reply' = [reply EXCEPT ![t] = None]
         /\ bearer' = [bearer EXCEPT ![t] = None]
  BY DEF CompletePop, Answer, Goto
<1>3. TypeOK'
  BY <1>1, <1>2 DEF TypeOK, Stages
<1>4. /\ flow[t] \notin requests
      /\ \A u \in Threads : pc[u] # "idle" /\ flow[u] = flow[t] => u = t
  BY <1>1 DEF FlowsExclusive
<1>5. FlowsExclusive'
  BY <1>1, <1>2, <1>4 DEF FlowsExclusive, TypeOK, Exchanged
<1> QED
  BY <1>1, <1>3, <1>4, <1>5
     DEF WaitingUntouched, Exchanged, OneExchangePerState,
         WaitingRequestsCompletable, AttemptedThenRetried

(* The code of the flow goes to the token endpoint for the first time, and  *)
(* the thread goes on with a token or gives up without.                     *)
LEMMA ExchangeStep ==
  ASSUME IInv, NEW t \in Threads, ExchangeGranted(t) \/ ExchangeFailed(t)
  PROVE  IInv'
<1> USE DEF IInv
<1>1. /\ pc[t] = "exchanging"
      /\ exchanges' = [exchanges EXCEPT ![flow[t]] = @ + 1]
      /\ UNCHANGED <<requests, pending, tokens, drawn, shown, attempts, retried,
                     rejected, restarts>>
  BY DEF ExchangeGranted, ExchangeFailed, held
<1>2. \/ /\ granted' = granted \union {flow[t]}
         /\ pc' = [pc EXCEPT ![t] = "storing"]
         /\ UNCHANGED <<flow, reply, bearer>>
      \/ /\ granted' = granted
         /\ pc' = [pc EXCEPT ![t] = "idle"]
         /\ flow' = [flow EXCEPT ![t] = None]
         /\ reply' = [reply EXCEPT ![t] = None]
         /\ bearer' = [bearer EXCEPT ![t] = None]
  BY DEF ExchangeGranted, ExchangeFailed, GivesUp, Answer, Goto
<1>3. /\ flow[t] \in drawn /\ flow[t] \in States /\ flow[t] \notin requests
      /\ exchanges[flow[t]] = 0 /\ retried[flow[t]] = 0
      /\ \A u \in Threads : pc[u] # "idle" /\ flow[u] = flow[t] => u = t
  BY <1>1 DEF FlowsExclusive, TypeOK, Exchanged
<1>4. TypeOK'
  BY <1>1, <1>2, <1>3 DEF TypeOK, Stages
<1>5. /\ exchanges'[flow[t]] = 1
      /\ \A s \in States : s # flow[t] => exchanges'[s] = exchanges[s]
  BY <1>1, <1>3 DEF TypeOK
<1>6. FlowsExclusive'
  BY <1>1, <1>2, <1>3, <1>5 DEF FlowsExclusive, TypeOK, Exchanged
<1>7. WaitingUntouched'
  BY <1>1, <1>3, <1>5 DEF WaitingUntouched, Exchanged, TypeOK
<1>8. OneExchangePerState' /\ AttemptedThenRetried'
  BY <1>1, <1>2, <1>5 DEF OneExchangePerState, AttemptedThenRetried
<1> QED
  BY <1>1, <1>4, <1>6, <1>7, <1>8 DEF WaitingRequestsCompletable

(* The granted token is stored, over whatever was there.                    *)
LEMMA StoreStep ==
  ASSUME IInv, NEW t \in Threads, Store(t)
  PROVE  IInv'
<1> USE DEF IInv
<1>1. /\ pc[t] = "storing"
      /\ tokens' = flow[t]
      /\ pc' = [pc EXCEPT ![t] = "calling"]
      /\ UNCHANGED <<requests, pending, flow, reply, bearer, drawn, shown,
                     attempts, exchanges, granted, retried, rejected, restarts>>
  BY DEF Store, Goto, history
<1>2. TypeOK'
  BY <1>1 DEF TypeOK, Stages
<1>3. FlowsExclusive'
  BY <1>1 DEF FlowsExclusive, TypeOK, Exchanged
<1> QED
  BY <1>1, <1>2, <1>3
     DEF WaitingUntouched, Exchanged, OneExchangePerState,
         WaitingRequestsCompletable, AttemptedThenRetried

(* The request goes downstream for the first time, its flow granted.        *)
LEMMA CallStep ==
  ASSUME IInv, NEW t \in Threads, Call(t), tokens # None
  PROVE  IInv'
<1> USE DEF IInv
<1>1. /\ pc[t] = "calling"
      /\ bearer' = [bearer EXCEPT ![t] = tokens]
      /\ retried' = [retried EXCEPT ![flow[t]] = @ + 1]
      /\ pc' = [pc EXCEPT ![t] = "awaiting"]
      /\ UNCHANGED <<requests, pending, tokens, flow, reply, drawn, shown,
                     attempts, exchanges, granted, rejected, restarts>>
  BY DEF Call, Goto, held
<1>2. /\ flow[t] \in drawn /\ flow[t] \in States /\ flow[t] \notin requests
      /\ flow[t] \in granted /\ retried[flow[t]] = 0
      /\ \A u \in Threads : pc[u] # "idle" /\ flow[u] = flow[t] => u = t
  BY <1>1 DEF FlowsExclusive, TypeOK
<1>3. TypeOK'
  BY <1>1, <1>2 DEF TypeOK, Stages
<1>4. /\ retried'[flow[t]] = 1
      /\ \A s \in States : s # flow[t] => retried'[s] = retried[s]
  BY <1>1, <1>2 DEF TypeOK
<1>5. FlowsExclusive'
  BY <1>1, <1>2, <1>4 DEF FlowsExclusive, TypeOK, Exchanged
<1>6. WaitingUntouched'
  BY <1>1, <1>2, <1>4 DEF WaitingUntouched, Exchanged, TypeOK
<1>7. AttemptedThenRetried'
  BY <1>1, <1>2, <1>4 DEF AttemptedThenRetried
<1> QED
  BY <1>1, <1>3, <1>5, <1>6, <1>7
     DEF OneExchangePerState, WaitingRequestsCompletable

(* A 401 is only remembered.                                                *)
LEMMA UnauthorizedStep ==
  ASSUME IInv, NEW t \in Threads, Unauthorized(t)
  PROVE  IInv'
<1> USE DEF IInv
<1>1. /\ pc[t] = "awaiting"
      /\ rejected' = rejected \union {bearer[t]}
      /\ pc' = [pc EXCEPT ![t] = "refused"]
      /\ UNCHANGED <<requests, pending, tokens, flow, reply, bearer, drawn, shown,
                     attempts, exchanges, granted, retried, restarts>>
  BY DEF Unauthorized, Goto, held
<1>2. bearer[t] \in States
  BY <1>1 DEF FlowsExclusive, TypeOK
<1>3. TypeOK'
  BY <1>1, <1>2 DEF TypeOK, Stages
<1>4. FlowsExclusive'
  BY <1>1 DEF FlowsExclusive, TypeOK, Exchanged
<1> QED
  BY <1>1, <1>3, <1>4
     DEF WaitingUntouched, Exchanged, OneExchangePerState,
         WaitingRequestsCompletable, AttemptedThenRetried

(* A restart forgets every flow that was under way or waiting.              *)
LEMMA RestartStep ==
  ASSUME IInv, Restart
  PROVE  IInv'
<1> USE DEF IInv
<1>1. TypeOK'
  BY BoundsAssumption DEF Restart, TypeOK, Stages, history
<1> QED
  BY <1>1
     DEF Restart, history, FlowsExclusive, WaitingUntouched, Exchanged,
         OneExchangePerState, WaitingRequestsCompletable, AttemptedThenRetried

(* Every step keeps the inductive invariant.                                *)
LEMMA EveryStep == IInv /\ [Next]_vars => IInv'
<1> SUFFICES ASSUME IInv, [Next]_vars PROVE IInv'
  OBVIOUS
<1>1. ASSUME NEW t \in Threads, Step(t) PROVE IInv'
  <2>1. CASE Redirect(t)
    BY <2>1, RedirectStep
  <2>2. CASE CompleteError(t)
    BY <2>2, AnswerStep DEF CompleteError, IInv, TypeOK, held, history
  <2>3. CASE CompletePop(t)
    BY <2>3, CompletePopStep
  <2>4. CASE ExchangeUnsent(t)
    BY <2>4, AnswerStep DEF ExchangeUnsent, GivesUp, IInv, TypeOK, held, history
  <2>5. CASE ExchangeGranted(t) \/ ExchangeFailed(t)
    BY <2>5, ExchangeStep
  <2>6. CASE Store(t)
    BY <2>6, StoreStep
  <2>7. CASE Call(t) /\ tokens # None
    BY <2>7, CallStep
  <2>8. CASE Call(t) /\ tokens = None
    BY <2>8, AnswerStep DEF Call, IInv, TypeOK, held
  <2>9. CASE Accepted(t)
    BY <2>9, AnswerStep DEF Accepted, IInv, TypeOK, held, history
  <2>10. CASE Unauthorized(t)
    BY <2>10, UnauthorizedStep
  <2>11. CASE Discard(t)
    BY <2>11, AnswerStep DEF Discard, LeftStored, IInv, TypeOK
  <2> QED
    BY <1>1, <2>1, <2>2, <2>3, <2>4, <2>5, <2>6, <2>7, <2>8, <2>9, <2>10, <2>11
       DEF Step
<1>2. CASE UNCHANGED vars
  BY <1>2
     DEF vars, held, thread, history, IInv, TypeOK, FlowsExclusive,
         WaitingUntouched, Exchanged, OneExchangePerState,
         WaitingRequestsCompletable, AttemptedThenRetried
<1> QED
  BY <1>1, <1>2, BeginStep, CallbackStep, RestartStep DEF Next

-----------------------------------------------------------------------------
(* Rejected tokens, with the order in which a token comes to be used.       *)

(* A thread that works for a flow names it, and names it alone.             *)
LEMMA OwnFlow ==
  ASSUME IInv, NEW t \in Threads, pc[t] # "idle"
  PROVE  /\ flow[t] \in States /\ flow[t] \in drawn /\ flow[t] \notin requests
         /\ \A u \in Threads : pc[u] # "idle" /\ flow[u] = flow[t] => u = t
BY DEF IInv, FlowsExclusive, TypeOK

(* A step of one thread that uses no token anew, ends past the stages       *)
(* before its token is stored or stays in them with its flow, and does not  *)
(* abandon a token it was told to drop.                                     *)
LEMMA QuietStep ==
  ASSUME TokenIInv, TypeOK', NEW t \in Threads,
         tokens' \in {tokens, None}, rejected' = rejected,
         \A s \in States : s \notin drawn' \/ s \in requests' => ~Used(s),
         NEW stage, pc' = [pc EXCEPT ![t] = stage],
         NEW b \in {bearer[t], None}, bearer' = [bearer EXCEPT ![t] = b],
         NEW f, flow' = [flow EXCEPT ![t] = f],
         stage \in {"begun", "completing", "exchanging", "storing"} =>
           f \in States /\ ~Used(f),
         pc[t] = "refused" => tokens' = None
  PROVE  TokensNotAhead' /\ RejectedTokenLeaves'
<1> USE DEF TokenIInv, IInv
<1>1. None \notin States
  BY StatesAssumption
<1>2. \A s \in States : Used(s)' => Used(s)
  BY <1>1 DEF Used, TypeOK
<1>3. ASSUME NEW s \in States, s \notin drawn' \/ s \in requests'
      PROVE  ~Used(s)'
  BY <1>2, <1>3
<1>4. ASSUME NEW u \in Threads,
             pc'[u] \in {"begun", "completing", "exchanging", "storing"}
      PROVE  ~Used(flow[u])'
  <2> SUFFICES ASSUME NEW v, v = flow'[u] PROVE ~Used(v)'
    BY DEF Used
  <2>1. CASE u = t
    <3>1. v = f /\ pc'[t] = stage
      BY <2>1 DEF TypeOK
    <3>2. v \in States /\ ~Used(v)
      BY <2>1, <3>1, <1>4
    <3> QED
      BY <1>2, <3>2
  <2>2. CASE u # t
    <3>1. v = flow[u] /\ pc'[u] = pc[u]
      BY <2>2 DEF TypeOK
    <3>2. v \in States /\ ~Used(v)
      BY <3>1, <1>4, OwnFlow DEF TokensNotAhead
    <3> QED
      BY <1>2, <3>2
  <2> QED
    BY <2>1, <2>2
<1>5. RejectedTokenLeaves'
  BY <1>1 DEF RejectedTokenLeaves, TypeOK
<1> QED
  BY <1>3, <1>4, <1>5 DEF TokensNotAhead

(* The same for a thread that answers.                                      *)
LEMMA QuietAnswer ==
  ASSUME TokenIInv, TypeOK', NEW t \in Threads, Answer(t),
         tokens' \in {tokens, None}, rejected' = rejected,
         \A s \in States : s \notin drawn' \/ s \in requests' => ~Used(s),
         pc[t] = "refused" => tokens' = None
  PROVE  TokensNotAhead' /\ RejectedTokenLeaves'
<1>1. /\ pc' = [pc EXCEPT ![t] = "idle"]
      /\ flow' = [flow EXCEPT ![t] = None]
      /\ bearer' = [bearer EXCEPT ![t] = None]
  BY DEF Answer, Goto
<1>2. "idle" \notin {"begun", "completing", "exchanging", "storing"}
  OBVIOUS
<1>3. None \in {bearer[t], None}
  OBVIOUS
<1> DEFINE stage == "idle"
<1>4. /\ pc' = [pc EXCEPT ![t] = stage]
      /\ stage \in {"begun", "completing", "exchanging", "storing"} =>
           None \in States /\ ~Used(None)
  BY <1>1, <1>2
<1> HIDE DEF stage
<1> QED
  BY <1>1, <1>3, <1>4, QuietStep

(* The steps of one thread that leave the tokens as they are, or drop what  *)
(* is stored.                                                               *)
LEMMA QuietSteps ==
  ASSUME TokenIInv, TypeOK', NEW t \in Threads,
         \/ Redirect(t) \/ CompleteError(t) \/ CompletePop(t)
         \/ ExchangeUnsent(t) \/ ExchangeGranted(t) \/ ExchangeFailed(t)
         \/ (Call(t) /\ tokens = None)
         \/ Accepted(t) \/ Discard(t)
         \/ \E s \in States : Begin(t, s)
         \/ \E s \in States, r \in Replies : Callback(t, s, r)
  PROVE  TokensNotAhead' /\ RejectedTokenLeaves'
<1>1. \A s \in States : s \notin drawn \/ s \in requests => ~Used(s)
  BY DEF TokenIInv, TokensNotAhead
<1>2. CASE \/ CompleteError(t) \/ ExchangeUnsent(t) \/ ExchangeFailed(t)
           \/ (Call(t) /\ tokens = None) \/ Accepted(t) \/ Discard(t)
  <2>1. /\ Answer(t)
        /\ UNCHANGED <<requests, drawn, rejected>>
        /\ tokens' \in {tokens, None}
        /\ pc[t] = "refused" => tokens' = None
    BY <1>2 DEF CompleteError, ExchangeUnsent, ExchangeFailed, Call, Accepted,
                Discard, LeftStored, GivesUp, held, history
  <2> QED
    BY <1>1, <2>1, QuietAnswer
<1>3. CASE CompletePop(t) \/ ExchangeGranted(t)
  <2>1. pc[t] \in {"completing", "exchanging"}
    BY <1>3 DEF CompletePop, ExchangeGranted
  <2>2. /\ UNCHANGED <<requests, drawn, rejected, tokens>>
        /\ \/ /\ UNCHANGED <<flow, bearer>>
              /\ pc' = [pc EXCEPT ![t] = "exchanging"]
           \/ /\ UNCHANGED <<flow, bearer>>
              /\ pc' = [pc EXCEPT ![t] = "storing"]
           \/ Answer(t)
    BY <1>3 DEF CompletePop, ExchangeGranted, Goto, held, history
  <2>3. flow[t] \in States /\ ~Used(flow[t])
    BY <2>1, OwnFlow DEF TokenIInv, TokensNotAhead
  <2>4. flow = [flow EXCEPT ![t] = flow[t]] /\ bearer = [bearer EXCEPT ![t] = bearer[t]]
    BY DEF TokenIInv, IInv, TypeOK
  <2>5. CASE Answer(t)
    BY <1>1, <2>1, <2>2, <2>5, QuietAnswer
  <2>6. CASE UNCHANGED <<flow, bearer>> /\ pc' = [pc EXCEPT ![t] = "exchanging"]
    BY <1>1, <2>1, <2>2, <2>3, <2>4, <2>6, QuietStep
  <2>7. CASE UNCHANGED <<flow, bearer>> /\ pc' = [pc EXCEPT ![t] = "storing"]
    BY <1>1, <2>1, <2>2, <2>3, <2>4, <2>7, QuietStep
  <2> QED
    BY <2>2, <2>5, <2>6, <2>7
<1>4. CASE Redirect(t)
  <2>1. /\ pc[t] = "begun"
        /\ Answer(t)
        /\ requests' = requests \union {flow[t]}
        /\ UNCHANGED <<drawn, rejected, tokens>>
    BY <1>4 DEF Redirect, history
  <2>2. ~Used(flow[t])
    BY <2>1 DEF TokenIInv, TokensNotAhead
  <2> QED
    BY <1>1, <2>1, <2>2, QuietAnswer
<1>5. ASSUME NEW s \in States, Begin(t, s)
      PROVE  TokensNotAhead' /\ RejectedTokenLeaves'
  <2>1. /\ pc[t] = "idle" /\ s \notin drawn
        /\ pc' = [pc EXCEPT ![t] = "begun"]
        /\ flow' = [flow EXCEPT ![t] = s]
        /\ bearer' = bearer /\ drawn' = drawn \union {s}
        /\ UNCHANGED <<requests, rejected, tokens>>
    BY <1>5 DEF Begin, Fresh, Goto, history
  <2>2. bearer = [bearer EXCEPT ![t] = bearer[t]]
    BY DEF TokenIInv, IInv, TypeOK
  <2> QED
    BY <1>1, <2>1, <2>2, QuietStep
<1>6. ASSUME NEW s \in States, NEW r \in Replies, Callback(t, s, r)
      PROVE  TokensNotAhead' /\ RejectedTokenLeaves'
  <2>1. /\ pc[t] = "idle"
        /\ UNCHANGED <<bearer, drawn, rejected, tokens>>
    BY <1>6 DEF Callback, history
  <2>2. /\ bearer = [bearer EXCEPT ![t] = bearer[t]]
        /\ flow = [flow EXCEPT ![t] = flow[t]]
        /\ pc = [pc EXCEPT ![t] = pc[t]]
    BY DEF TokenIInv, IInv, TypeOK
  <2>3. CASE s \in requests
    <3>1. /\ requests' = requests \ {s}
          /\ pc' = [pc EXCEPT ![t] = "completing"]
          /\ flow' = [flow EXCEPT ![t] = s]
      BY <1>6, <2>3 DEF Callback, TakeRequest, Goto
    <3> QED
      BY <1>1, <2>1, <2>2, <2>3, <3>1, QuietStep
  <2>4. CASE s \notin requests
    <3>1. UNCHANGED <<requests, pc, flow>>
      BY <1>6, <2>4 DEF Callback
    <3> QED
      BY <1>1, <2>1, <2>2, <3>1, QuietStep
  <2> QED
    BY <2>3, <2>4
<1> QED
  BY <1>2, <1>3, <1>4, <1>5, <1>6

(* The token a thread stores is its own flow's, which nobody has used yet:  *)
(* a rejected token does not come back.                                     *)
LEMMA StoreToken ==
  ASSUME TokenIInv, TypeOK', NEW t \in Threads, Store(t)
  PROVE  TokensNotAhead' /\ RejectedTokenLeaves'
<1>1. /\ pc[t] = "storing"
      /\ tokens' = flow[t]
      /\ pc' = [pc EXCEPT ![t] = "calling"]
      /\ UNCHANGED <<requests, flow, bearer, drawn, rejected>>
  BY DEF Store, Goto, history
<1>2. ~Used(flow[t])
  BY <1>1 DEF TokenIInv, TokensNotAhead
<1>3. /\ flow[t] \in States /\ flow[t] \in drawn /\ flow[t] \notin requests
      /\ \A u \in Threads : pc[u] # "idle" /\ flow[u] = flow[t] => u = t
  BY <1>1, OwnFlow DEF TokenIInv
<1>4. \A v : v # flow[t] /\ Used(v)' => Used(v)
  BY <1>1 DEF Used
<1>5. ASSUME NEW v \in States, v \notin drawn' \/ v \in requests'
      PROVE  ~Used(v)'
  BY <1>1, <1>3, <1>4, <1>5 DEF TokenIInv, TokensNotAhead
<1>6. ASSUME NEW u \in Threads,
             pc'[u] \in {"begun", "completing", "exchanging", "storing"}
      PROVE  ~Used(flow[u])'
  <2>1. u # t /\ pc'[u] = pc[u]
    BY <1>1, <1>6 DEF TokenIInv, IInv, TypeOK
  <2>2. flow[u] # flow[t] /\ ~Used(flow[u])
    BY <1>3, <1>6, <2>1 DEF TokenIInv, TokensNotAhead
  <2> QED
    BY <1>1, <1>4, <2>2 DEF Used
<1>7. RejectedTokenLeaves'
  BY <1>1, <1>2 DEF RejectedTokenLeaves, Used
<1> QED
  BY <1>5, <1>6, <1>7 DEF TokensNotAhead

(* A token that is looked up was stored, and one that is rejected was       *)
(* looked up: nothing is used anew; the thread told so is on its way.       *)
LEMMA LookUpOrReject ==
  ASSUME TokenIInv, TypeOK', NEW t \in Threads,
         (Call(t) /\ tokens # None) \/ Unauthorized(t)
  PROVE  TokensNotAhead' /\ RejectedTokenLeaves'
<1>1. /\ pc[t] \in {"calling", "awaiting"}
      /\ UNCHANGED <<requests, tokens, flow, drawn>>
  BY DEF Call, Unauthorized, held
<1>2. \/ /\ pc' = [pc EXCEPT ![t] = "awaiting"]
         /\ bearer' = [bearer EXCEPT ![t] = tokens]
         /\ rejected' = rejected
      \/ /\ pc' = [pc EXCEPT ![t] = "refused"]
         /\ bearer' = bearer
         /\ rejected' = rejected \union {bearer[t]}
  BY DEF Call, Unauthorized, Goto
<1>3. \A v : Used(v)' => Used(v)
  BY <1>1, <1>2 DEF Used, TokenIInv, IInv, TypeOK
<1>4. ASSUME NEW v \in States, v \notin drawn' \/ v \in requests'
      PROVE  ~Used(v)'
  BY <1>1, <1>3, <1>4 DEF TokenIInv, TokensNotAhead
<1>5. ASSUME NEW u \in Threads,
             pc'[u] \in {"begun", "completing", "exchanging", "storing"}
      PROVE  ~Used(flow[u])'
  <2>1. pc'[u] = pc[u]
    BY <1>2, <1>5 DEF TokenIInv, IInv, TypeOK
  <2>2. ~Used(flow[u])
    BY <1>5, <2>1 DEF TokenIInv, TokensNotAhead
  <2> QED
    BY <1>1, <1>3, <2>2 DEF Used
<1>6. RejectedTokenLeaves'
  BY <1>1, <1>2 DEF RejectedTokenLeaves, TokenIInv, IInv, TypeOK
<1> QED
  BY <1>4, <1>5, <1>6 DEF TokensNotAhead

(* Over a restart rejected tokens are remembered and none is stored.        *)
LEMMA RestartToken ==
  ASSUME TokenIInv, Restart
  PROVE  TokensNotAhead' /\ RejectedTokenLeaves'
<1>1. None \notin States
  BY StatesAssumption
<1>2. RejectedTokenLeaves'
  BY <1>1 DEF Restart, history, RejectedTokenLeaves, TokenIInv, IInv, TypeOK
<1>3. TokensNotAhead'
  BY <1>1 DEF Restart, history, TokensNotAhead, Used, TokenIInv, IInv, TypeOK
<1> QED
  BY <1>2, <1>3

(* Every step keeps the invariant of tokens.                                *)
LEMMA EveryTokenStep == TokenIInv /\ [Next]_vars => TokenIInv'
<1> SUFFICES ASSUME TokenIInv, [Next]_vars PROVE TokenIInv'
  OBVIOUS
<1>1. IInv'
  BY EveryStep DEF TokenIInv
<1>2. TypeOK'
  BY <1>1 DEF IInv
<1>3. ASSUME NEW t \in Threads, Step(t)
      PROVE  TokensNotAhead' /\ RejectedTokenLeaves'
  BY <1>2, <1>3, QuietSteps, StoreToken, LookUpOrReject DEF Step
<1>4. ASSUME UNCHANGED vars
      PROVE  TokensNotAhead' /\ RejectedTokenLeaves'
  <2>1. UNCHANGED <<requests, tokens, pc, flow, bearer, drawn, rejected>>
    BY <1>4 DEF vars, held, thread, history
  <2>2. TokensNotAhead'
    BY <2>1 DEF TokenIInv, TokensNotAhead, Used
  <2>3. RejectedTokenLeaves'
    BY <2>1 DEF TokenIInv, RejectedTokenLeaves
  <2> QED
    BY <2>2, <2>3
<1>5. ASSUME NEW t \in Threads,
             \/ \E s \in States : Begin(t, s)
             \/ \E s \in States, r \in Replies : Callback(t, s, r)
      PROVE  TokensNotAhead' /\ RejectedTokenLeaves'
  BY <1>2, <1>5, QuietSteps
<1>6. TokensNotAhead' /\ RejectedTokenLeaves'
  <2>1. CASE \E t \in Threads : Step(t)
    BY <2>1, <1>3
  <2>2. CASE \E t \in Threads, s \in States : Begin(t, s)
    BY <2>2, <1>5
  <2>3. CASE \E t \in Threads, s \in States, r \in Replies : Callback(t, s, r)
    BY <2>3, <1>5
  <2>4. CASE Restart
    BY <2>4, RestartToken
  <2> QED
    BY <1>4, <2>1, <2>2, <2>3, <2>4 DEF Next
<1> QED
  BY <1>1, <1>6 DEF TokenIInv

-----------------------------------------------------------------------------
(* What it gives.                                                           *)

(* The inductive invariant holds throughout: a thread that works for a flow *)
(* has it to itself (LiveSandboxApplication._outbound).                     *)
THEOREM Invariance == Spec => []IInv
BY Initially, EveryStep, PTL DEF Spec

(* A callback state is worth one exchange at the token endpoint at most.    *)
THEOREM SingleExchange == Spec => []OneExchangePerState
<1>1. IInv => OneExchangePerState
  BY DEF IInv
<1> QED
  BY <1>1, Invariance, PTL

(* A waiting request always finds its PKCE verifier: _outbound_requests and *)
(* OAuthMcpClient.pending agree, without a common lock.                     *)
THEOREM RequestsCompletable == Spec => []WaitingRequestsCompletable
<1>1. IInv => WaitingRequestsCompletable
  BY DEF IInv
<1> QED
  BY <1>1, Invariance, PTL

(* A rejected token leaves the store with the thread that was told so, and  *)
(* never comes back (OAuthMcpClient.call).                                  *)
THEOREM RejectedTokensLeave == Spec => []RejectedTokenLeaves
<1>1. Init => TokenIInv
  <2> SUFFICES ASSUME Init PROVE TokenIInv
    OBVIOUS
  <2> QED
    BY Initially, StatesAssumption
       DEF Init, TokenIInv, TokensNotAhead, Used, RejectedTokenLeaves
<1>2. TokenIInv => RejectedTokenLeaves
  BY DEF TokenIInv
<1> QED
  BY <1>1, <1>2, EveryTokenStep, PTL DEF Spec

-----------------------------------------------------------------------------
(* The life of a flow.                                                      *)

(* No flow has been opened.                                                 *)
LEMMA InitRefines == Init => Ledger!Init
BY DEF Init, Ledger!Init

(* What a thread does to the flow it works for, the ledger allows; the rest *)
(* it does not see.                                                         *)
LEMMA StepRefines ==
  ASSUME IInv, NEW t \in Threads, Step(t)
  PROVE  Ledger!Next \/ UNCHANGED Ledger!vars
<1>1. /\ exchanges \in [States -> Nat] /\ retried \in [States -> Nat]
      /\ \A u \in Threads : pc[u] # "idle" => flow[u] \in States
  BY OwnFlow DEF IInv, TypeOK
<1>2. CASE Redirect(t)
  <2>1. flow[t] \in States /\ flow[t] \notin shown /\ attempts[flow[t]] = 1
    BY <1>1, <1>2 DEF Redirect, IInv, FlowsExclusive, AttemptedThenRetried
  <2>2. Ledger!Open(flow[t])
    BY <1>2, <2>1 DEF Redirect, history, Ledger!Open
  <2> QED
    BY <2>1, <2>2 DEF Ledger!Next
<1>3. CASE ExchangeGranted(t) \/ ExchangeFailed(t)
  <2>1. pc[t] = "exchanging"
    BY <1>3 DEF ExchangeGranted, ExchangeFailed
  <2>2. flow[t] \in States /\ flow[t] \in shown /\ exchanges[flow[t]] = 0
    BY <1>1, <2>1 DEF IInv, FlowsExclusive, Exchanged
  <2>3. /\ exchanges' = [exchanges EXCEPT ![flow[t]] = 1]
        /\ granted' \in {granted, granted \union {flow[t]}}
        /\ UNCHANGED <<attempts, shown, retried>>
    BY <1>1, <1>3, <2>2 DEF ExchangeGranted, ExchangeFailed
  <2>4. Ledger!Exchange(flow[t])
    BY <2>2, <2>3 DEF Ledger!Exchange
  <2> QED
    BY <2>2, <2>4 DEF Ledger!Next
<1>4. CASE Call(t) /\ tokens # None
  <2>1. flow[t] \in States /\ flow[t] \in granted /\ retried[flow[t]] = 0
    BY <1>1, <1>4 DEF Call, IInv, FlowsExclusive
  <2>2. /\ retried' = [retried EXCEPT ![flow[t]] = 1]
        /\ UNCHANGED <<attempts, shown, exchanges, granted>>
    BY <1>1, <1>4, <2>1 DEF Call
  <2>3. Ledger!Retry(flow[t])
    BY <2>1, <2>2 DEF Ledger!Retry
  <2> QED
    BY <2>1, <2>3 DEF Ledger!Next
<1>5. CASE \/ CompleteError(t) \/ CompletePop(t) \/ ExchangeUnsent(t) \/ Store(t)
           \/ (Call(t) /\ tokens = None)
           \/ Accepted(t) \/ Unauthorized(t) \/ Discard(t)
  BY <1>5 DEF CompleteError, CompletePop, ExchangeUnsent, Store, Call, Accepted,
              Unauthorized, Discard, history, Ledger!vars
<1> QED
  BY <1>2, <1>3, <1>4, <1>5 DEF Step

(* A flow that is drawn has been attempted once.                            *)
LEMMA BeginRefines ==
  ASSUME IInv, NEW t \in Threads, NEW s \in States, Begin(t, s)
  PROVE  Ledger!Next
<1>1. attempts[s] = 0 /\ attempts \in [States -> Nat]
  BY DEF Begin, Fresh, IInv, AttemptedThenRetried, TypeOK
<1>2. Ledger!Attempt(s)
  BY <1>1 DEF Begin, Ledger!Attempt
<1> QED
  BY <1>2 DEF Ledger!Next

(* A browser that comes back and a restart leave the ledger alone.          *)
LEMMA NextRefines == IInv /\ [Next]_vars => [Ledger!Next]_(Ledger!vars)
<1>1. ASSUME \/ \E t \in Threads, s \in States, r \in Replies : Callback(t, s, r)
             \/ Restart
             \/ UNCHANGED vars
      PROVE  UNCHANGED Ledger!vars
  BY <1>1 DEF Callback, Restart, vars, history, Ledger!vars
<1> QED
  BY <1>1, StepRefines, BeginRefines DEF Next

(* The outbound half of the sandbox implements the life of a flow, for any  *)
(* threads, flows and restarts.                                             *)
THEOREM Refinement == Spec => LedgerSpec
BY InitRefines, Invariance, NextRefines, PTL DEF Spec, LedgerSpec, Ledger!Spec
=============================================================================
