--------------------------- MODULE KeyCacheProofs ---------------------------
(* Theorems about KeyCache, for any threads, keys and discovery addresses.  *)
EXTENDS KeyCache, TLAPS

LEMMA InitIInv == Init => IInv
<1> SUFFICES ASSUME Init PROVE IInv
  OBVIOUS
<1>1. 1 \in 1 .. Urls /\ {FirstKey} \subseteq Keys
  BY KeysAssumption
<1>2. TypeOK
  BY <1>1 DEF Init, TypeOK, Places
<1>3. OneDiscovery
  BY KeysAssumption DEF Init, OneDiscovery
<1>4. client # "foreign" /\ \A t \in Threads : place[t] = "idle" /\ ~owed[t] /\ ~denied[t]
  BY KeysAssumption DEF Init, Issuers
<1>5. KeysOfIssuer
  BY <1>4 DEF Init, KeysOfIssuer
<1>6. CallsSound /\ OwedCallsAccepted
  BY <1>4 DEF CallsSound, OwedCallsAccepted
<1>7. QED
  BY <1>2, <1>3, <1>5, <1>6 DEF IInv

-----------------------------------------------------------------------------
(* The actions, one lemma each, and under it one step per conjunct.         *)

(* What is owed is decided here, by the issuer's state at the call.         *)
LEMMA CallStep ==
  ASSUME IInv, NEW t \in Threads, NEW k \in AllKeys \union {Probe}, Call(t, k)
  PROVE  IInv'
<1> USE DEF IInv, Call, Move, issuer
<1>1. TypeOK'
  BY DEF TypeOK, Places
<1>2. OneDiscovery'
  BY DEF TypeOK, OneDiscovery
<1>3. KeysOfIssuer'
  BY DEF TypeOK, KeysOfIssuer
<1>4. CallsSound'
  BY DEF TypeOK, CallsSound
<1>5. OwedCallsAccepted'
  BY DEF TypeOK, OwedCallsAccepted
<1>6. QED
  BY <1>1, <1>2, <1>3, <1>4, <1>5

(* Neither look at _jwks changes anything but who holds the lock.           *)
LEMMA LookStep == ASSUME IInv, NEW t \in Threads, Look(t) PROVE IInv'
<1> USE DEF IInv, Look, GoOn, Move, issuer
<1>1. TypeOK'
  BY DEF TypeOK, Places
<1>2. OneDiscovery'
  BY DEF TypeOK, OneDiscovery
<1>3. KeysOfIssuer'
  BY DEF TypeOK, KeysOfIssuer
<1>4. CallsSound' /\ OwedCallsAccepted'
  BY DEF TypeOK, CallsSound, OwedCallsAccepted
<1>5. QED
  BY <1>1, <1>2, <1>3, <1>4

LEMMA AcquireStep == ASSUME IInv, NEW t \in Threads, Acquire(t) PROVE IInv'
<1> USE DEF IInv, Acquire, GoOn, Move, issuer, MustDiscover
<1>1. TypeOK'
  BY DEF TypeOK, Places
<1>2. OneDiscovery'
  BY KeysAssumption DEF TypeOK, OneDiscovery
<1>3. KeysOfIssuer'
  BY DEF TypeOK, KeysOfIssuer
<1>4. CallsSound' /\ OwedCallsAccepted'
  BY DEF TypeOK, CallsSound, OwedCallsAccepted
<1>5. QED
  BY <1>1, <1>2, <1>3, <1>4

LEMMA AskNextStep == ASSUME IInv, NEW t \in Threads, AskNext(t) PROVE IInv'
<1> USE DEF IInv, AskNext, issuer
<1>1. TypeOK'
  BY KeysAssumption DEF TypeOK
<1>2. OneDiscovery' /\ KeysOfIssuer' /\ CallsSound' /\ OwedCallsAccepted'
  BY DEF TypeOK, OneDiscovery, KeysOfIssuer, CallsSound, OwedCallsAccepted
<1>3. QED
  BY <1>1, <1>2

(* A discovery fails only while the issuer is not healthy, so no owed call  *)
(* fails; it ends with the lock free, and with a client only if the         *)
(* metadata was the issuer's own.                                           *)
LEMMA AskLastStep ==
  ASSUME IInv, NEW t \in Threads, NEW answer \in Answers, AskLast(t, answer)
  PROVE  IInv'
<1> USE DEF IInv, Believed, Released
<1>1. /\ place[t] = "asking" /\ lock = t /\ client = None /\ built = 0
      /\ lock' = None
      /\ healthy => answer = "own"
      /\ UNCHANGED <<published, ever, healthy>>
  BY KeysAssumption DEF AskLast, OneDiscovery, issuer
<1>2. CASE answer = "own"
  <2>1. /\ client' = "own" /\ built' = 1 /\ keys' = {} /\ jwkset' = {}
        /\ place' = [place EXCEPT ![t] = "lookup"]
        /\ UNCHANGED <<token, url, got, owed, denied>>
    BY <1>1, <1>2 DEF AskLast, GoOn, Move
  <2>2. TypeOK'
    BY <1>1, <2>1 DEF TypeOK, Places, Issuers
  <2>3. OneDiscovery'
    BY <1>1, <2>1, KeysAssumption DEF TypeOK, OneDiscovery, Issuers
  <2>4. KeysOfIssuer'
    BY <1>1, <2>1 DEF TypeOK, KeysOfIssuer
  <2>5. CallsSound' /\ OwedCallsAccepted'
    <3>1. client' # None
      BY <1>1, <2>1, <2>3 DEF OneDiscovery
    <3>2. QED
      BY <1>1, <2>1, <3>1 DEF TypeOK, CallsSound, OwedCallsAccepted
  <2>6. QED
    BY <2>2, <2>3, <2>4, <2>5
<1>3. CASE answer # "own"
  <2>1. /\ UNCHANGED <<client, built, keys, jwkset>>
        /\ End(t, TRUE)
    BY <1>3 DEF AskLast
  <2>2. ~owed[t]
    BY <1>1, <1>3 DEF CallsSound
  <2>3. TypeOK'
    BY <1>1, <2>1, KeysAssumption DEF TypeOK, Places, End, Move
  <2>4. OneDiscovery'
    BY <1>1, <2>1, KeysAssumption DEF TypeOK, OneDiscovery, End, Move
  <2>5. KeysOfIssuer'
    BY <1>1, <2>1 DEF TypeOK, KeysOfIssuer, End, Move
  <2>6. CallsSound' /\ OwedCallsAccepted'
    BY <1>1, <2>1, <2>2 DEF TypeOK, CallsSound, OwedCallsAccepted, End, Move
  <2>7. QED
    BY <2>3, <2>4, <2>5, <2>6
<1>4. QED
  BY <1>2, <1>3

(* A key found in either cache is one the issuer published.                 *)
LEMMA LookupStep == ASSUME IInv, NEW t \in Threads, Lookup(t) PROVE IInv'
<1> USE DEF IInv, Lookup, issuer, Move
<1>1. keys' \subseteq keys \union jwkset
  BY KeysAssumption DEF TypeOK, GoOn, End
<1>2. CASE End(t, FALSE)
  <2>1. TypeOK'
    BY <1>1, <1>2, KeysAssumption DEF TypeOK, Places, End
  <2>2. OneDiscovery'
    BY <1>2 DEF TypeOK, OneDiscovery, End
  <2>3. KeysOfIssuer'
    BY <1>1, <1>2 DEF TypeOK, KeysOfIssuer, End
  <2>4. CallsSound' /\ OwedCallsAccepted'
    BY <1>2 DEF TypeOK, CallsSound, OwedCallsAccepted, End
  <2>5. QED
    BY <2>1, <2>2, <2>3, <2>4
<1>3. CASE ~End(t, FALSE)
  <2>1. /\ \E p \in {"fetch", "refresh"} : GoOn(t, p)
        /\ UNCHANGED <<keys, got>>
    BY <1>3
  <2>2. TypeOK'
    BY <2>1 DEF TypeOK, Places, GoOn
  <2>3. OneDiscovery' /\ KeysOfIssuer'
    BY <2>1 DEF TypeOK, OneDiscovery, KeysOfIssuer, GoOn
  <2>4. CallsSound' /\ OwedCallsAccepted'
    BY <2>1 DEF TypeOK, CallsSound, OwedCallsAccepted, GoOn
  <2>5. QED
    BY <2>2, <2>3, <2>4
<1>4. QED
  BY <1>2, <1>3

(* The answer is the issuer's key set of that moment.                       *)
LEMMA FetchStep == ASSUME IInv, NEW t \in Threads, Fetch(t) PROVE IInv'
<1> USE DEF IInv, Fetch, GoOn, Move, issuer
<1>1. client = "own"
  BY DEF TypeOK, KeysOfIssuer, CallsSound, Issuers
<1>2. got' = [got EXCEPT ![t] = published]
  BY <1>1
<1>3. TypeOK'
  BY <1>2 DEF TypeOK, Places, AllKeys
<1>4. OneDiscovery'
  BY DEF TypeOK, OneDiscovery
<1>5. KeysOfIssuer'
  BY <1>2 DEF TypeOK, KeysOfIssuer
<1>6. CallsSound' /\ OwedCallsAccepted'
  BY <1>2 DEF TypeOK, CallsSound, OwedCallsAccepted
<1>7. QED
  BY <1>3, <1>4, <1>5, <1>6

LEMMA FetchFailsStep == ASSUME IInv, NEW t \in Threads, FetchFails(t) PROVE IInv'
<1> USE DEF IInv, FetchFails, End, Move, issuer
<1>1. TypeOK'
  BY KeysAssumption DEF TypeOK, Places
<1>2. OneDiscovery'
  BY DEF TypeOK, OneDiscovery
<1>3. KeysOfIssuer'
  BY DEF TypeOK, KeysOfIssuer
<1>4. ~owed[t]
  BY DEF CallsSound
<1>5. CallsSound' /\ OwedCallsAccepted'
  BY <1>4 DEF TypeOK, CallsSound, OwedCallsAccepted
<1>6. QED
  BY <1>1, <1>2, <1>3, <1>5

(* An owed call finds its key in the answer, whatever the cache held.       *)
LEMMA KeepStep == ASSUME IInv, NEW t \in Threads, Keep(t) PROVE IInv'
<1> USE DEF IInv, Keep, issuer, Move
<1> DEFINE found == token[t] = Probe \/ token[t] \in got[t]
<1>1. /\ place[t] \in {"fetched", "refreshed"}
      /\ jwkset' = got[t]
      /\ UNCHANGED <<client, built, lock, published, ever, healthy>>
      /\ got[t] \subseteq ever
      /\ keys' \subseteq keys \union got[t]
  BY KeysAssumption DEF TypeOK, KeysOfIssuer
<1>2. owed[t] => found
  BY <1>1 DEF CallsSound
<1>3. CASE ~found /\ place[t] = "fetched"
  <2>1. GoOn(t, "refresh") /\ UNCHANGED got
    BY <1>3
  <2>2. TypeOK'
    BY <1>1, <2>1 DEF TypeOK, Places, GoOn
  <2>3. OneDiscovery' /\ KeysOfIssuer'
    BY <1>1, <2>1 DEF TypeOK, OneDiscovery, KeysOfIssuer, GoOn
  <2>4. CallsSound' /\ OwedCallsAccepted'
    BY <1>1, <2>1 DEF TypeOK, CallsSound, OwedCallsAccepted, GoOn
  <2>5. QED
    BY <2>2, <2>3, <2>4
<1>4. CASE ~(~found /\ place[t] = "fetched")
  <2>1. End(t, ~found)
    BY <1>4
  <2>2. TypeOK'
    BY <1>1, <2>1, KeysAssumption DEF TypeOK, Places, End
  <2>3. OneDiscovery' /\ KeysOfIssuer'
    BY <1>1, <2>1 DEF TypeOK, OneDiscovery, KeysOfIssuer, End
  <2>4. CallsSound' /\ OwedCallsAccepted'
    BY <1>1, <1>2, <2>1 DEF TypeOK, CallsSound, OwedCallsAccepted, End
  <2>5. QED
    BY <2>2, <2>3, <2>4
<1>5. QED
  BY <1>3, <1>4

(* Time and the issuer: a withdrawal or an outage ends what was owed.       *)
LEMMA EnvironmentStep ==
  ASSUME IInv,
         \/ Expire
         \/ \E k \in Keys : Publish(k) \/ Withdraw(k)
         \/ Heal
         \/ Break
  PROVE  IInv'
<1> USE DEF IInv
<1>1. CASE Expire
  BY <1>1 DEF Expire, issuer, TypeOK, OneDiscovery, KeysOfIssuer, CallsSound,
     OwedCallsAccepted
<1>2. ASSUME NEW k \in Keys, Publish(k) PROVE IInv'
  BY <1>2 DEF Publish, verifier, TypeOK, OneDiscovery, KeysOfIssuer, CallsSound,
     OwedCallsAccepted
<1>3. ASSUME NEW k \in Keys, Withdraw(k) PROVE IInv'
  BY <1>3 DEF Withdraw, verifier, TypeOK, OneDiscovery, KeysOfIssuer, CallsSound,
     OwedCallsAccepted
<1>4. CASE Heal
  BY <1>4 DEF Heal, verifier, TypeOK, OneDiscovery, KeysOfIssuer, CallsSound,
     OwedCallsAccepted
<1>5. CASE Break
  BY <1>5 DEF Break, verifier, TypeOK, OneDiscovery, KeysOfIssuer, CallsSound,
     OwedCallsAccepted
<1>6. QED
  BY <1>1, <1>2, <1>3, <1>4, <1>5

LEMMA NextIInv == IInv /\ [Next]_vars => IInv'
<1> SUFFICES ASSUME IInv, [Next]_vars PROVE IInv'
  OBVIOUS
<1>1. ASSUME NEW t \in Threads,
             (\E k \in AllKeys \union {Probe} : Call(t, k)) \/ Acquire(t)
      PROVE  IInv'
  BY <1>1, CallStep, AcquireStep
<1>2. ASSUME NEW t \in Threads, Step(t) PROVE IInv'
  BY <1>2, LookStep, AskNextStep, AskLastStep, LookupStep, FetchStep,
     FetchFailsStep, KeepStep DEF Step
<1>3. CASE UNCHANGED vars
  BY <1>3 DEF vars, verifier, issuer, IInv, TypeOK, OneDiscovery, KeysOfIssuer,
     CallsSound, OwedCallsAccepted
<1>4. QED
  BY <1>1, <1>2, <1>3, EnvironmentStep DEF Next

-----------------------------------------------------------------------------
(* The inductive invariant holds in every reachable state: one discovery    *)
(* per process, and no key in a cache that the issuer never published.      *)
THEOREM Invariance == Spec => []IInv
BY InitIInv, NextIInv, PTL DEF Spec

(* A failed discovery or fetch leaves nothing behind that could refuse a    *)
(* later call (_jwks_client).                                               *)
THEOREM NoFailureKept == Spec => []OwedCallsAccepted
<1>1. IInv => OwedCallsAccepted
  BY DEF IInv
<1>2. QED
  BY <1>1, Invariance, PTL
=============================================================================
