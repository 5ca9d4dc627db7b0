------------------------------ MODULE KeyCache ------------------------------
(***************************************************************************)
(* The access-token verifier of the sandbox (border/live_sandbox.py,        *)
(* OIDCJWTVerifier): one object shared by the threads of a worker process.  *)
(* The first call discovers the issuer's key set address under a            *)
(* double-checked lock; every call then looks its token's key up in the     *)
(* caches of a PyJWKClient (external: its key cache by kid, its key set     *)
(* cache with a lifespan, one forced refresh for an unknown kid, and a      *)
(* failed fetch that empties the set cache).                                *)
(*                                                                         *)
(* A key stands for its kid: issuers do not reuse one.  A token is the key  *)
(* it is signed with; of a forged token, signed by none of them, decode     *)
(* makes a refusal whatever this module does.                               *)
(***************************************************************************)
EXTENDS Naturals

CONSTANTS
  Threads,
  Keys,         \* the keys of the configured issuer, over time
  ForeignKeys,  \* keys of whoever else answers at a discovery address
  FirstKey,     \* the one published when the process starts
  Probe,        \* what ready() asks for: any key set at all
  Urls,         \* bound: how many discovery addresses the issuer has
  None

Issuers == {"own", "foreign"}

ASSUME KeysAssumption ==
  /\ FirstKey \in Keys
  /\ Keys \intersect ForeignKeys = {}
  /\ Probe \notin Keys \union ForeignKeys
  /\ None \notin Threads \union Issuers
  /\ Urls \in Nat \ {0}

AllKeys == Keys \union ForeignKeys
Places == {"idle", "client", "lock", "asking", "lookup", "fetch", "refresh",
           "fetched", "refreshed"}

VARIABLES
  client,     \* _jwks: whose metadata the client was made from, or None
  built,      \* history: how many clients were made
  lock,       \* the thread that holds _jwks_lock, or None
  keys,       \* the client's key cache
  jwkset,     \* the client's key set cache; {} when it holds none
  place,      \* per thread: where it is
  token,      \* per thread: the key of its token, or Probe
  url,        \* per thread: the discovery address it asks next
  got,        \* per thread: the key set it was answered
  owed,       \* history, per thread: the call began while the issuer was
              \* healthy and published its key, and this has been so since
  denied,     \* history, per thread: its last call was owed an acceptance and
              \* ended in an exception (ready: False)
  published,  \* the issuer's key set now
  ever,       \* history: every key it has published
  healthy     \* its endpoints answer, correctly

verifier == <<client, built, lock, keys, jwkset, place, token, url, got, denied>>
issuer == <<published, ever, healthy>>
vars == <<verifier, owed, issuer>>

TypeOK ==
  /\ client \in Issuers \union {None}
  /\ built \in Nat
  /\ lock \in Threads \union {None}
  /\ keys \subseteq AllKeys
  /\ jwkset \subseteq AllKeys
  /\ place \in [Threads -> Places]
  /\ token \in [Threads -> AllKeys \union {Probe}]
  /\ url \in [Threads -> 1 .. Urls]
  /\ got \in [Threads -> SUBSET AllKeys]
  /\ owed \in [Threads -> BOOLEAN]
  /\ denied \in [Threads -> BOOLEAN]
  /\ published \subseteq Keys
  /\ ever \subseteq Keys
  /\ healthy \in BOOLEAN

Init ==
  /\ client = None
  /\ built = 0
  /\ lock = None
  /\ keys = {}
  /\ jwkset = {}
  /\ place = [t \in Threads |-> "idle"]
  /\ token = [t \in Threads |-> Probe]
  /\ url = [t \in Threads |-> 1]
  /\ got = [t \in Threads |-> {}]
  /\ owed = [t \in Threads |-> FALSE]
  /\ denied = [t \in Threads |-> FALSE]
  /\ published = {FirstKey}
  /\ ever = {FirstKey}
  /\ healthy = FALSE

-----------------------------------------------------------------------------
Move(t, p) == place' = [place EXCEPT ![t] = p]

(* A call returns or raises, and its local variables are gone.              *)
End(t, raises) ==
  /\ Move(t, "idle")
  /\ token' = [token EXCEPT ![t] = Probe]
  /\ url' = [url EXCEPT ![t] = 1]
  /\ got' = [got EXCEPT ![t] = {}]
  /\ owed' = [owed EXCEPT ![t] = FALSE]
  /\ denied' = [denied EXCEPT ![t] = raises /\ owed[t]]

GoOn(t, p) == Move(t, p) /\ UNCHANGED <<token, url, owed, denied>>

(* __call__ with a token, or ready().                                       *)
Call(t, k) ==
  /\ place[t] = "idle"
  /\ Move(t, "client")
  /\ token' = [token EXCEPT ![t] = k]
  /\ owed' = [owed EXCEPT ![t] = healthy /\ (k = Probe \/ k \in published)]
  /\ UNCHANGED <<client, built, lock, keys, jwkset, url, got, denied, issuer>>

(* _jwks_client: the first look, without the lock.                          *)
Look(t) ==
  /\ place[t] = "client"
  /\ GoOn(t, IF client # None THEN "lookup" ELSE "lock")
  /\ UNCHANGED <<client, built, lock, keys, jwkset, got, issuer>>

(* Mutation: no second look.                                                *)
MustDiscoverUnchecked == TRUE

(* The second look, with the lock.                                          *)
MustDiscover == client = None

Acquire(t) ==
  /\ place[t] = "lock"
  /\ lock = None
  /\ lock' = IF MustDiscover THEN t ELSE None
  /\ GoOn(t, IF MustDiscover THEN "asking" ELSE "lookup")
  /\ UNCHANGED <<client, built, keys, jwkset, got, issuer>>

(* One discovery address is asked.  It answers 200 with its own metadata or *)
(* somebody else's, another status ("absent"), or not at all ("down"); a    *)
(* healthy issuer has a document at the last address at least.              *)
Answers == Issuers \union {"absent", "down"}

AskNext(t) ==
  /\ place[t] = "asking"
  /\ url[t] < Urls
  /\ url' = [url EXCEPT ![t] = @ + 1]
  /\ UNCHANGED <<client, built, lock, keys, jwkset, place, token, got, owed, denied, issuer>>

(* Mutation: an exception skips the release.                                *)
ReleasedOnSuccess(answer) == answer = "own"

(* "with": the lock is free again however the block is left.                *)
Released(answer) == TRUE

(* Mutation: the first document that parses is believed.                    *)
BelievedUnchecked(answer) == answer \in Issuers

(* The metadata must name the configured issuer.                            *)
Believed(answer) == answer = "own"

AskLast(t, answer) ==
  /\ place[t] = "asking"
  /\ healthy => answer = "own"
  /\ answer = "absent" => url[t] = Urls
  /\ lock' = IF Released(answer) THEN None ELSE lock
  /\ IF Believed(answer)
     THEN /\ client' = answer
          /\ built' = built + 1
          /\ keys' = {}
          /\ jwkset' = {}
          /\ GoOn(t, "lookup")
          /\ UNCHANGED got
     ELSE End(t, TRUE) /\ UNCHANGED <<client, built, keys, jwkset>>
  /\ UNCHANGED issuer

(* get_signing_key_from_jwt, get_jwk_set: the caches.                       *)
Lookup(t) ==
  LET k == token[t] IN
  /\ place[t] = "lookup"
  /\ IF k \in keys \union jwkset \/ (k = Probe /\ jwkset # {})
     THEN End(t, FALSE) /\ keys' = keys \union ({k} \ {Probe})
     ELSE /\ GoOn(t, IF jwkset = {} THEN "fetch" ELSE "refresh")
          /\ UNCHANGED <<keys, got>>
  /\ UNCHANGED <<client, built, lock, jwkset, issuer>>

(* The key set endpoint answers, or the request fails.                      *)
Fetch(t) ==
  /\ place[t] \in {"fetch", "refresh"}
  /\ got' = [got EXCEPT ![t] = IF client = "own" THEN published ELSE ForeignKeys]
  /\ GoOn(t, IF place[t] = "fetch" THEN "fetched" ELSE "refreshed")
  /\ UNCHANGED <<client, built, lock, keys, jwkset, issuer>>

FetchFails(t) ==
  /\ place[t] \in {"fetch", "refresh"}
  /\ ~healthy
  /\ jwkset' = {}
  /\ End(t, TRUE)
  /\ UNCHANGED <<client, built, lock, keys, issuer>>

(* The answer goes into the cache, over whatever another thread put there   *)
(* since; a first fetch that lacks the key is followed by a forced one.     *)
Keep(t) ==
  LET k == token[t]
      found == k = Probe \/ k \in got[t]
  IN
  /\ place[t] \in {"fetched", "refreshed"}
  /\ jwkset' = got[t]
  /\ keys' = IF found THEN keys \union ({k} \ {Probe}) ELSE keys
  /\ IF ~found /\ place[t] = "fetched"
     THEN GoOn(t, "refresh") /\ UNCHANGED got
     ELSE End(t, ~found)
  /\ UNCHANGED <<client, built, lock, issuer>>

(* The lifespan of the key set cache is over.                               *)
Expire ==
  /\ jwkset # {}
  /\ jwkset' = {}
  /\ UNCHANGED <<client, built, lock, keys, place, token, url, got, owed, denied, issuer>>

(* The issuer rotates its keys, and its endpoints fail and recover.         *)
Publish(k) ==
  /\ k \in Keys \ ever
  /\ published' = published \union {k}
  /\ ever' = ever \union {k}
  /\ UNCHANGED <<verifier, owed, healthy>>

Withdraw(k) ==
  /\ k \in published
  /\ published # {k}
  /\ published' = published \ {k}
  /\ owed' = [t \in Threads |-> owed[t] /\ token[t] # k]
  /\ UNCHANGED <<verifier, ever, healthy>>

Heal ==
  /\ ~healthy
  /\ healthy' = TRUE
  /\ UNCHANGED <<verifier, owed, published, ever>>

Break ==
  /\ healthy
  /\ healthy' = FALSE
  /\ owed' = [t \in Threads |-> FALSE]
  /\ UNCHANGED <<verifier, published, ever>>

Step(t) ==
  \/ Look(t)
  \/ AskNext(t)
  \/ \E answer \in Answers : AskLast(t, answer)
  \/ Lookup(t)
  \/ Fetch(t)
  \/ FetchFails(t)
  \/ Keep(t)

Next ==
  \/ \E t \in Threads :
       \/ \E k \in AllKeys \union {Probe} : Call(t, k)
       \/ Acquire(t)
       \/ Step(t)
  \/ Expire
  \/ \E k \in Keys : Publish(k) \/ Withdraw(k)
  \/ Heal
  \/ Break

(* Threads are scheduled and requests have timeouts; a lock that is free    *)
(* again and again is not withheld from one thread for ever.                *)
Fairness == \A t \in Threads : WF_vars(Step(t)) /\ SF_vars(Acquire(t))

Spec == Init /\ [][Next]_vars /\ Fairness

-----------------------------------------------------------------------------
(* Properties.                                                              *)

(* No failure is kept: a call that begins while the issuer's endpoints are  *)
(* healthy and its key is published is never refused, whatever discoveries  *)
(* and fetches failed before, fail on other threads or overwrite the cache  *)
(* meanwhile, and however old the cached key set is (_jwks_client, ready).  *)
OwedCallsAccepted == \A t \in Threads : ~denied[t]

(* Every call of the verifier ends, with the lock taken on the way or not.  *)
EveryCallEnds == \A t \in Threads : place[t] # "idle" ~> place[t] = "idle"

-----------------------------------------------------------------------------
(* The inductive invariant.                                                 *)

(* The lock is held by the thread that discovers, and nobody discovers once *)
(* a client exists: one client for the life of the process.                 *)
OneDiscovery ==
  /\ \A t \in Threads : place[t] = "asking" <=> lock = t
  /\ lock # None => client = None
  /\ built = IF client = None THEN 0 ELSE 1

(* Only keys the configured issuer has published can verify a token.        *)
KeysOfIssuer ==
  /\ client # "foreign"
  /\ keys \union jwkset \subseteq ever
  /\ \A t \in Threads : place[t] \in {"fetched", "refreshed"} => got[t] \subseteq ever
  /\ published \subseteq ever

(* A call beyond the client has one, and an owed call's answer has its key. *)
CallsSound ==
  \A t \in Threads :
    /\ place[t] \in {"lookup", "fetch", "refresh", "fetched", "refreshed"}
         => client # None
    /\ owed[t] => healthy /\ (token[t] = Probe \/ token[t] \in published)
    /\ owed[t] /\ place[t] \in {"fetched", "refreshed"}
         => token[t] = Probe \/ token[t] \in got[t]

IInv == TypeOK /\ OneDiscovery /\ KeysOfIssuer /\ CallsSound /\ OwedCallsAccepted
=============================================================================
