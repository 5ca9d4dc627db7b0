--------------------------- MODULE CrossingReceipt ---------------------------
(***************************************************************************)
(* The portable crossing receipt (conformance/crossing_receipt.py): create  *)
(* mints a receipt for one crossing; whoever carries it may alter, resend   *)
(* or mix it; the far side verifies it against what it observed and spends  *)
(* its nonce.  A digest and a signature stand for the content they cover,   *)
(* and only the holder of the key signs (external).  previous_digest is     *)
(* bound but never compared, so it is left out.                             *)
(*                                                                          *)
(* Times are compared as the strings they are, never parsed.  A stamp has   *)
(* the form it is written in (its offset and its precision), its place in   *)
(* the order of strings, and the instant it means; only between stamps of   *)
(* one form do places go by instants.                                       *)
(***************************************************************************)
EXTENDS Naturals, FiniteSets

CONSTANTS
  Contents,     \* the bound fields a receipt may have: whether the schema is the
                \* known one, crossing (Fields -> Values), nonce, issued_at,
                \* expires_at, revoked
  Stamps,       \* the timestamps in use: form, place, instant
  Fields,       \* what is observed of a crossing: caller, task, arguments, ...
  Values, Nonces,
  None,         \* no signature, field not observed
  MaxClock,     \* bound: the clock stops here
  MaxMinted     \* bound: receipts minted

Receipts == [content : Contents, digest : Contents, signature : Contents \union {None}]
Observations == [Fields -> Values \union {None}]

VARIABLES
  minted,        \* contents create has signed
  seen_nonces,   \* the far side's, shared by its verifiers with and without key
  accepted,      \* history: the calls of verify that accepted, numbered
  clock

vars == <<minted, seen_nonces, accepted, clock>>

TypeOK ==
  /\ minted \subseteq Contents
  /\ seen_nonces \subseteq Nonces
  /\ accepted \subseteq [receipt : Receipts, observed : Observations,
                         keyed : BOOLEAN, at : Stamps, call : Nat]
  /\ clock \in 0..MaxClock

Init ==
  /\ minted = {}
  /\ seen_nonces = {}
  /\ accepted = {}
  /\ clock = 0

(* create: always this schema; the issuer chooses the nonce, even one used. *)
Create(content) ==
  /\ Cardinality(minted) < MaxMinted
  /\ content.known_schema
  /\ minted' = minted \union {content}
  /\ UNCHANGED <<seen_nonces, accepted, clock>>

(* Mutation: a receipt without a signature is not asked for one.            *)
SignedIfPresent(receipt) == receipt.signature \in {receipt.content, None}
SignatureVerifies(receipt) == receipt.signature = receipt.content

ObservedAsBound(receipt, observed) ==
  \A f \in Fields : observed[f] \in {receipt.content.crossing[f], None}

(* now and the receipt's own times are strings, and compared as such.       *)
Fresh(content, now) ==
  /\ ~content.revoked
  /\ content.issued_at.place <= now.place
  /\ now.place < content.expires_at.place

(* verify adds up reasons and returns them together.                        *)
Accepts(receipt, observed, keyed, now) ==
  /\ receipt.digest = receipt.content
  /\ keyed => SignatureVerifies(receipt)
  /\ ObservedAsBound(receipt, observed)
  /\ Fresh(receipt.content, now)
  /\ receipt.content.nonce \notin seen_nonces

(* An unknown schema returns at once; any other receipt spends its nonce,   *)
(* refused or not.  The caller says what time it is, in a form of its own.  *)
Verify(receipt, observed, keyed, now) ==
  /\ now.instant = clock
  /\ receipt.content.known_schema
  /\ seen_nonces' = seen_nonces \union {receipt.content.nonce}
  /\ accepted' = IF Accepts(receipt, observed, keyed, now)
                 THEN accepted \union
                        {[receipt |-> receipt, observed |-> observed, keyed |-> keyed,
                          at |-> now, call |-> Cardinality(accepted)]}
                 ELSE accepted
  /\ UNCHANGED <<minted, clock>>

Tick ==
  /\ clock < MaxClock
  /\ clock' = clock + 1
  /\ UNCHANGED <<minted, seen_nonces, accepted>>

(* What a carrier can present: any fields under any digest, and a signature *)
(* copied from a receipt that was minted.                                   *)
Presentable == [content : Contents, digest : Contents, signature : minted \union {None}]

Next ==
  \/ \E content \in Contents : Create(content)
  \/ \E receipt \in Presentable, observed \in Observations, keyed \in BOOLEAN,
       now \in Stamps : Verify(receipt, observed, keyed, now)
  \/ Tick

Spec == Init /\ [][Next]_vars

-----------------------------------------------------------------------------
(* What a verifier with a key accepts was minted, before, with these very   *)
(* fields, and is what the far side observed; however receipts are altered, *)
(* resent or minted again under a used nonce, and by whichever verifier of  *)
(* the far side, a nonce is accepted at most once.  It is accepted inside   *)
(* its window if the caller writes the time as the issuer does; between     *)
(* stamps of different forms the code promises nothing.                     *)
OneForm(stamps) == \A x, y \in stamps : x.form = y.form

AcceptedOnceAsMinted ==
  /\ \A a \in accepted :
       LET c == a.receipt.content IN
       /\ a.keyed => c \in minted
       /\ \A f \in Fields : a.observed[f] # None => a.observed[f] = c.crossing[f]
       /\ ~c.revoked
       /\ OneForm({a.at, c.issued_at, c.expires_at}) =>
            /\ c.issued_at.instant <= a.at.instant
            /\ a.at.instant < c.expires_at.instant
  /\ \A a, b \in accepted :
       a.receipt.content.nonce = b.receipt.content.nonce => a = b
=============================================================================
