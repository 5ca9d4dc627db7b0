------------------------- MODULE MCIntentContinuity -------------------------
(* A small world of mandates, delegations, effects and carriers.  A digest  *)
(* is the document's own content, so it is unique by construction.          *)
EXTENDS ProtocolContinuity

CONSTANTS owner, agent, tool, stranger, host, task, vendor, n0, n1, n2, a, b, c1, c2, act, asset

MCAmounts == 0..2
Listing(values, amount) ==
  [values |-> [f \in Fields |-> IF f = asset THEN {a, b} ELSE values], amount |-> amount]

Wide == Listing({a, b}, 1)
Narrow == Listing({a}, 1)
Costly == Listing({a}, 2)

TheMandate ==
  [digest |-> <<"mandate">>, genuine |-> TRUE, actor |-> owner, machine |-> host,
   task |-> task, audience |-> vendor, scope |-> Wide, nonce |-> n0,
   issued |-> 0, starts |-> 0, expires |-> 3]

Hop(parent, from, to, scope, nonce, starts, expires) ==
  [digest |-> <<parent, from, scope, nonce, starts, expires>>, parent |-> parent,
   genuine |-> TRUE, from |-> from, to |-> to, machine |-> host, task |-> task,
   audience |-> vendor, scope |-> scope, nonce |-> nonce, issued |-> starts,
   starts |-> starts, expires |-> expires]

Windows == {<<0, 2>>, <<0, 4>>, <<1, 3>>}

(* The hops someone could sign under one parent: every scope in every       *)
(* window, by the right signer or a stranger, with a fresh or a used nonce. *)
Signed(parent, from, to, nonce) ==
  {Hop(parent, f, to, s, n, w[1], w[2]) :
     f \in {from, stranger}, s \in {Wide, Narrow, Costly}, n \in {nonce, n0},
     w \in Windows}

First == Signed(<<"mandate">>, owner, agent, n1)
Second == UNION {Signed(h.digest, agent, tool, n2) :
                   h \in {g \in First : g.from = owner /\ g.nonce = n1}}

MCMandates == {TheMandate}
MCHops == First \union Second
MCDigests == {TheMandate.digest} \union {h.digest : h \in MCHops}

Effect(actor, value, paid, amount) ==
  [task |-> task, actor |-> actor, machine |-> host,
   values |-> [f \in Fields |-> IF f = asset THEN paid ELSE value], amount |-> amount]

MCEffects == {Effect(agent, b, a, 1), Effect(tool, a, b, 1), Effect(tool, b, a, 1),
              Effect(tool, a, a, 2)}

Carrier(protocol, content, hop, binding) ==
  [projection |-> [protocol |-> protocol, content |-> content], opens |-> TRUE,
   hop |-> hop, binding |-> binding]

Own(protocol, content, hop) ==
  Carrier(protocol, content, hop, [protocol |-> protocol, content |-> content])

Handed == Hop(<<"mandate">>, owner, agent, Wide, n1, 0, 2)
Called == Hop(Handed.digest, agent, tool, Narrow, n2, 0, 2)

(* Each delegation in its own carrier, in another one's, in one that does   *)
(* not open, or in the other protocol's.                                    *)
MCCarriers ==
  {Own("a2a", c1, Handed), Own("mcp", c1, Called),
   Carrier("a2a", c2, Handed, [protocol |-> "a2a", content |-> c1]),
   Carrier("mcp", c1, Handed, [protocol |-> "a2a", content |-> c1]),
   [Own("mcp", c1, Called) EXCEPT !.opens = FALSE],
   Own("mcp", c1, Hop(Handed.digest, stranger, tool, Narrow, n2, 0, 2))}

Pay(actor, value, paid, amount) ==
  [genuine |-> TRUE, task |-> task, actor |-> actor, machine |-> host, amount |-> amount,
   accepted |-> [f \in PaidFields |-> paid],
   binding |-> [f \in Fields \ PaidFields |-> value]]

MCPayments == {Pay(tool, a, b, 1), Pay(tool, b, a, 1),
               [Pay(tool, a, a, 1) EXCEPT !.genuine = FALSE]}
=============================================================================
