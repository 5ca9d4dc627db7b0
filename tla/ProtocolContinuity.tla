------------------------- MODULE ProtocolContinuity -------------------------
(***************************************************************************)
(* Continuity over live protocols (border/protocol_continuity.py): the two  *)
(* delegations of a chain are carried by an A2A message and an MCP request, *)
(* the effect is an HTTP request paid by x402, and what is extracted from   *)
(* them goes through prove_intent_continuity, which is still called         *)
(* directly too.  A carrier may hold a delegation taken from another one.   *)
(*                                                                         *)
(* A projection stands for the fields of a carrier that are digested.  A    *)
(* carried delegation is a hop and the projection its signer bound it to;   *)
(* hop.genuine says that the two verify together (external).                *)
(***************************************************************************)
EXTENDS IntentContinuity

CONSTANTS
  PaidFields,  \* scope fields that the payment payload fills in, not the request
  Contents,    \* what a message or a tool call says
  Carriers,    \* A2A messages and MCP requests in existence
  Payments     \* x402 payment payloads in existence

Projections == [protocol : {"a2a", "mcp"}, content : Contents]
Requests == [Fields \ PaidFields -> Values]
Requirements == [PaidFields -> Values]

ASSUME PaidFieldsAssumption == PaidFields \subseteq Fields

(* opens: the extension is declared, or the method is tools/call.           *)
ASSUME CarriersAssumption ==
  /\ Carriers \subseteq [projection : Projections, opens : BOOLEAN,
                         hop : Hops, binding : Projections]
  /\ Payments \subseteq [genuine : BOOLEAN, task : Tasks, actor : Actors,
                         machine : Machines, amount : Amounts,
                         accepted : Requirements, binding : Requests]

Paths == [a2a : Carriers, mcp : Carriers, request : Requests, payment : Payments]

ASSUME PathAssumption == None \notin Paths

VARIABLES
  path,    \* arguments of the prove_protocol_continuity call under way, or None
  proven   \* history: the paths that were proved, each with its receipt

pathVars == <<vars, path, proven>>

PathTypeOK ==
  /\ path \in Paths \union {None}
  /\ proven \subseteq [path : Paths, receipt : Receipts]

PathInit == Init /\ path = None /\ proven = {}

(* Mutation: the delegation verifies, whatever carries it.                  *)
DelegationGenuine(carrier, protocol) ==
  /\ carrier.projection.protocol = protocol
  /\ carrier.opens
  /\ carrier.hop.genuine

(* _bound_delegation: the delegation was signed for the very carrier.       *)
BoundDelegation(carrier, protocol) ==
  /\ carrier.projection.protocol = protocol
  /\ carrier.opens
  /\ carrier.hop.genuine
  /\ carrier.binding = carrier.projection

(* final_effect_from_http_x402: who acts, what it costs, over which network *)
(* and asset and to whom are the payer's words (accepted, and the extension *)
(* in the payload), the rest is the HTTP request's, which the payer bound.  *)
PaymentBound(payment, request) == payment.binding = request
FinalEffect(request, payment) ==
  [task |-> payment.task, actor |-> payment.actor, machine |-> payment.machine,
   values |-> [f \in Fields |-> IF f \in PaidFields THEN payment.accepted[f]
                               ELSE request[f]],
   amount |-> payment.amount]

(* prove_protocol_continuity: everything is extracted before the mandate is *)
(* looked at, then the proof takes the A2A hop, the MCP hop and the effect. *)
PathStart(m, p) ==
  /\ path = None
  /\ BoundDelegation(p.a2a, "a2a")
  /\ BoundDelegation(p.mcp, "mcp")
  /\ p.payment.genuine
  /\ PaymentBound(p.payment, p.request)
  /\ Start(m)
  /\ path' = p
  /\ UNCHANGED proven

PathExtend ==
  /\ path # None
  /\ \/ proof.chain = <<>> /\ Extend(path.a2a.hop)
     \/ Len(proof.chain) = 1 /\ Extend(path.mcp.hop)
  /\ UNCHANGED <<path, proven>>

PathConclude ==
  /\ path # None
  /\ Len(proof.chain) = 2
  /\ LET e == FinalEffect(path.request, path.payment) IN
     /\ e \in Effects
     /\ Conclude(e)
     /\ proven' = proven \union {[path |-> path, receipt |-> Stamped(proof, e)]}
  /\ path' = None

PathRefuse ==
  /\ path # None
  /\ Refuse
  /\ path' = None
  /\ UNCHANGED proven

(* The Gate, the owners and the clock go on, and so do direct calls.        *)
Aside ==
  /\ Next
  /\ path # None => UNCHANGED proof
  /\ UNCHANGED <<path, proven>>

PathNext ==
  \/ \E m \in Mandates, p \in Paths : PathStart(m, p)
  \/ PathExtend
  \/ PathConclude
  \/ PathRefuse
  \/ Aside

PathSpec == PathInit /\ [][PathNext]_pathVars

-----------------------------------------------------------------------------
(* Properties.                                                              *)

(* A receipt proved over protocols is for the path it was shown: its chain  *)
(* is the delegation the owner's agent signed for this very A2A message,    *)
(* then the one its delegate signed for this very tool call; and its effect *)
(* is what that last delegate's payment, bound to this very HTTP request,   *)
(* says.  No message, call, request or payment can be exchanged for one     *)
(* nobody signed for, although the proof itself sees none of them.          *)
PathBound ==
  \A x \in proven :
    LET r == x.receipt
        p == x.path
    IN /\ r \in receipts
       /\ r.chain = <<p.a2a.hop, p.mcp.hop>>
       /\ p.a2a.binding = p.a2a.projection /\ p.a2a.projection.protocol = "a2a"
       /\ p.mcp.binding = p.mcp.projection /\ p.mcp.projection.protocol = "mcp"
       /\ p.a2a.hop.from = r.mandate.actor /\ p.mcp.hop.from = p.a2a.hop.to
       /\ r.effect = FinalEffect(p.payment.binding, p.payment)
       /\ p.payment.genuine /\ p.payment.actor = p.mcp.hop.to

(* The path under way and the proof under way are of one call.              *)
PathUnderWay ==
  path # None =>
    /\ proof # None
    /\ BoundDelegation(path.a2a, "a2a") /\ BoundDelegation(path.mcp, "mcp")
    /\ path.payment.genuine /\ PaymentBound(path.payment, path.request)
    /\ proof.chain \in {<<>>, <<path.a2a.hop>>, <<path.a2a.hop, path.mcp.hop>>}

PathIInv == IInv /\ PathTypeOK /\ PathUnderWay /\ PathBound
=============================================================================
