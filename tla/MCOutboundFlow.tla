--------------------------- MODULE MCOutboundFlow ---------------------------
(* Small instances of OutboundFlow; flows and threads are interchangeable.  *)
EXTENDS OutboundFlow, TLC

Interchangeable == Permutations(States) \union Permutations(Threads)
=============================================================================
