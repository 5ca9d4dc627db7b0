---------------------------- MODULE MCKeyCache ----------------------------
(* Two threads, a rotation and a stranger's key for KeyCache.               *)
EXTENDS KeyCache

CONSTANTS t1, t2, k1, k2, f1
=============================================================================
