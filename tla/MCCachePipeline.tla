--------------------------- MODULE MCCachePipeline ---------------------------
(* A small instance of CachePipeline for TLC. *)
EXTENDS CachePipeline

CONSTANTS r1, r2, r3, s1, p1, p2
=============================================================================
