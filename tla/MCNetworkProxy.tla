--------------------------- MODULE MCNetworkProxy ---------------------------
(* Small instances of NetworkProxy for TLC. *)
EXTENDS NetworkProxy

CONSTANTS c1

AllToxics    == {"none", "delay", "reset", "resetAfter", "blackhole"}
StreamToxics == {"none", "delay"}
=============================================================================
