-------------------------- MODULE MCFaultRegistry --------------------------
(* Instances of FaultRegistry for TLC. *)
EXTENDS FaultRegistry

CONSTANTS c1, c2, c3, k1, x1, x2

(* Two deduplicated calls compete for k1, the third starts always under    *)
(* the same key; the first fault ends only when its context is done.       *)
MCKeyOf == [c \in Calls |-> k1]
MCPolicyOf == [c \in Calls |-> IF c = c3 THEN "AlwaysStart"
                               ELSE IF c = c2 THEN "DeduplicateByType"
                               ELSE "DeduplicateByRule"]
MCLongRunning == {c1}
MCNobody == {}

(* Every call deduplicates. *)
MCDedupAll == [c \in Calls |-> "DeduplicateByRule"]
=============================================================================
