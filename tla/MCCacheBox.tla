----------------------------- MODULE MCCacheBox -----------------------------
(* Small instances of CacheBox for TLC. *)
EXTENDS CacheBox, TLC

CONSTANTS q1, q2, q3, q4, h1, pA, pB, b1, b2, big, s1

A == [host |-> h1, path |-> pA]
MCSeedA == {A}
MCNoSeed == {}

(* All requests go to A: q1 and q2 with the same body, q3 with another, q4 *)
(* with one that does not fit; the seeded entry is for A without a body.   *)
MCTargetOf == [r \in Requests |-> A]
MCBodyOf ==
  [r \in Requests |-> CASE r \in {q1, q2} -> b1
                         [] r = q3 -> b2
                         [] OTHER -> big]

(* What q1 and q2 ask is the same in all respects.                         *)
MCSymmetry == Permutations({q1, q2})

MCSizeOf(e) == 1
=============================================================================
