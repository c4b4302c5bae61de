--------------------------- MODULE MCInterception ---------------------------
(* A small instance of Interception for TLC: two requests of any kind, and *)
(* rules and faults that replace each other while they are under way.      *)
(* Decoding builds a fault object per rule, so no two rules share one.     *)
EXTENDS Interception, TLC

CONSTANTS r1, r2, proxy, proxy2, sleep, own, broken, broken2, broken3,
          garbled, pace, wait, NoOne

Spec1(category, type, main, span) ==
  [category |-> category, type |-> type, main |-> main, extra |-> "absent",
   span |-> span, ramp |-> "none", target |-> "known"]

(* The broken ones are stresses that never start; garbled does not parse.  *)
(* Of the two the admin format brings, pace needs the resolver and wait is *)
(* an inline latency.                                                      *)
MCSpecOf ==
  (proxy   :> Spec1("network", "latency", "positive", "positive")) @@
  (proxy2  :> Spec1("resource", "cpu", "positive", "positive")) @@
  (sleep   :> Spec1("inline", "latency", "positive", "absent")) @@
  (own     :> Spec1("resource", "memory", "positive", "positive")) @@
  (broken  :> Spec1("resource", "disk", "absent", "zero")) @@
  (broken2 :> Spec1("resource", "disk", "absent", "zero")) @@
  (broken3 :> Spec1("resource", "disk", "absent", "zero")) @@
  (garbled :> Spec1("inline", "hang", "malformed", "positive")) @@
  (pace    :> Spec1("network", "throttle", "positive", "positive")) @@
  (wait    :> Spec1("absent", "latency", "positive", "absent"))

Rule(name, point, labels, priority, object, mode, policy) ==
  [name |-> name, point |-> point, labels |-> labels, priority |-> priority,
   object |-> object, mode |-> mode, policy |-> policy,
   cache |-> FALSE, composed |-> FALSE]

Dd == "DeduplicateByRule"
OnA == [host |-> "a"]
NoHost == [host |-> Empty]

(* Ingress (an unknown point) runs the proxy fault; at egress host a       *)
(* sleeps in line, and the rest and hooks without a host are broken.       *)
First ==
  <<Rule("proxy", "unknown", <<>>, 1, proxy, "background", Dd),
    Rule("bad", "egress", <<>>, 1, broken, "inline", "AlwaysStart"),
    Rule("sleep", "egress", OnA, 2, sleep, "inline", Dd),
    Rule("bad", "custom", NoHost, 1, broken2, "background", Dd)>>

(* Hooks run a stress that is not deduplicated, the second rule of a tie   *)
(* is never reached, and nothing is done at egress.                        *)
Second ==
  <<Rule("hook", "custom", <<>>, 1, proxy2, "inline", "AlwaysStart"),
    Rule("hook", "custom", OnA, 1, broken3, "inline", Dd),
    Rule("off", "egress", <<>>, 1, NoOne, "inline", Dd)>>

(* Lists manteion sent that cannot be decoded. *)
Garbled == <<Rule("hook", "custom", <<>>, 1, garbled, "inline", Dd)>>
Composed == <<[Rule("hook", "custom", <<>>, 1, NoOne, "inline", Dd)
                 EXCEPT !.composed = TRUE]>>

(* POST /admin/rules freezes egress. *)
Freeze == <<[Rule("frozen", "egress", <<>>, 0, NoOne, "background", Dd)
               EXCEPT !.cache = TRUE]>>

MCLists    == {First, Second, Garbled, Composed}
MCPosted   == {Freeze}
MCAdmin    == (pace :> "admin") @@ (wait :> "active_fault")
MCEntriesOf ==
  [r \in Requests |->
     IF r = r1 THEN {"ingress", "egress", "hook", "mustFault"}
               ELSE {"rpcServer", "egress", "rpcClient", "mustFault"}]
MCLabelsOf == [r \in Requests |-> IF r = r1 THEN OnA ELSE <<>>]
=============================================================================
