--------------------------- MODULE RuleSelection ---------------------------
(***************************************************************************)
(* Which rule wins: the static evaluator (internal/evaluator/static.go)    *)
(* and the conversion of compiled rules into its list (compiled_rule.go).  *)
(* A rule is a record with at least                                        *)
(*   point     the injection point, already parsed                         *)
(*   labels    a function from label keys to wanted values                 *)
(*   priority  of a compiled rule                                          *)
(*   object    the fault object it is given when it is decoded, or None    *)
(*   composed  whether it is a composition                                 *)
(* A request has a point and labels; a label it does not carry reads as    *)
(* the empty string, Go's zero value.                                      *)
(***************************************************************************)
EXTENDS Integers, Sequences, FiniteSets, FaultDecoding

CONSTANTS
  None,
  Objects,   \* fault objects
  SpecOf     \* the description each was made from

Empty == ""

(* parseInjectionPoint: an unknown name is read as ingress.                *)
ParsePoint(name) ==
  IF name \in {"ingress", "egress", "transient", "custom"} THEN name
                                                           ELSE "ingress"

(* have[k] of a Go map.                                                    *)
LabelOf(have, k) == IF k \in DOMAIN have THEN have[k] ELSE Empty

LabelsMatch(want, have) == \A k \in DOMAIN want : LabelOf(have, k) = want[k]

Matches(rule, req) ==
  /\ rule.point = req.point
  /\ LabelsMatch(rule.labels, req.labels)

(* Evaluate: the positions of the matching rules, and the first of them;   *)
(* 0 stands for no decision.                                               *)
MatchesAt(rules, req) == {i \in 1..Len(rules) : Matches(rules[i], req)}

Evaluate(rules, req) ==
  LET found == MatchesAt(rules, req)
  IN  IF found = {} THEN 0 ELSE CHOOSE i \in found : \A j \in found : i <= j

(* A slip: ascending priority.                                             *)
BeforeAscending(compiled, i) ==
  {j \in 1..Len(compiled) :
     \/ compiled[j].priority < compiled[i].priority
     \/ compiled[j].priority = compiled[i].priority /\ j < i}

(* sort.SliceStable by descending priority: how many rules come before     *)
(* position i.                                                             *)
Before(compiled, i) ==
  {j \in 1..Len(compiled) :
     \/ compiled[j].priority > compiled[i].priority
     \/ compiled[j].priority = compiled[i].priority /\ j < i}

SortedByPriority(compiled) ==
  [k \in 1..Len(compiled) |->
     compiled[CHOOSE i \in 1..Len(compiled) :
                Cardinality(Before(compiled, i)) = k - 1]]

(* DecodeCompiledRule: compositions are refused.  DecodeCompiledRules is   *)
(* all or nothing: one rule that cannot be converted fails the list.       *)
Converts(rule, resolve) ==
  /\ rule.object # None => RuleDecodes(SpecOf[rule.object], resolve)
  /\ ~rule.composed

Decodes(compiled, resolve) ==
  \A i \in 1..Len(compiled) : Converts(compiled[i], resolve)

DecodeRule(rule) == [rule EXCEPT !.point = ParsePoint(rule.point)]

DecodeCompiledRules(compiled) ==
  LET sorted == SortedByPriority(compiled)
  IN  [k \in 1..Len(sorted) |-> DecodeRule(sorted[k])]
=============================================================================
