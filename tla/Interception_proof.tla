------------------------- MODULE Interception_proof -------------------------
(***************************************************************************)
(* Proofs about Interception, for every set of requests, fault objects,    *)
(* rule lists and admin faults.                                            *)
(***************************************************************************)
EXTENDS Interception, FiniteSetTheorems, WellFoundedInduction, TLAPS

-----------------------------------------------------------------------------
(* Sorting a list of rules. *)

Lists == CompiledLists \cup PostedLists

(* A list of rules and what stands in it.                                  *)
LEMMA RuleAt ==
  ASSUME NEW list \in Lists
  PROVE  /\ Len(list) \in Nat
         /\ list = [i \in 1..Len(list) |-> list[i]]
         /\ \A i \in 1..Len(list) :
              list[i] \in RulesIn(list) /\ IsRule(list[i])
  BY ListsAssumption DEF Lists, RulesIn

(* Of two positions one comes before the other, and what comes before the  *)
(* first also comes before the second.                                     *)
LEMMA BeforeOrders ==
  ASSUME NEW list \in Lists, NEW i \in 1..Len(list), NEW j \in 1..Len(list)
  PROVE  /\ i \notin Before(list, i)
         /\ i # j => i \in Before(list, j) \/ j \in Before(list, i)
         /\ i \in Before(list, j) => Before(list, i) \subseteq Before(list, j)
<1>1. \A k \in 1..Len(list) : list[k].priority \in Int /\ k \in Int
  <2>1. Len(list) \in Nat /\ \A k \in 1..Len(list) : IsRule(list[k])
    BY RuleAt
  <2>2. ASSUME NEW r, IsRule(r)
        PROVE  r.priority \in Int
    BY <2>2, Zenon DEF IsRule
  <2>3. QED
    BY <2>1, <2>2
<1>2. QED
  BY <1>1 DEF Before

(* How many come before a position, which is its place once the list is    *)
(* sorted: less than the list has, and more the later it comes.            *)
LEMMA BeforeCounts ==
  ASSUME NEW list \in Lists, NEW i \in 1..Len(list)
  PROVE  /\ IsFiniteSet(Before(list, i))
         /\ Cardinality(Before(list, i)) \in 0..(Len(list) - 1)
         /\ \A j \in 1..Len(list) :
              j \in Before(list, i) =>
                Cardinality(Before(list, j)) < Cardinality(Before(list, i))
<1>1. Len(list) \in Nat
  BY RuleAt
<1>2. IsFiniteSet(1..Len(list)) /\ Cardinality(1..Len(list)) = Len(list)
  <2>1. PICK n \in Nat : n = Len(list)
    BY <1>1
  <2>2. IsFiniteSet(1..n) /\ Cardinality(1..n) = n
    BY FS_Interval
  <2>3. QED
    BY <2>1, <2>2
<1>3. \A j \in 1..Len(list) :
        Before(list, j) \subseteq 1..Len(list) /\ j \notin Before(list, j)
  BY BeforeOrders DEF Before
<1>4. \A j \in 1..Len(list) :
        /\ IsFiniteSet(Before(list, j))
        /\ Cardinality(Before(list, j)) \in Nat
  BY <1>2, <1>3, FS_Subset, FS_CardinalityType
<1>5. Cardinality(Before(list, i)) < Len(list)
  <2>1. /\ Cardinality(Before(list, i)) <= Cardinality(1..Len(list))
        /\ Cardinality(Before(list, i)) # Cardinality(1..Len(list))
    BY <1>2, <1>3, FS_Subset
  <2>2. QED
    BY <1>1, <1>2, <1>4, <2>1
<1>6. ASSUME NEW j \in 1..Len(list), j \in Before(list, i)
      PROVE  Cardinality(Before(list, j)) < Cardinality(Before(list, i))
  <2>1. /\ Before(list, j) \subseteq Before(list, i)
        /\ Before(list, j) # Before(list, i)
    BY <1>3, <1>6, BeforeOrders
  <2>2. /\ Cardinality(Before(list, j)) <= Cardinality(Before(list, i))
        /\ Cardinality(Before(list, j)) # Cardinality(Before(list, i))
    BY <1>4, <2>1, FS_Subset
  <2>3. QED
    BY <1>4, <2>2
<1>7. QED
  BY <1>1, <1>4, <1>5, <1>6

(* Every place of the sorted list belongs to exactly one position of the   *)
(* list that is sorted.                                                    *)
LEMMA SortPlaces ==
  ASSUME NEW list \in Lists
  PROVE  /\ \A k \in 1..Len(list) : \E i \in 1..Len(list) :
              Cardinality(Before(list, i)) = k - 1
         /\ \A i, j \in 1..Len(list) :
              Cardinality(Before(list, i)) = Cardinality(Before(list, j))
                => i = j
<1> DEFINE n == Len(list)
           place == [i \in 1..n |-> Cardinality(Before(list, i)) + 1]
<1>1. n \in Nat
  BY RuleAt
<1>2. \A i \in 1..n : Cardinality(Before(list, i)) \in 0..(n - 1)
  BY BeforeCounts
<1>3. ASSUME NEW i \in 1..n, NEW j \in 1..n,
             Cardinality(Before(list, i)) = Cardinality(Before(list, j))
      PROVE  i = j
  <2>1. ASSUME NEW a \in 1..n, NEW b \in 1..n, a \in Before(list, b)
        PROVE  Cardinality(Before(list, a)) < Cardinality(Before(list, b))
    BY <2>1, BeforeCounts
  <2>2. i \notin Before(list, j) /\ j \notin Before(list, i)
    BY <1>2, <1>3, <2>1
  <2>3. QED
    BY <2>2, BeforeOrders
<1>4. place \in [1..n -> 1..n]
  BY <1>1, <1>2
<1>5. place \in Injection(1..n, 1..n)
  <2>1. ASSUME NEW a \in 1..n, NEW b \in 1..n, place[a] = place[b]
        PROVE  a = b
    <3>1. Cardinality(Before(list, a)) = Cardinality(Before(list, b))
      BY <1>1, <1>2, <2>1
    <3>2. QED
      BY <1>3, <3>1
  <2> HIDE DEF place
  <2>2. QED
    BY <1>4, <2>1 DEF Injection, IsInjective
<1>6. IsFiniteSet(1..n)
  BY <1>1, FS_Interval
<1>7. place \in Surjection(1..n, 1..n)
  <2> HIDE DEF place
  <2>1. QED
    BY <1>5, <1>6, FS_Injection
<1>8. ASSUME NEW k \in 1..n
      PROVE  \E i \in 1..n : Cardinality(Before(list, i)) = k - 1
  <2>1. PICK i \in 1..n : place[i] = k
    <3> HIDE DEF place
    <3>1. QED
      BY <1>7 DEF Surjection
  <2>2. Cardinality(Before(list, i)) + 1 = k
    BY <2>1
  <2>3. QED
    BY <1>1, <1>2, <2>2
<1>9. QED
  BY <1>3, <1>8

(* What stands at each place once a list is sorted and decoded.            *)
LEMMA DecodedAt ==
  ASSUME NEW list \in Lists
  PROVE  /\ Len(DecodeCompiledRules(list)) = Len(list)
         /\ \A i \in 1..Len(list) :
              /\ Cardinality(Before(list, i)) + 1 \in 1..Len(list)
              /\ DecodeCompiledRules(list)[Cardinality(Before(list, i)) + 1] =
                   DecodeRule(list[i])
         /\ \A k \in 1..Len(list) : \E i \in 1..Len(list) :
              /\ Cardinality(Before(list, i)) = k - 1
              /\ DecodeCompiledRules(list)[k] = DecodeRule(list[i])
<1> DEFINE n == Len(list)
           at(k) == CHOOSE i \in 1..n : Cardinality(Before(list, i)) = k - 1
<1>1. n \in Nat
  BY RuleAt
<1>2. /\ SortedByPriority(list) = [k \in 1..n |-> list[at(k)]]
      /\ Len(SortedByPriority(list)) = n
  BY <1>1 DEF SortedByPriority
<1>3. /\ DecodeCompiledRules(list) = [k \in 1..n |-> DecodeRule(list[at(k)])]
      /\ Len(DecodeCompiledRules(list)) = n
  <2> HIDE DEF at
  <2>1. QED
    BY <1>1, <1>2 DEF DecodeCompiledRules
<1>4. \A i \in 1..n : Cardinality(Before(list, i)) \in 0..(n - 1)
  BY BeforeCounts
<1>5. \A k \in 1..n : /\ at(k) \in 1..n
                      /\ Cardinality(Before(list, at(k))) = k - 1
  BY SortPlaces
<1>6. ASSUME NEW i \in 1..n
      PROVE  /\ Cardinality(Before(list, i)) + 1 \in 1..n
             /\ DecodeCompiledRules(list)[Cardinality(Before(list, i)) + 1] =
                  DecodeRule(list[i])
  <2>1. PICK k \in 1..n : k = Cardinality(Before(list, i)) + 1
    BY <1>1, <1>4
  <2>2. Cardinality(Before(list, i)) = k - 1
    BY <1>4, <2>1
  <2>3. at(k) = i
    <3> HIDE DEF at
    <3>1. QED
      BY <1>5, <2>2, SortPlaces
  <2> HIDE DEF at
  <2>4. DecodeCompiledRules(list)[k] = DecodeRule(list[i])
    BY <1>3, <2>3
  <2>5. QED
    BY <2>1, <2>4
<1> HIDE DEF at
<1>7. QED
  BY <1>3, <1>5, <1>6
-----------------------------------------------------------------------------
(* Evaluate picks the first match.                                         *)
LEMMA EvaluatesFirst ==
  ASSUME NEW list, Len(list) \in Nat, NEW q
  PROVE  /\ MatchesAt(list, q) = {} => Evaluate(list, q) = 0
         /\ MatchesAt(list, q) # {} =>
              /\ Evaluate(list, q) \in MatchesAt(list, q)
              /\ \A j \in MatchesAt(list, q) : Evaluate(list, q) <= j
<1> DEFINE found == MatchesAt(list, q)
           R == {ss \in Nat \X Nat : ss[1] < ss[2]}
<1>1. CASE found = {}
  BY <1>1 DEF Evaluate
<1>2. CASE found # {}
  <2>1. found \subseteq Nat
    BY DEF MatchesAt
  <2>2. IsWellFoundedOn(R, Nat)
    BY NatLessThanWellFounded DEF OpToRel
  <2>3. PICK i \in found : \A j \in found : <<j, i>> \notin R
    <3> HIDE DEF R, found
    <3>1. QED
      BY <1>2, <2>1, <2>2, WFMin
  <2> HIDE DEF found
  <2>4. ASSUME NEW j \in found
        PROVE  i <= j
    <3>1. i \in Nat /\ j \in Nat
      BY <2>1
    <3>2. ~(j < i)
      BY <2>3, <3>1
    <3>3. QED
      BY <3>1, <3>2
  <2>5. Evaluate(list, q) = CHOOSE k \in found : \A j \in found : k <= j
    BY <1>2 DEF Evaluate, found
  <2>6. QED
    BY <1>2, <2>4, <2>5 DEF found
<1>3. QED
  BY <1>1, <1>2

-----------------------------------------------------------------------------
(* Decisions and the fault objects in them. *)

(* What a request may be decided by: the fault of a MustFault call, the    *)
(* admin fault, or a compiled rule.                                        *)
Decisions ==
  ({OwnDecision} \cup {AdminDecision(o) : o \in AdminFaults}) \cup
  {DecodeRule(rule) : rule \in {c \in CompiledRules : c.object # None}}

(* Whether the registry gets the fault of a decision, and deduplicates it. *)
Enrolled(d) ==
  HasRegistry /\ d # None /\ d.policy # "direct" /\ d.object \notin Inline

Deduped(d) == Enrolled(d) /\ d.policy # "AlwaysStart"

(* Decoding keeps what a decision is about.                                *)
LEMMA DecodeKeeps ==
  ASSUME NEW rule, IsRule(rule)
  PROVE  /\ DecodeRule(rule).name = rule.name
         /\ DecodeRule(rule).point = ParsePoint(rule.point)
         /\ DecodeRule(rule).object = rule.object
         /\ DecodeRule(rule).policy = rule.policy
         /\ DecodeRule(rule).cache = rule.cache
         /\ DecodeRule(rule).labels = rule.labels
<1>1. PICK a, b, c, d, e, f, g, h, i :
        rule = [name |-> a, point |-> b, labels |-> c, priority |-> d,
                object |-> e, mode |-> f, policy |-> g, cache |-> h,
                composed |-> i]
  BY DEF IsRule
<1>2. DecodeRule(rule) =
        [name |-> a, point |-> ParsePoint(b), labels |-> c, priority |-> d,
         object |-> e, mode |-> f, policy |-> g, cache |-> h,
         composed |-> i]
  BY <1>1 DEF DecodeRule
<1>3. QED
  BY <1>1, <1>2

(* A rule of a compiled list is a rule.                                    *)
LEMMA CompiledIsRule == \A rule \in CompiledRules : IsRule(rule)
  BY ListsAssumption DEF CompiledRules

(* No two decisions share a fault object.                                  *)
LEMMA SameObject ==
  ASSUME NEW d \in Decisions, NEW e \in Decisions, d.object = e.object
  PROVE  d = e
<1>1. \A rule \in CompiledRules : DecodeRule(rule).object = rule.object
  BY CompiledIsRule, DecodeKeeps
<1>2. \A o \in AdminFaults : AdminDecision(o).object = o
  BY DEF AdminDecision
<1>3. OwnDecision.object = OwnFault /\ OwnFault \notin AdminFaults
  BY ObjectsAssumption DEF OwnDecision
<1>4. QED
  BY <1>1, <1>2, <1>3, DecodingAssumption DEF Decisions

(* What a decision is made of.                                             *)
LEMMA DecisionTyped ==
  ASSUME NEW d \in Decisions
  PROVE  /\ d # None
         /\ d.object \in Objects
         /\ d.policy # "direct" => d.name \in Keys
<1>1. \A rule \in CompiledRules :
        /\ DecodeRule(rule).object = rule.object
        /\ DecodeRule(rule).name = rule.name
        /\ rule.object \in Objects \cup {None}
        /\ DecodeRule(rule) # None
  <2>1. ASSUME NEW rule \in CompiledRules
        PROVE  DecodeRule(rule) # None
    BY DecisionsAssumption DEF CompiledRules
  <2>2. ASSUME NEW rule, IsRule(rule)
        PROVE  rule.object \in Objects \cup {None}
    BY <2>2, Zenon DEF IsRule
  <2>3. QED
    BY <2>1, <2>2, CompiledIsRule, DecodeKeeps
<1>2. \A o \in AdminFaults :
        /\ AdminDecision(o) # None
        /\ AdminDecision(o).object = o /\ AdminDecision(o).name = AdminName[o]
        /\ o \in Objects
  BY DecisionsAssumption, ObjectsAssumption DEF AdminDecision
<1>3. /\ OwnDecision # None /\ OwnDecision.object \in Objects
      /\ OwnDecision.policy = "direct"
  BY DecisionsAssumption, ObjectsAssumption DEF OwnDecision
<1>4. QED
  BY <1>1, <1>2, <1>3 DEF Decisions, Keys

(* What a poll can decode, Apply can.                                      *)
LEMMA DecodesWithResolver ==
  ASSUME NEW list, NEW resolve \in BOOLEAN, Decodes(list, FALSE)
  PROVE  Decodes(list, resolve)
<1>1. \A d : RuleDecodes(d, FALSE) => RuleDecodes(d, resolve)
  BY DEF RuleDecodes, NetworkDecodes
<1>2. QED
  BY <1>1 DEF Decodes, Converts
-----------------------------------------------------------------------------
(* The inductive invariant. *)

VarsInv ==
  /\ entry \in [Requests -> Entries]
  /\ evaluator \in {"static", "demo"}
  /\ resolver \in BOOLEAN
  /\ pc \in [Requests -> {"arrived", "decided", "linking", "starting",
                          "waiting", "refused", "serving", "served"}]
  /\ gone \in SUBSET Requests
  /\ emitter \in [Objects -> Requests \cup {None}]
  /\ fault \in [Requests -> {"none", "running", "expired", "cancelled"}]
  /\ owner \in [Keys -> Requests \cup {None}]
  /\ mu \in Requests \cup {None}
  /\ closed \in BOOLEAN

(* The list in force is a sorted and decoded one, or one that was posted.  *)
RulesInv ==
  /\ Decodes(source, resolver)
  /\ \/ source = <<>> /\ rules = <<>>
     \/ source \in CompiledLists /\ rules = DecodeCompiledRules(source)
     \/ source \in PostedLists /\ rules = source

DecisionInv ==
  /\ demo \in {AdminDecision(o) : o \in AdminFaults} \cup {None}
  /\ decision \in [Requests -> Decisions \cup {None}]

(* The stages of a request that has a decision and no fault yet.           *)
Begun(s) == s \in {"decided", "linking", "starting"}
Over(s)  == s \in {"waiting", "refused", "serving", "served"}

StageInv ==
  \A r \in Requests :
    /\ Begun(pc[r]) => decision[r] # None
    /\ fault[r] # "none" => decision[r] # None /\ Over(pc[r])

(* A deduplicated start holds the registry's lock and its key is free; a   *)
(* running deduplicated fault owns its key.                                *)
KeyInv ==
  \A r \in Requests : Deduped(decision[r]) =>
    /\ pc[r] \in {"linking", "starting"} =>
         mu = r /\ owner[decision[r].name] = None
    /\ fault[r] = "running" => owner[decision[r].name] = r

(* The object of a deduplicated fault records on the span of the start     *)
(* under way, then of the fault that runs.                                 *)
EmitterInv ==
  \A r \in Requests : Deduped(decision[r]) =>
    /\ pc[r] = "starting" => emitter[decision[r].object] = r
    /\ fault[r] = "running" => emitter[decision[r].object] = r

(* A MustFault call past its start has a fault or an error to return.      *)
MustInv ==
  \A r \in Requests :
    entry[r] = "mustFault" /\ pc[r] \in {"waiting", "serving"} =>
      fault[r] # "none"

IInv == /\ VarsInv /\ RulesInv /\ DecisionInv /\ StageInv /\ KeyInv
        /\ EmitterInv /\ MustInv

(* No request has arrived.                                                 *)
LEMMA InitIInv == Init => IInv
<1> SUFFICES ASSUME Init
             PROVE  IInv
  OBVIOUS
<1>1. VarsInv
  BY DEF Init, VarsInv
<1>2. RulesInv
  BY DEF Init, RulesInv, Decodes
<1>3. DecisionInv /\ StageInv /\ KeyInv /\ EmitterInv /\ MustInv
  BY DEF Init, DecisionInv, StageInv, KeyInv, EmitterInv, MustInv, Begun
<1>4. QED
  BY <1>1, <1>2, <1>3 DEF IInv

(* The static evaluator's decisions are rules of the list in force.        *)
LEMMA RuleInForce ==
  ASSUME RulesInv, NEW i \in 1..Len(rules)
  PROVE  rules[i] # None /\ (rules[i].object # None => rules[i] \in Decisions)
<1>1. CASE source = <<>> /\ rules = <<>>
  BY <1>1
<1>2. CASE source \in CompiledLists /\ rules = DecodeCompiledRules(source)
  <2>1. source \in Lists
    BY <1>2 DEF Lists
  <2>2. PICK j \in 1..Len(source) : rules[i] = DecodeRule(source[j])
    BY <1>2, <2>1, DecodedAt
  <2>3. PICK rule \in CompiledRules : rule = source[j] /\ IsRule(rule)
    BY <1>2, <2>1, RuleAt DEF CompiledRules
  <2>4. DecodeRule(rule) # None /\ DecodeRule(rule).object = rule.object
    BY <2>3, DecodeKeeps, DecisionsAssumption DEF CompiledRules
  <2>5. rule.object # None => DecodeRule(rule) \in Decisions
    BY <2>3 DEF Decisions
  <2>6. QED
    BY <2>2, <2>3, <2>4, <2>5
<1>3. CASE source \in PostedLists /\ rules = source
  <2>1. rules[i] \in RulesIn(source)
    BY <1>3 DEF RulesIn
  <2>2. QED
    BY <1>3, <2>1, PostedAssumption, DecisionsAssumption
<1>4. QED
  BY <1>1, <1>2, <1>3 DEF RulesInv

(* Decide leaves the request undecided or gives it a decision.             *)
LEMMA DecideDecides ==
  ASSUME IInv, NEW r \in Requests, Decide(r)
  PROVE  /\ pc[r] = "arrived"
         /\ \/ /\ decision' = decision
               /\ pc' = [pc EXCEPT ![r] = "refused"]
            \/ /\ decision' = decision
               /\ pc' = [pc EXCEPT ![r] = "serving"]
               /\ entry[r] # "mustFault"
            \/ /\ decision' = [decision EXCEPT ![r] = OwnDecision]
               /\ pc' = [pc EXCEPT ![r] = "linking"]
            \/ \E d \in Decisions :
                 /\ decision' = [decision EXCEPT ![r] = d]
                 /\ pc' = [pc EXCEPT ![r] = "decided"]
         /\ UNCHANGED <<entry, evaluator, resolver, demo, source, rules, gone,
                        emitter, fault, owner, mu, closed>>
<1> DEFINE d == Decision(r)
<1>1. d # None /\ d.object # None => d \in Decisions
  <2>1. CASE evaluator = "demo"
    BY <2>1 DEF Decision, IInv, DecisionInv, Decisions
  <2>2. CASE evaluator # "demo"
    <3>1. RulesInv /\ Len(rules) \in Nat
      <4>1. RulesInv
        BY DEF IInv
      <4>2. Len(rules) \in Nat
        BY <4>1, DecodedAt, RuleAt DEF RulesInv, Lists
      <4>3. QED
        BY <4>1, <4>2
    <3>2. PICK i : i = Evaluate(rules, Query(r))
      OBVIOUS
    <3>3. i = 0 \/ i \in 1..Len(rules)
      BY <3>1, <3>2, EvaluatesFirst DEF MatchesAt
    <3>4. d = IF i = 0 THEN None ELSE rules[i]
      BY <2>2, <3>2 DEF Decision
    <3>5. QED
      BY <3>1, <3>3, <3>4, RuleInForce
  <2>3. QED
    BY <2>1, <2>2
<1> HIDE DEF d
<1>2. \/ d = None /\ Otherwise(r)
      \/ d # None /\ Otherwise(r)
      \/ Becomes(r, "refused") /\ UNCHANGED decision
      \/ /\ d # None /\ d.object # None
         /\ decision' = [decision EXCEPT ![r] = d] /\ Becomes(r, "decided")
  BY DEF Decide, d
<1>3. QED
  BY <1>1, <1>2 DEF Decide, Otherwise, Becomes, installed, registry

(* Whether a request is registered depends on its decision only.           *)
LEMMA RegisteredIs ==
  ASSUME NEW r
  PROVE  /\ Registered(r) <=> Enrolled(decision[r])
         /\ Registered(r) /\ Dedup(r) <=> Deduped(decision[r])
  BY DEF Registered, Dedup, Enrolled, Deduped

(* A fault of the program's own is started past the registry.              *)
LEMMA OwnNotEnrolled == ~Enrolled(OwnDecision) /\ ~Deduped(OwnDecision)
  BY DEF Enrolled, Deduped, OwnDecision

(* A step of one request that leaves faults, keys and emitters alone: into *)
(* a stage that is not a deduplicated start.                               *)
LEMMA MoveOn ==
  ASSUME IInv, NEW r \in Requests, NEW s, NEW d \in Decisions \cup {None},
         pc' = [pc EXCEPT ![r] = s],
         decision' = [decision EXCEPT ![r] = d],
         s \in {"decided", "linking", "waiting", "refused", "serving",
                "served"},
         entry[r] = "mustFault" /\ s \in {"waiting", "serving"} =>
           fault[r] # "none",
         fault[r] # "none" => Over(s) /\ d = decision[r],
         s \in {"decided", "linking"} => d # None,
         s = "linking" => ~Deduped(d),
         mu' = mu \/ mu = None \/ mu = r,
         mu' \in Requests \cup {None},
         UNCHANGED <<entry, evaluator, resolver, demo, source, rules, gone,
                     emitter, fault, owner, closed>>
  PROVE  IInv'
<1>0. /\ VarsInv /\ RulesInv /\ DecisionInv /\ StageInv /\ KeyInv
      /\ EmitterInv /\ MustInv
  BY DEF IInv
<1>1. VarsInv'
  BY <1>0 DEF VarsInv
<1>2. RulesInv'
  BY <1>0 DEF RulesInv
<1>3. DecisionInv'
  BY <1>0 DEF DecisionInv
<1>4. \A q \in Requests :
        /\ pc'[q] = IF q = r THEN s ELSE pc[q]
        /\ decision'[q] = IF q = r THEN d ELSE decision[q]
  BY <1>0 DEF VarsInv, DecisionInv
<1>5. StageInv'
  BY <1>0, <1>4 DEF StageInv, Begun, Over
<1>6. None \notin Requests
  BY ObjectsAssumption
<1>7. KeyInv'
  BY <1>0, <1>4, <1>6 DEF KeyInv, Over
<1>8. EmitterInv'
  BY <1>0, <1>4 DEF EmitterInv
<1>9. MustInv'
  BY <1>0, <1>4 DEF MustInv
<1>10. QED
  BY <1>1, <1>2, <1>3, <1>5, <1>7, <1>8, <1>9 DEF IInv

(* The steps of a request keep the invariant.                              *)
LEMMA RequestStepKeeps ==
  ASSUME IInv, NEW r \in Requests, RequestStep(r)
  PROVE  IInv'
<1>0. /\ VarsInv /\ RulesInv /\ DecisionInv /\ StageInv /\ KeyInv
      /\ EmitterInv /\ MustInv
      /\ decision[r] \in Decisions \cup {None}
      /\ None \notin Requests
      /\ fault[r] # "none" => Over(pc[r])
      /\ OwnDecision \in Decisions /\ OwnDecision # None
      /\ decision = [decision EXCEPT ![r] = decision[r]]
  BY ObjectsAssumption, DecisionTyped
     DEF IInv, DecisionInv, StageInv, Decisions
<1> USE DEF installed, registry, Becomes
<1>1. CASE Decide(r)
  <2>1. fault[r] = "none"
    BY <1>0, <1>1, DecideDecides DEF Over, VarsInv
  <2>2. CASE /\ decision' = decision
             /\ \/ pc' = [pc EXCEPT ![r] = "refused"]
                \/ /\ pc' = [pc EXCEPT ![r] = "serving"]
                   /\ entry[r] # "mustFault"
    <3>1. UNCHANGED <<entry, evaluator, resolver, demo, source, rules, gone,
                      emitter, fault, owner, mu, closed>>
      BY <1>1, DecideDecides
    <3>2. decision' = [decision EXCEPT ![r] = decision[r]]
      BY <1>0, <2>2
    <3>3. mu' \in Requests \cup {None}
      BY <1>0, <3>1 DEF VarsInv
    <3>4. QED
      BY <1>0, <2>1, <2>2, <3>1, <3>2, <3>3, MoveOn
  <2>3. CASE /\ decision' = [decision EXCEPT ![r] = OwnDecision]
             /\ pc' = [pc EXCEPT ![r] = "linking"]
    <3>1. UNCHANGED <<entry, evaluator, resolver, demo, source, rules, gone,
                      emitter, fault, owner, mu, closed>>
      BY <1>1, DecideDecides
    <3>2. mu' \in Requests \cup {None}
      BY <1>0, <3>1 DEF VarsInv
    <3>3. QED
      BY <1>0, <2>1, <2>3, <3>1, <3>2, MoveOn, OwnNotEnrolled
  <2>4. CASE \E d \in Decisions :
               /\ decision' = [decision EXCEPT ![r] = d]
               /\ pc' = [pc EXCEPT ![r] = "decided"]
    <3>1. UNCHANGED <<entry, evaluator, resolver, demo, source, rules, gone,
                      emitter, fault, owner, mu, closed>>
      BY <1>1, DecideDecides
    <3>2. PICK d \in Decisions :
               /\ decision' = [decision EXCEPT ![r] = d]
               /\ pc' = [pc EXCEPT ![r] = "decided"]
      BY <2>4
    <3>3. d # None
      BY DecisionTyped
    <3>4. mu' \in Requests \cup {None}
      BY <1>0, <3>1 DEF VarsInv
    <3>5. QED
      BY <1>0, <2>1, <3>1, <3>2, <3>3, <3>4, MoveOn
  <2>5. QED
    BY <1>1, <2>2, <2>3, <2>4, DecideDecides
<1>2. CASE StartDirect(r)
  <2>1. /\ pc[r] = "decided" /\ pc' = [pc EXCEPT ![r] = "linking"]
        /\ decision' = [decision EXCEPT ![r] = decision[r]]
        /\ UNCHANGED <<entry, evaluator, resolver, demo, source, rules, gone,
                       emitter, fault, owner, mu, closed>>
    BY <1>0, <1>2 DEF StartDirect
  <2>2. fault[r] = "none" /\ decision[r] # None /\ mu' \in Requests \cup {None}
    BY <1>0, <2>1 DEF Over, StageInv, Begun, VarsInv
  <2>3. ~Deduped(decision[r])
    BY <1>2, RegisteredIs DEF StartDirect
  <2>4. QED
    BY <1>0, <2>1, <2>2, <2>3, MoveOn
<1>3. CASE StartOrJoin(r)
  <2>1. /\ pc[r] = "decided"
        /\ UNCHANGED <<entry, evaluator, resolver, demo, source, rules, gone,
                       emitter, fault, owner, closed>>
        /\ fault[r] = "none"
        /\ mu \in Requests \cup {None}
        /\ decision[r] # None
    BY <1>0, <1>3 DEF StartOrJoin, Over, StageInv, Begun, VarsInv
  <2>2. CASE Dedup(r) /\ owner[decision[r].name] # None
    <3>1. Otherwise(r) /\ mu' = mu
      BY <1>3, <2>2 DEF StartOrJoin
    <3>2. \/ /\ \/ pc' = [pc EXCEPT ![r] = "refused"]
                \/ /\ pc' = [pc EXCEPT ![r] = "serving"]
                   /\ entry[r] # "mustFault"
             /\ decision' = [decision EXCEPT ![r] = decision[r]]
          \/ /\ pc' = [pc EXCEPT ![r] = "linking"]
             /\ decision' = [decision EXCEPT ![r] = OwnDecision]
      BY <1>0, <3>1 DEF Otherwise
    <3>3. QED
      BY <1>0, <2>1, <3>1, <3>2, MoveOn, OwnNotEnrolled
  <2>3. CASE ~Dedup(r)
    <3>1. /\ pc' = [pc EXCEPT ![r] = "linking"]
          /\ decision' = [decision EXCEPT ![r] = decision[r]]
          /\ mu' = mu
      BY <1>0, <1>3, <2>3 DEF StartOrJoin
    <3>2. ~Deduped(decision[r])
      BY <1>3, <2>3, RegisteredIs DEF StartOrJoin
    <3>3. QED
      BY <1>0, <2>1, <3>1, <3>2, MoveOn
  <2>4. CASE Dedup(r) /\ owner[decision[r].name] = None
    <3>1. /\ pc' = [pc EXCEPT ![r] = "linking"]
          /\ decision' = decision
          /\ mu = None /\ mu' = r
      BY <1>3, <2>4 DEF StartOrJoin
    <3>2. \A q \in Requests :
            pc'[q] = IF q = r THEN "linking" ELSE pc[q]
      BY <1>0, <3>1 DEF VarsInv
    <3>3. VarsInv' /\ RulesInv' /\ DecisionInv'
      BY <1>0, <2>1, <3>1 DEF VarsInv, RulesInv, DecisionInv
    <3>4. StageInv' /\ MustInv'
      BY <1>0, <2>1, <3>1, <3>2 DEF StageInv, MustInv, Begun, Over
    <3>5. KeyInv'
      BY <1>0, <2>1, <2>4, <3>1, <3>2 DEF KeyInv
    <3>6. EmitterInv'
      BY <1>0, <2>1, <3>1, <3>2 DEF EmitterInv
    <3>7. QED
      BY <3>3, <3>4, <3>5, <3>6 DEF IInv
  <2>5. QED
    BY <2>2, <2>3, <2>4
<1>4. CASE Link(r)
  <2>1. /\ pc[r] = "linking" /\ pc' = [pc EXCEPT ![r] = "starting"]
        /\ emitter' = IF decision[r].object \in Inline THEN emitter
                      ELSE [emitter EXCEPT ![decision[r].object] = r]
        /\ UNCHANGED <<entry, evaluator, resolver, demo, source, rules, gone,
                       decision, fault, owner, mu, closed>>
    BY <1>4 DEF Link
  <2>2. /\ decision[r] \in Decisions /\ decision[r].object \in Objects
        /\ fault[r] = "none"
    BY <1>0, <2>1, DecisionTyped DEF StageInv, Begun, Over, VarsInv
  <2>3. \A q \in Requests :
          pc'[q] = IF q = r THEN "starting" ELSE pc[q]
    BY <1>0, <2>1 DEF VarsInv
  <2>4. VarsInv' /\ RulesInv' /\ DecisionInv'
    BY <1>0, <2>1, <2>2 DEF VarsInv, RulesInv, DecisionInv
  <2>5. StageInv' /\ MustInv' /\ KeyInv'
    BY <1>0, <2>1, <2>3 DEF StageInv, MustInv, KeyInv, Begun, Over
  <2>6. ASSUME NEW q \in Requests, q # r, Deduped(decision[q]),
               pc[q] = "starting" \/ fault[q] = "running"
        PROVE  decision[q].object # decision[r].object
    <3>1. decision[q] \in Decisions
      BY <1>0, <2>6, DecisionTyped DEF DecisionInv, StageInv, Begun
    <3>2. SUFFICES ASSUME decision[q].object = decision[r].object
                   PROVE  FALSE
      OBVIOUS
    <3>3. decision[q] = decision[r]
      BY <2>2, <3>1, <3>2, SameObject
    <3>4. mu = r /\ owner[decision[r].name] = None
      BY <1>0, <2>1, <2>6, <3>3 DEF KeyInv
    <3>5. mu = q \/ owner[decision[r].name] = q
      BY <1>0, <2>6, <3>3 DEF KeyInv
    <3>6. QED
      BY <1>0, <2>6, <3>4, <3>5
  <2>7. \A q \in Requests :
          Deduped(decision[q]) /\ (pc'[q] = "starting" \/ fault[q] = "running")
            => emitter'[decision[q].object] = q
    <3>1. ASSUME NEW q \in Requests, q # r, Deduped(decision[q]),
                 pc[q] = "starting" \/ fault[q] = "running"
          PROVE  emitter'[decision[q].object] = q
      <4>1. emitter[decision[q].object] = q
        BY <1>0, <3>1 DEF EmitterInv
      <4>2. decision[q].object \in Objects
        BY <1>0, <3>1, DecisionTyped DEF DecisionInv, StageInv, Begun
      <4>3. QED
        BY <1>0, <2>1, <2>6, <3>1, <4>1, <4>2 DEF VarsInv
    <3>2. ASSUME Deduped(decision[r])
          PROVE  emitter'[decision[r].object] = r
      BY <1>0, <2>1, <2>2, <3>2 DEF VarsInv, Deduped, Enrolled
    <3>3. QED
      BY <2>3, <3>1, <3>2
  <2>8. EmitterInv'
    BY <2>1, <2>7 DEF EmitterInv
  <2>9. QED
    BY <2>4, <2>5, <2>8 DEF IInv
<1>5. CASE StartSucceeds(r)
  <2> DEFINE k == decision[r].name
  <2>1. PICK s : /\ s \in {"waiting", "serving"}
                 /\ pc' = [pc EXCEPT ![r] = s]
                 /\ pc[r] = "starting"
                 /\ fault' = [fault EXCEPT ![r] = "running"]
                 /\ mu' = IF mu = r THEN None ELSE mu
                 /\ UNCHANGED <<entry, evaluator, resolver, demo, source,
                                rules, gone, decision, emitter, closed>>
    BY <1>5 DEF StartSucceeds, Unlock
  <2>2. owner' = IF Deduped(decision[r]) THEN [owner EXCEPT ![k] = r]
                                         ELSE owner
    BY <1>5, RegisteredIs DEF StartSucceeds
  <2>3. \A q \in Requests :
          /\ pc'[q] = IF q = r THEN s ELSE pc[q]
          /\ fault'[q] = IF q = r THEN "running" ELSE fault[q]
    BY <1>0, <2>1 DEF VarsInv
  <2>4. decision[r] \in Decisions /\ (Deduped(decision[r]) => k \in Keys)
    BY <1>0, <2>1, DecisionTyped DEF StageInv, Begun, Deduped, Enrolled
  <2> HIDE DEF k
  <2>5. VarsInv' /\ RulesInv' /\ DecisionInv'
    BY <1>0, <2>1, <2>2, <2>4 DEF VarsInv, RulesInv, DecisionInv
  <2>6. StageInv' /\ MustInv' /\ EmitterInv'
    BY <1>0, <2>1, <2>3 DEF StageInv, MustInv, EmitterInv, Begun, Over
  <2>7. KeyInv'
    <3>1. ASSUME NEW q \in Requests, q # r, Deduped(decision[q])
          PROVE  /\ pc[q] \in {"linking", "starting"} =>
                      mu' = q /\ owner'[decision[q].name] = None
                 /\ fault[q] = "running" => owner'[decision[q].name] = q
      <4>1. CASE ~Deduped(decision[r])
        BY <1>0, <2>1, <2>2, <3>1, <4>1 DEF KeyInv
      <4>2. CASE Deduped(decision[r])
        <5>1. mu = r /\ owner[k] = None
          BY <1>0, <2>1, <4>2 DEF KeyInv, k
        <5>2. pc[q] \notin {"linking", "starting"}
          BY <1>0, <3>1, <5>1 DEF KeyInv
        <5>3. fault[q] = "running" =>
                owner[decision[q].name] = q /\ decision[q].name # k
          BY <1>0, <3>1, <5>1 DEF KeyInv
        <5>4. QED
          BY <1>0, <2>2, <5>2, <5>3 DEF VarsInv
      <4>3. QED
        BY <4>1, <4>2
    <3>2. Deduped(decision[r]) => owner'[k] = r
      BY <1>0, <2>2, <2>4 DEF VarsInv
    <3>3. QED
      BY <2>1, <2>3, <3>1, <3>2 DEF KeyInv, k
  <2>8. QED
    BY <2>5, <2>6, <2>7 DEF IInv
<1>6. CASE StartFails(r)
  <2>1. /\ pc[r] = "starting" /\ pc' = [pc EXCEPT ![r] = "refused"]
        /\ decision' = [decision EXCEPT ![r] = decision[r]]
        /\ mu' = IF mu = r THEN None ELSE mu
        /\ UNCHANGED <<entry, evaluator, resolver, demo, source, rules, gone,
                       emitter, fault, owner, closed>>
    BY <1>0, <1>6 DEF StartFails, Unlock
  <2>2. fault[r] = "none" /\ mu' \in Requests \cup {None}
    BY <1>0, <2>1 DEF Over, VarsInv
  <2>3. QED
    BY <1>0, <2>1, <2>2, MoveOn
<1>7. CASE Resume(r) \/ Serve(r)
  <2>1. PICK s \in {"serving", "served"} :
        /\ s = "serving" => pc[r] = "waiting"
        /\ pc' = [pc EXCEPT ![r] = s]
        /\ decision' = [decision EXCEPT ![r] = decision[r]]
        /\ UNCHANGED <<entry, evaluator, resolver, demo, source, rules, gone,
                       emitter, fault, owner, mu, closed>>
    BY <1>0, <1>7 DEF Resume, Serve
  <2>2. mu' \in Requests \cup {None}
    BY <1>0, <2>1 DEF VarsInv
  <2>3. entry[r] = "mustFault" /\ s \in {"waiting", "serving"} =>
          fault[r] # "none"
    BY <1>0, <2>1 DEF MustInv
  <2>4. QED
    BY <1>0, <2>1, <2>2, <2>3, MoveOn DEF Over
<1>8. QED
  BY <1>1, <1>2, <1>3, <1>4, <1>5, <1>6, <1>7 DEF RequestStep

(* So do those of its fault.                                               *)
LEMMA FaultStepKeeps ==
  ASSUME IInv, NEW r \in Requests, FaultStep(r)
  PROVE  IInv'
<1>0. /\ VarsInv /\ RulesInv /\ DecisionInv /\ StageInv /\ KeyInv
      /\ EmitterInv /\ MustInv
      /\ None \notin Requests
  BY ObjectsAssumption DEF IInv
<1> USE DEF installed, registry
<1>1. CASE Expire(r) \/ CancelFault(r) \/ StopFault(r)
  <2>1. PICK s \in {"expired", "cancelled"} :
          /\ fault[r] = "running"
          /\ fault' = [fault EXCEPT ![r] = s]
          /\ UNCHANGED <<entry, evaluator, resolver, demo, source, rules, pc,
                         decision, gone, emitter, owner, mu, closed>>
    BY <1>1 DEF Expire, CancelFault, StopFault
  <2>2. \A q \in Requests : fault'[q] = IF q = r THEN s ELSE fault[q]
    BY <1>0, <2>1 DEF VarsInv
  <2>3. VarsInv' /\ RulesInv' /\ DecisionInv'
    BY <1>0, <2>1 DEF VarsInv, RulesInv, DecisionInv
  <2>4. StageInv' /\ KeyInv' /\ EmitterInv' /\ MustInv'
    BY <1>0, <2>1, <2>2 DEF StageInv, KeyInv, EmitterInv, MustInv
  <2>5. QED
    BY <2>3, <2>4 DEF IInv
<1>2. CASE Release(r)
  <2>1. PICK k \in Keys :
          /\ fault[r] \in {"expired", "cancelled"}
          /\ owner[k] = r /\ owner' = [owner EXCEPT ![k] = None]
          /\ UNCHANGED <<entry, evaluator, resolver, demo, source, rules, pc,
                         decision, gone, emitter, fault, mu, closed>>
    BY <1>2 DEF Release
  <2>2. VarsInv' /\ RulesInv' /\ DecisionInv'
    BY <1>0, <2>1 DEF VarsInv, RulesInv, DecisionInv
  <2>3. StageInv' /\ EmitterInv' /\ MustInv'
    BY <1>0, <2>1 DEF StageInv, EmitterInv, MustInv
  <2>4. ASSUME NEW q \in Requests, Deduped(decision[q])
        PROVE  /\ pc[q] \in {"linking", "starting"} =>
                    mu = q /\ owner'[decision[q].name] = None
               /\ fault[q] = "running" => owner'[decision[q].name] = q
    <3>1. /\ pc[q] \in {"linking", "starting"} =>
               mu = q /\ owner[decision[q].name] = None
          /\ fault[q] = "running" =>
               owner[decision[q].name] = q /\ q # r
      BY <1>0, <2>1, <2>4 DEF KeyInv
    <3>2. \A j : owner[j] # r => owner'[j] = owner[j]
      BY <1>0, <2>1 DEF VarsInv
    <3>3. QED
      BY <1>0, <3>1, <3>2
  <2>5. KeyInv'
    BY <2>1, <2>4 DEF KeyInv
  <2>6. QED
    BY <2>2, <2>3, <2>5 DEF IInv
<1>3. QED
  BY <1>1, <1>2 DEF FaultStep

(* So do the installation of rules and of the admin fault, and Close.      *)
LEMMA Step == IInv /\ [Next]_vars => IInv'
<1> SUFFICES ASSUME IInv, [Next]_vars
             PROVE  IInv'
  OBVIOUS
<1>0. /\ VarsInv /\ RulesInv /\ DecisionInv /\ StageInv /\ KeyInv
      /\ EmitterInv /\ MustInv
  BY DEF IInv
<1> USE DEF installed, registry, requests
<1>1. ASSUME NEW list \in CompiledLists \cup PostedLists, NEW decoded,
             Install(list, decoded), Decodes(list, resolver),
             \/ list \in CompiledLists /\ decoded = DecodeCompiledRules(list)
             \/ list \in PostedLists /\ decoded = list
      PROVE  IInv'
  <2>1. /\ source' = list /\ rules' = decoded
        /\ UNCHANGED <<entry, evaluator, resolver, demo, pc, decision, gone,
                       emitter, fault, owner, mu, closed>>
    BY <1>1 DEF Install
  <2>2. RulesInv'
    BY <1>1, <2>1 DEF RulesInv
  <2>3. VarsInv' /\ DecisionInv' /\ StageInv' /\ KeyInv' /\ EmitterInv'
        /\ MustInv'
    BY <1>0, <2>1
       DEF VarsInv, DecisionInv, StageInv, KeyInv, EmitterInv, MustInv
  <2>4. QED
    BY <2>2, <2>3 DEF IInv
<1>2. ASSUME NEW list \in CompiledLists, SetRules(list)
      PROVE  IInv'
  <2>1. Decodes(list, resolver)
    BY <1>0, <1>2, DecodesWithResolver DEF SetRules, VarsInv
  <2>2. QED
    BY <1>1, <1>2, <2>1 DEF SetRules
<1>3. ASSUME NEW list \in PostedLists, PostRules(list)
      PROVE  IInv'
  <2>1. Decodes(list, resolver)
    BY PostedAssumption DEF Decodes, Converts, RulesIn
  <2>2. QED
    BY <1>1, <1>3, <2>1 DEF PostRules
<1>4. ASSUME UNCHANGED <<entry, evaluator, resolver, source, rules, requests>>,
             demo' \in {AdminDecision(o) : o \in AdminFaults} \cup {None}
      PROVE  IInv'
  <2>1. VarsInv' /\ RulesInv' /\ DecisionInv'
    BY <1>0, <1>4 DEF VarsInv, RulesInv, DecisionInv
  <2>2. StageInv' /\ KeyInv' /\ EmitterInv' /\ MustInv'
    BY <1>0, <1>4 DEF StageInv, KeyInv, EmitterInv, MustInv
  <2>3. QED
    BY <2>1, <2>2 DEF IInv
<1>5. ASSUME NEW o \in AdminFaults, PostFault(o)
      PROVE  IInv'
  BY <1>4, <1>5 DEF PostFault
<1>6. CASE ClearFault
  BY <1>4, <1>6 DEF ClearFault
<1>7. ASSUME UNCHANGED <<installed, pc, decision, emitter, fault, registry>>,
             gone' \in SUBSET Requests, closed' \in BOOLEAN,
             closed => closed'
      PROVE  IInv'
  <2>1. VarsInv' /\ RulesInv' /\ DecisionInv'
    BY <1>0, <1>7 DEF VarsInv, RulesInv, DecisionInv
  <2>2. StageInv' /\ KeyInv' /\ EmitterInv'
    BY <1>0, <1>7 DEF StageInv, KeyInv, EmitterInv
  <2>3. MustInv'
    BY <1>0, <1>7 DEF MustInv
  <2>4. QED
    BY <2>1, <2>2, <2>3 DEF IInv
<1>8. ASSUME NEW r \in Requests, RequestEnds(r)
      PROVE  IInv'
  BY <1>0, <1>7, <1>8 DEF RequestEnds, VarsInv
<1>9. CASE CloseRegistry
  BY <1>0, <1>7, <1>9 DEF CloseRegistry, VarsInv
<1>10. CASE UNCHANGED vars
  BY <1>0, <1>7, <1>10 DEF vars, VarsInv
<1>11. QED
  BY <1>2, <1>3, <1>5, <1>6, <1>8, <1>9, <1>10, RequestStepKeeps,
     FaultStepKeeps DEF Next

(* The invariant of the interceptor with its evaluators and the registry   *)
(* (interceptor.go, static.go, compiled_rule.go, admin.go).                *)
THEOREM SpecIInv == Spec => []IInv
  BY InitIInv, Step, PTL DEF Spec

(* A MustFault call that returns no error has started a fault, whatever    *)
(* the rules answered (hook.go:62-77, registry.go:62-66).                  *)
THEOREM SpecMustFaultInjects == Spec => []MustFaultInjects
<1>1. IInv => MustFaultInjects
  BY DEF IInv, MustInv, MustFaultInjects
<1>2. QED
  BY <1>1, SpecIInv, PTL

(* The object of a deduplicated fault that runs records on the span of the *)
(* request that started it, whoever joins later (interceptor.go:172-195).  *)
THEOREM SpecDedupKeepsOwnSpan == Spec => []DedupKeepsOwnSpan
<1>1. IInv => DedupKeepsOwnSpan
  BY RegisteredIs DEF IInv, EmitterInv, DedupKeepsOwnSpan
<1>2. QED
  BY <1>1, SpecIInv, PTL

(* Every variable keeps its type, and what decides a request is a rule in  *)
(* force, the admin fault or the program's own (interceptor.go:93-207).    *)
THEOREM SpecTypeOK == Spec => []TypeOK
<1>1. IInv => TypeOK
  <2> SUFFICES ASSUME IInv
               PROVE  TypeOK
    OBVIOUS
  <2>1. /\ VarsInv /\ RulesInv /\ DecisionInv /\ StageInv
    BY DEF IInv
  <2>2. demo # None => demo.object \in AdminFaults
    BY <2>1 DEF DecisionInv, AdminDecision
  <2>3. Len(rules) = Len(source)
    <3>1. source \in CompiledLists =>
            Len(DecodeCompiledRules(source)) = Len(source)
      BY DecodedAt DEF Lists
    <3>2. QED
      BY <2>1, <3>1 DEF RulesInv
  <2>4. QED
    BY <2>1, <2>2, <2>3 DEF TypeOK, VarsInv, RulesInv, StageInv
<1>2. QED
  BY <1>1, SpecIInv, PTL

-----------------------------------------------------------------------------
(* The rule that decides. *)

(* What stands in the list in force, and where.                            *)
LEMMA InForceAt ==
  ASSUME RulesInv, source # <<>>
  PROVE  /\ source \in Lists /\ Len(rules) = Len(source)
         /\ \A k \in 1..Len(rules) : \E i \in 1..Len(source) :
              rules[k] = InForce(i) /\ Cardinality(Before(source, i)) = k - 1
         /\ \A i \in 1..Len(source) : \E k \in 1..Len(rules) :
              rules[k] = InForce(i) /\ Cardinality(Before(source, i)) = k - 1
<1>1. source \in Lists
  BY DEF RulesInv, Lists
<1>2. \A i \in 1..Len(source) :
        Cardinality(Before(source, i)) \in 0..(Len(source) - 1)
  BY <1>1, BeforeCounts
<1>3. CASE source \in CompiledLists /\ rules = DecodeCompiledRules(source)
  <2>1. Len(rules) = Len(source)
    BY <1>1, <1>3, DecodedAt
  <2>2. \A k \in 1..Len(rules) : \E i \in 1..Len(source) :
          rules[k] = InForce(i) /\ Cardinality(Before(source, i)) = k - 1
    BY <1>1, <1>3, <2>1, DecodedAt DEF InForce
  <2>3. ASSUME NEW i \in 1..Len(source)
        PROVE  \E k \in 1..Len(rules) :
          rules[k] = InForce(i) /\ Cardinality(Before(source, i)) = k - 1
    <3>1. PICK k : k = Cardinality(Before(source, i)) + 1
      OBVIOUS
    <3>2. k \in 1..Len(source) /\ rules[k] = DecodeRule(source[i])
      BY <1>1, <1>3, <3>1, DecodedAt
    <3>3. Cardinality(Before(source, i)) = k - 1
      BY <1>2, <3>1
    <3>4. QED
      BY <2>1, <3>2, <3>3 DEF InForce
  <2>4. QED
    BY <1>1, <2>1, <2>2, <2>3
<1>4. CASE source \in PostedLists /\ rules = source
  <2>1. ASSUME NEW i \in 1..Len(source)
        PROVE  rules[i] = InForce(i) /\ Cardinality(Before(source, i)) = i - 1
    <3>1. rules[i] = InForce(i)
      <4>1. PICK rule \in RulesIn(source) : rule = source[i] /\ IsRule(rule)
        BY <1>1, RuleAt
      <4>2. ParsePoint(rule.point) = rule.point
        BY <1>4, <4>1, PostedAssumption
      <4>3. DecodeRule(rule) = rule
        BY <4>1, <4>2 DEF DecodeRule, IsRule
      <4>4. QED
        BY <1>4, <4>1, <4>3 DEF InForce
    <3>2. Before(source, i) = 1..(i - 1)
      <4>1. \A j \in 1..Len(source) : source[j].priority = 0
        BY <1>4, PostedAssumption DEF RulesIn
      <4>2. Len(source) \in Nat
        BY <1>1, RuleAt
      <4>3. QED
        BY <4>1, <4>2 DEF Before
    <3>3. PICK n \in Nat : n = i - 1
      OBVIOUS
    <3>4. Cardinality(1..n) = n
      BY FS_Interval
    <3>5. QED
      BY <3>1, <3>2, <3>3, <3>4
  <2>2. QED
    BY <1>1, <1>4, <2>1
<1>5. QED
  BY <1>3, <1>4 DEF RulesInv

(* No candidate has a higher priority, nor the same and comes first.       *)
Best(i, r) ==
  \A j \in Candidates(r) :
    \/ source[j].priority < source[i].priority
    \/ source[j].priority = source[i].priority /\ i <= j

(* The first match in the list in force is the candidate of the highest    *)
(* priority, the first among equals.                                       *)
LEMMA EvaluatesBest ==
  ASSUME RulesInv, NEW r \in Requests
  PROVE  /\ Candidates(r) = {} => Evaluate(rules, Query(r)) = 0
         /\ Candidates(r) # {} =>
              \E i \in Candidates(r) :
                /\ Best(i, r)
                /\ Evaluate(rules, Query(r)) \in 1..Len(rules)
                /\ rules[Evaluate(rules, Query(r))] = InForce(i)
<1> DEFINE e == Evaluate(rules, Query(r))
<1>1. CASE source = <<>>
  <2>1. rules = <<>> /\ Len(rules) = 0 /\ Len(source) = 0
    BY <1>1, RuleAt, DecodedAt DEF RulesInv, Lists
  <2>2. MatchesAt(rules, Query(r)) = {} /\ Candidates(r) = {}
    BY <2>1 DEF MatchesAt, Candidates
  <2>3. QED
    BY <2>1, <2>2, EvaluatesFirst
<1>2. CASE source # <<>>
  <2>1. source \in Lists /\ Len(source) \in Nat /\ Len(rules) = Len(source)
    BY <1>2, InForceAt, RuleAt
  <2>2. CASE Candidates(r) = {}
    <3>1. MatchesAt(rules, Query(r)) = {}
      <4>1. SUFFICES ASSUME NEW k \in 1..Len(rules),
                            Matches(rules[k], Query(r))
                     PROVE  FALSE
        BY DEF MatchesAt
      <4>2. PICK i \in 1..Len(source) : rules[k] = InForce(i)
        BY <1>2, InForceAt
      <4>3. QED
        BY <2>2, <4>1, <4>2 DEF Candidates
    <3>2. QED
      BY <2>1, <2>2, <3>1, EvaluatesFirst
  <2>3. CASE Candidates(r) # {}
    <3>1. ASSUME NEW j \in Candidates(r)
          PROVE  \E k \in MatchesAt(rules, Query(r)) :
                   Cardinality(Before(source, j)) = k - 1
      BY <1>2, InForceAt DEF Candidates, MatchesAt
    <3>2. MatchesAt(rules, Query(r)) # {}
      BY <2>3, <3>1
    <3>3. /\ e \in MatchesAt(rules, Query(r))
          /\ \A k \in MatchesAt(rules, Query(r)) : e <= k
      BY <2>1, <3>2, EvaluatesFirst
    <3> HIDE DEF e
    <3>4. e \in 1..Len(rules) /\ Matches(rules[e], Query(r))
      BY <3>3 DEF MatchesAt
    <3>5. PICK i \in 1..Len(source) :
            rules[e] = InForce(i) /\ Cardinality(Before(source, i)) = e - 1
      BY <1>2, <3>4, InForceAt
    <3>6. i \in Candidates(r)
      BY <3>4, <3>5 DEF Candidates
    <3>7. ASSUME NEW j \in Candidates(r)
          PROVE  j \notin Before(source, i)
      <4>1. j \in 1..Len(source)
        BY DEF Candidates
      <4>2. PICK k \in MatchesAt(rules, Query(r)) :
              Cardinality(Before(source, j)) = k - 1
        BY <3>1
      <4>3. e <= k /\ k \in 1..Len(rules)
        BY <3>3, <4>2 DEF MatchesAt
      <4>4. ~(Cardinality(Before(source, j)) < Cardinality(Before(source, i)))
        BY <2>1, <3>4, <3>5, <4>2, <4>3
      <4>5. QED
        BY <2>1, <4>1, <4>4, BeforeCounts
    <3>8. Best(i, r)
      <4>1. ASSUME NEW k \in 1..Len(source)
            PROVE  source[k].priority \in Int
        <5>1. IsRule(source[k])
          BY <2>1, RuleAt
        <5>2. QED
          BY <5>1, Zenon DEF IsRule
      <4>2. QED
        BY <2>1, <3>7, <4>1 DEF Best, Before, Candidates
    <3>9. QED
      BY <2>3, <3>4, <3>5, <3>6, <3>8 DEF e
  <2>4. QED
    BY <2>2, <2>3
<1>3. QED
  BY <1>1, <1>2

(* Only its own Decide takes a request out of "arrived".                   *)
LEMMA LeavesArrived ==
  ASSUME IInv, Next, NEW r \in Requests, pc[r] = "arrived", pc'[r] # "arrived"
  PROVE  Decide(r)
<1>0. DOMAIN pc = Requests
  BY DEF IInv, VarsInv
<1> USE DEF Becomes
<1>1. ASSUME NEW q \in Requests, RequestStep(q)
      PROVE  Decide(r)
  <2>1. \E s : pc' = [pc EXCEPT ![q] = s]
    <3>1. CASE Decide(q)
      BY <3>1, DecideDecides
    <3>2. CASE StartOrJoin(q)
      BY <3>2 DEF StartOrJoin, Otherwise
    <3>3. CASE StartDirect(q) \/ Link(q) \/ StartSucceeds(q) \/ StartFails(q)
      BY <3>3 DEF StartDirect, Link, StartSucceeds, StartFails
    <3>4. CASE Resume(q) \/ Serve(q)
      BY <3>4 DEF Resume, Serve
    <3>5. QED
      BY <1>1, <3>1, <3>2, <3>3, <3>4 DEF RequestStep
  <2>2. q = r
    BY <1>0, <2>1
  <2>3. QED
    BY <1>1, <2>2 DEF RequestStep, StartDirect, StartOrJoin, Link,
       StartSucceeds, StartFails, Resume, Serve
<1>2. ASSUME NEW q \in Requests, RequestEnds(q) \/ FaultStep(q)
      PROVE  pc' = pc
  BY <1>2 DEF RequestEnds, FaultStep, Expire, CancelFault, StopFault,
     Release
<1>3. ASSUME \/ \E list \in CompiledLists : SetRules(list)
             \/ \E list \in PostedLists : PostRules(list)
             \/ \E o \in AdminFaults : PostFault(o)
             \/ ClearFault
      PROVE  pc' = pc
  BY <1>3 DEF SetRules, PostRules, PostFault, ClearFault, Install, requests
<1>4. CloseRegistry => pc' = pc
  BY DEF CloseRegistry
<1>5. QED
  BY <1>1, <1>2, <1>3, <1>4 DEF Next

(* Sorting, decoding, swapping and first-match selection together          *)
(* (compiled_rule.go:87-103, static.go:42-66): the matching rule of        *)
(* highest priority decides, the first among equals.                       *)
THEOREM SpecDecidedByHighestPriority == Spec => DecidedByHighestPriority
<1> DEFINE Decided(r) ==
      IF Candidates(r) = {}
        THEN pc'[r] # "decided"
        ELSE \E i \in Candidates(r) :
               /\ \A j \in Candidates(r) :
                    \/ source[j].priority < source[i].priority
                    \/ source[j].priority = source[i].priority /\ i <= j
               /\ IF pc'[r] = "decided"
                    THEN decision'[r] = InForce(i)
                    ELSE \/ source[i].object \in Invalid \cup {None}
                         \/ source[i].cache
<1>1. IInv /\ [Next]_vars =>
        [\A r \in Requests :
           evaluator = "static" /\ pc[r] = "arrived" /\ pc'[r] # "arrived"
             => Decided(r)]_vars
  <2> SUFFICES ASSUME IInv, Next, NEW r \in Requests, evaluator = "static",
                      pc[r] = "arrived", pc'[r] # "arrived"
               PROVE  Decided(r)
    OBVIOUS
  <2>0. /\ RulesInv /\ DOMAIN pc = Requests /\ DOMAIN decision = Requests
        /\ Decide(r)
    BY LeavesArrived DEF IInv, VarsInv, DecisionInv
  <2> DEFINE e == Evaluate(rules, Query(r))
             d == Decision(r)
  <2>1. d = IF e = 0 THEN None ELSE rules[e]
    BY DEF Decision
  <2> HIDE DEF d
  <2>2. \/ d = None /\ Otherwise(r)
        \/ d.cache /\ Otherwise(r)
        \/ d.object = None /\ Otherwise(r)
        \/ /\ d.object \in Invalid
           /\ Becomes(r, "refused")
        \/ /\ decision' = [decision EXCEPT ![r] = d]
           /\ Becomes(r, "decided")
    BY <2>0 DEF Decide, d
  <2>3. Otherwise(r) => pc'[r] # "decided"
    BY <2>0 DEF Otherwise, Becomes
  <2>4. Becomes(r, "refused") => pc'[r] = "refused"
    BY <2>0 DEF Becomes
  <2>5. CASE Candidates(r) = {}
    <3>1. d = None
      BY <2>0, <2>1, <2>5, EvaluatesBest
    <3>2. QED
      BY <2>0, <2>5, <3>1 DEF Decide, d, Otherwise, Becomes
  <2>6. CASE Candidates(r) # {}
    <3>1. PICK i \in Candidates(r) :
            Best(i, r) /\ e \in 1..Len(rules) /\ rules[e] = InForce(i)
      BY <2>0, <2>6, EvaluatesBest
    <3>2. Len(rules) \in Nat
      BY <2>0, InForceAt, RuleAt DEF RulesInv
    <3>3. d = InForce(i) /\ d # None
      BY <2>0, <2>1, <3>1, <3>2, RuleInForce
    <3>4. d.object = source[i].object /\ d.cache = source[i].cache
      <4>1. i \in 1..Len(source)
        BY <3>1 DEF Candidates
      <4>2. source # <<>>
        BY <4>1
      <4>3. source \in Lists
        BY <2>0, <4>2, InForceAt
      <4>4. IsRule(source[i])
        BY <4>1, <4>3, RuleAt
      <4>5. QED
        BY <3>3, <4>4, DecodeKeeps DEF InForce
    <3>5. CASE pc'[r] = "decided"
      <4>1. decision' = [decision EXCEPT ![r] = d]
        BY <2>2, <2>3, <2>4, <3>5
      <4>2. decision'[r] = InForce(i)
        BY <2>0, <3>3, <4>1
      <4>3. QED
        BY <2>6, <3>1, <3>5, <4>2 DEF Best
    <3>6. CASE pc'[r] # "decided"
      <4>1. d.cache \/ d.object \in Invalid \cup {None}
        BY <2>0, <2>2, <3>3, <3>6 DEF Becomes
      <4>2. QED
        BY <2>6, <3>1, <3>4, <3>6, <4>1 DEF Best
    <3>7. QED
      BY <3>5, <3>6
  <2>7. QED
    BY <2>5, <2>6
<1>2. QED
  BY <1>1, SpecIInv, PTL DEF Spec, DecidedByHighestPriority
-----------------------------------------------------------------------------
(* The two formats of a fault.                                             *)

(* What a description says.                                                *)
LEMMA DescriptionFields ==
  ASSUME NEW d \in Descriptions
  PROVE  /\ d.category \in {"inline", "resource", "network"}
         /\ d.type \in Types[d.category] \cup {"unknown"}
         /\ {d.main, d.extra, d.span} \subseteq
              {"absent", "malformed", "negative", "zero", "positive"}
         /\ d.ramp \in {"none", "long"}
         /\ d.target \in {"known", "unknown"}
         /\ d = [category |-> d.category, type |-> d.type, main |-> d.main,
                 extra |-> d.extra, span |-> d.span, ramp |-> d.ramp,
                 target |-> d.target]
  BY DEF Descriptions, Types

(* Both formats of one description agree: by the category and the type,    *)
(* which select the builder, the validation and the defaults.              *)
LEMMA DescriptionAgrees ==
  ASSUME NEW resolve \in BOOLEAN, NEW d \in Descriptions, SaidInBoth(d)
  PROVE  IF StatusLeftOut(d) THEN ~RuleRuns(d, resolve)
                             ELSE RuleRuns(d, resolve) = AdminRuns(d, resolve)
<1> USE DEF SaidInBoth, StatusLeftOut, RuleRuns, AdminRuns, RuleDecodes,
            AdminBuilds, InlineDecodes, ResourceDecodes, NetworkDecodes,
            ToxicDecodes, AdminInlineBuilds, AdminNetworkBuilds,
            AdminResourceBuilds, Described, Types, Parses, ParsesIfThere,
            Validates, LastsWell, FromRule, FromAdmin
<1>1. EffectiveCategory(d) = d
  BY DescriptionFields DEF EffectiveCategory
<1>2. CASE d.category = "inline"
  <2>1. CASE d.type = "latency"
    BY <1>1, <1>2, <2>1, DescriptionFields
  <2>2. CASE d.type = "error"
    BY <1>1, <1>2, <2>2, DescriptionFields
  <2>3. CASE d.type = "hang"
    BY <1>1, <1>2, <2>3, DescriptionFields
  <2>4. CASE d.type = "unknown"
    BY <1>1, <1>2, <2>4, DescriptionFields
  <2>5. d.type \in {"latency", "error", "hang", "unknown"}
    BY <1>2, DescriptionFields
  <2>6. QED
    BY <2>1, <2>2, <2>3, <2>4, <2>5, Zenon
<1>3. CASE d.category = "resource"
  <2>1. CASE d.type = "cpu"
    BY <1>1, <1>3, <2>1, DescriptionFields
  <2>2. CASE d.type = "memory"
    BY <1>1, <1>3, <2>2, DescriptionFields
  <2>3. CASE d.type = "disk"
    BY <1>1, <1>3, <2>3, DescriptionFields
  <2>4. CASE d.type = "io"
    BY <1>1, <1>3, <2>4, DescriptionFields
  <2>5. CASE d.type = "unknown"
    BY <1>1, <1>3, <2>5, DescriptionFields
  <2>6. d.type \in {"cpu", "memory", "disk", "io", "unknown"}
    BY <1>3, DescriptionFields
  <2>7. QED
    BY <2>1, <2>2, <2>3, <2>4, <2>5, <2>6, Zenon
<1>4. CASE d.category = "network"
  BY <1>1, <1>4, DescriptionFields
<1>5. QED
  BY <1>2, <1>3, <1>4, DescriptionFields, Zenon

(* The two parsers of a fault, their defaults and the validation agree     *)
(* (compiled_rule.go:174-266, admin.go:168-270): with and without a        *)
(* NetworkResolver, a fault described in both formats runs from both or    *)
(* from neither, but for the error without a status code.                  *)
THEOREM SpecSameFaultsRun == Spec => []SameFaultsRun
<1>1. FormatsAgree(TRUE) /\ FormatsAgree(FALSE)
  BY DescriptionAgrees DEF FormatsAgree
<1>2. SameFaultsRun
  BY <1>1 DEF SameFaultsRun, AgreeWithResolver, AgreeWithout
<1>3. QED
  BY <1>2, PTL
=============================================================================
