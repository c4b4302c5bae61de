---------------------------- MODULE Interception ----------------------------
(***************************************************************************)
(* The life of a request at an injection point: the HTTP middleware        *)
(* (internal/interceptor/middleware.go) and gRPC's (grpc/interceptor.go),  *)
(* Hook and MustFault (hook.go), and Check, StartFault, startDirect and    *)
(* startRegistered (interceptor.go), while the rules change under it and   *)
(* with or without a fault registry.                                       *)
(*                                                                         *)
(* With a static evaluator, rules arrive as compiled lists, decoded and    *)
(* installed by a poll or by Apply (manteion_client.go, register.go), or   *)
(* as they are at POST /admin/rules (rules_admin.go).  With the demo       *)
(* evaluator (admin.go) one fault is set, for every request, by POST       *)
(* /admin/fault or as the active fault of a registration.                  *)
(*                                                                         *)
(* Of the registry only its promise is used (KeyedFaults, which            *)
(* FaultRegistry implements) and the lock it holds across a start.  A      *)
(* fault is started from the fault object of a rule, which every request   *)
(* that matches the rule shares; the span a start opens carries the name   *)
(* of its request.  A list or a fault installed again has new objects in   *)
(* the code and the same ones here, which shares more.                     *)
(***************************************************************************)
EXTENDS RuleSelection

CONSTANTS
  Requests,      \* requests, and calls of Hook and MustFault
  EntriesOf,     \* how each may enter the interceptor
  LabelsOf,      \* the labels of each
  AdminName,     \* the fault objects the admin format is built into, and
                 \* the name of each: "admin", or "active_fault" of Apply
  OwnFault,      \* the fault a MustFault call was given
  CompiledLists, \* the rule lists that may arrive; a rule also has name,
                 \* mode, policy and cache, the decision it makes
  PostedLists,   \* the rule lists POST /admin/rules may get: they have no
                 \* faults, since JSON cannot carry one, and no priorities
  HasRegistry,   \* WithRegistry
  HasCacheBox    \* WithCacheBox

AdminFaults == DOMAIN AdminName

ASSUME ObjectsAssumption ==
  /\ None \notin Requests \cup Objects
  /\ AdminFaults \subseteq Objects
  /\ OwnFault \in Objects \ AdminFaults

RulesIn(list) == {list[i] : i \in 1..Len(list)}

IsRule(rule) ==
  /\ rule = [name |-> rule.name, point |-> rule.point,
             labels |-> rule.labels, priority |-> rule.priority,
             object |-> rule.object, mode |-> rule.mode,
             policy |-> rule.policy, cache |-> rule.cache,
             composed |-> rule.composed]
  /\ rule.priority \in Int
  /\ rule.object \in Objects \cup {None}
  /\ rule.cache \in BOOLEAN

ASSUME ListsAssumption ==
  \A list \in CompiledLists \cup PostedLists :
    /\ Len(list) \in Nat /\ list = [i \in 1..Len(list) |-> list[i]]
    /\ \A rule \in RulesIn(list) : IsRule(rule)

(* A rule with a number that is no injection point matches nothing and is  *)
(* left out.                                                               *)
ASSUME PostedAssumption ==
  \A list \in PostedLists : \A rule \in RulesIn(list) :
    /\ rule.object = None /\ rule.priority = 0 /\ ~rule.composed
    /\ ParsePoint(rule.point) = rule.point

CompiledRules == UNION {RulesIn(list) : list \in CompiledLists}

(* Decoding builds a fault object of its own for each rule.                *)
ASSUME DecodingAssumption ==
  \A a, b \in CompiledRules :
    a.object # None => /\ a.object \notin AdminFaults \cup {OwnFault}
                       /\ a.object = b.object => a = b

(* The HTTP middleware's two ends, gRPC's (the unary and the stream        *)
(* interceptors are alike), and the calls in an application's code.        *)
Entries == {"ingress", "egress", "rpcServer", "rpcClient", "hook", "mustFault"}

(* The fault an object holds.                                              *)
Built(o) == IF o \in AdminFaults THEN FromAdmin(SpecOf[o])
                                 ELSE FromRule(SpecOf[o])

Inline == {o \in Objects : Built(o).category = "inline"}
Invalid == {o \in Objects : ~Validates(Built(o))}

(* What DemoEvaluator decides, and what MustFault does on its own.         *)
AdminDecision(o) ==
  [name |-> AdminName[o], object |-> o, policy |-> "DeduplicateByRule",
   mode |-> IF o \in Inline THEN "inline" ELSE "background",
   cache |-> FALSE]

OwnDecision ==
  [name |-> None, object |-> OwnFault, policy |-> "direct",
   mode |-> "background", cache |-> FALSE]

ASSUME DecisionsAssumption ==
  /\ None # OwnDecision
  /\ \A o \in AdminFaults : None # AdminDecision(o)
  /\ \A list \in CompiledLists \cup PostedLists :
       \A rule \in RulesIn(list) : None \notin {rule, DecodeRule(rule)}

VARIABLES
  entry,     \* how each request does enter the interceptor
  evaluator, \* the interceptor's evaluator: "static" or "demo"
  resolver,  \* ApplyTargets has a NetworkResolver
  demo,      \* DemoEvaluator.decision, or None
  source,    \* history: the list the installed rules came from
  rules,     \* StaticEvaluator.rules
  pc,        \* where each request stands
  decision,  \* the rule that decided it, or None
  gone,      \* requests whose context is done
  emitter,   \* fault object -> the request whose span gets its events
  fault,     \* the fault each request started
  owner,     \* registry key -> the request whose fault owns it, or None
  mu,        \* the request that holds the registry's lock, or None
  closed     \* the registry's context is done

vars == <<entry, evaluator, resolver, demo, source, rules, pc, decision, gone,
          emitter, fault, owner, mu, closed>>

Keys == {AdminName[o] : o \in AdminFaults} \cup
          {rule.name : rule \in CompiledRules}

TypeOK ==
  /\ entry \in [Requests -> Entries]
  /\ evaluator \in {"static", "demo"}
  /\ resolver \in BOOLEAN
  /\ demo # None => demo.object \in AdminFaults
  /\ Decodes(source, resolver) /\ Len(rules) = Len(source)
  /\ pc \in [Requests -> {"arrived", "decided", "linking", "starting",
                          "waiting", "refused", "serving", "served"}]
  /\ gone \in SUBSET Requests
  /\ emitter \in [Objects -> Requests \cup {None}]
  /\ fault \in [Requests -> {"none", "running", "expired", "cancelled"}]
  /\ owner \in [Keys -> Requests \cup {None}]
  /\ mu \in Requests \cup {None}
  /\ closed \in BOOLEAN
  /\ \A r \in Requests : fault[r] # "none" => decision[r] # None

(* Both evaluators start without anything to inject.                       *)
Init ==
  /\ entry \in [Requests -> Entries]
  /\ \A r \in Requests : entry[r] \in EntriesOf[r]
  /\ evaluator \in {"static", "demo"}
  /\ resolver \in BOOLEAN
  /\ demo = None
  /\ source = <<>> /\ rules = <<>>
  /\ pc = [r \in Requests |-> "arrived"]
  /\ decision = [r \in Requests |-> None]
  /\ gone = {}
  /\ emitter = [o \in Objects |-> None]
  /\ fault = [r \in Requests |-> "none"]
  /\ owner = [k \in Keys |-> None]
  /\ mu = None
  /\ closed = FALSE

installed == <<entry, evaluator, resolver, demo, source, rules>>
registry == <<owner, mu>>

Becomes(r, s) == pc' = [pc EXCEPT ![r] = s]

-----------------------------------------------------------------------------
requests == <<pc, decision, gone, emitter, fault, registry, closed>>

Install(list, decoded) ==
  /\ source' = list
  /\ rules' = decoded
  /\ UNCHANGED <<entry, evaluator, resolver, demo, requests>>

(* A slip: a rule that cannot be converted does not stop the list.         *)
SetRulesUnchecked(list) ==
  /\ evaluator = "static"
  /\ Install(list, DecodeCompiledRules(list))

(* A compiled list is decoded, with the resolver by Apply and without by a *)
(* poll, and installed; one that does not decode is refused and the rules  *)
(* in force stay.                                                          *)
SetRules(list) ==
  /\ evaluator = "static"
  /\ Decodes(list, FALSE) \/ Decodes(list, resolver)
  /\ Install(list, DecodeCompiledRules(list))

(* POST /admin/rules: the list is installed in the order it has.           *)
PostRules(list) ==
  /\ evaluator = "static"
  /\ Install(list, list)

(* handleFaultPost and applyActiveFault: a fault that can be built becomes *)
(* the decision on every request; another one is refused.                  *)
PostFault(o) ==
  /\ evaluator = "demo"
  /\ AdminBuilds(SpecOf[o], resolver)
  /\ demo' = AdminDecision(o)
  /\ UNCHANGED <<entry, evaluator, resolver, source, rules, requests>>

(* DELETE /admin/fault does not stop what already runs.                    *)
ClearFault ==
  /\ demo # None
  /\ demo' = None
  /\ UNCHANGED <<entry, evaluator, resolver, source, rules, requests>>

(* The evaluator request of each entry.                                    *)
Query(r) ==
  [point |-> CASE entry[r] \in {"ingress", "rpcServer"} -> "ingress"
               [] entry[r] \in {"egress", "rpcClient"} -> "egress"
               [] OTHER -> "custom",
   labels |-> LabelsOf[r]]

(* What the entry does when no fault is to be started: go on, except that  *)
(* MustFault then starts the fault it was given.                           *)
Otherwise(r) ==
  IF entry[r] = "mustFault"
    THEN IF OwnFault \in Invalid
           THEN Becomes(r, "refused") /\ UNCHANGED decision
           ELSE /\ decision' = [decision EXCEPT ![r] = OwnDecision]
                /\ Becomes(r, "linking")
    ELSE Becomes(r, "serving") /\ UNCHANGED decision

(* The decision of the interceptor's evaluator: the demo evaluator does    *)
(* not look at the request.                                                *)
Decision(r) ==
  IF evaluator = "demo" THEN demo
  ELSE LET i == Evaluate(rules, Query(r)) IN IF i = 0 THEN None ELSE rules[i]

(* Evaluate, and Check or the transport's own dispatch on the decision: a  *)
(* cache-box decision goes to the cache-box at HTTP egress if there is one *)
(* (it serves the request) and is not a fault anywhere else.  A fault that *)
(* does not validate is an error: the middleware logs it, the calls in an  *)
(* application's code return it.                                           *)
Decide(r) ==
  /\ pc[r] = "arrived"
  /\ LET d == Decision(r)
     IN  IF d = None THEN Otherwise(r)
         ELSE IF d.cache /\ (entry[r] # "egress" \/ HasCacheBox) THEN Otherwise(r)
         ELSE IF d.object = None THEN Otherwise(r)
         ELSE IF d.object \in Invalid
                THEN Becomes(r, "refused") /\ UNCHANGED decision
         ELSE /\ decision' = [decision EXCEPT ![r] = d]
              /\ Becomes(r, "decided")
  /\ UNCHANGED <<installed, gone, emitter, fault, registry, closed>>

(* StartFault: faults of other than inline type go through the registry if *)
(* there is one.                                                           *)
Registered(r) ==
  /\ HasRegistry
  /\ decision[r] # None
  /\ decision[r].policy # "direct"
  /\ decision[r].object \notin Inline

Dedup(r) == decision[r].policy # "AlwaysStart"

StartDirect(r) ==
  /\ pc[r] = "decided"
  /\ ~Registered(r)
  /\ Becomes(r, "linking")
  /\ UNCHANGED <<installed, decision, gone, emitter, fault, registry, closed>>

(* A slip: MustFault takes the fault it would join for a start of its own. *)
JoinInstead(r) ==
  /\ pc[r] = "decided"
  /\ Registered(r)
  /\ Dedup(r) => mu = None
  /\ UNCHANGED decision
  /\ IF Dedup(r) /\ owner[decision[r].name] # None
       THEN Becomes(r, "serving") /\ UNCHANGED mu
       ELSE Becomes(r, "linking") /\ mu' = IF Dedup(r) THEN r ELSE mu
  /\ UNCHANGED <<installed, gone, emitter, fault, owner, closed>>

(* StartOrJoin: the key is owned and the request goes on without a handle, *)
(* or startFn runs, under the lock unless the policy is AlwaysStart.       *)
StartOrJoin(r) ==
  /\ pc[r] = "decided"
  /\ Registered(r)
  /\ Dedup(r) => mu = None
  /\ IF Dedup(r) /\ owner[decision[r].name] # None
       THEN /\ Otherwise(r)
            /\ UNCHANGED mu
       ELSE /\ Becomes(r, "linking")
            /\ mu' = IF Dedup(r) THEN r ELSE mu
            /\ UNCHANGED decision
  /\ UNCHANGED <<installed, gone, emitter, fault, owner, closed>>

(* A span is opened and the fault object's emitter set to record on it.    *)
Link(r) ==
  /\ pc[r] = "linking"
  /\ emitter' = IF decision[r].object \in Inline THEN emitter
                ELSE [emitter EXCEPT ![decision[r].object] = r]
  /\ Becomes(r, "starting")
  /\ UNCHANGED <<installed, decision, gone, fault, registry, closed>>

(* Only an inline fault type in inline mode makes the middleware wait for  *)
(* the result; the others are forced to background.                        *)
Waits(r) ==
  /\ entry[r] \notin {"hook", "mustFault"}
  /\ decision[r].object \in Inline
  /\ decision[r].mode = "inline"

Unlock(r) == mu' = IF mu = r THEN None ELSE mu

(* Fault.Start succeeds: the registry enters the key, if it was asked.     *)
StartSucceeds(r) ==
  /\ pc[r] = "starting"
  /\ fault' = [fault EXCEPT ![r] = "running"]
  /\ owner' = IF Registered(r) /\ Dedup(r)
                THEN [owner EXCEPT ![decision[r].name] = r] ELSE owner
  /\ Unlock(r)
  /\ Becomes(r, IF Waits(r) THEN "waiting" ELSE "serving")
  /\ UNCHANGED <<installed, decision, gone, emitter, closed>>

(* A slip: the early return on an error leaves the registry locked.        *)
StartFailsLocked(r) ==
  /\ pc[r] = "starting"
  /\ Becomes(r, "refused")
  /\ UNCHANGED <<installed, decision, gone, emitter, fault, registry, closed>>

(* Fault.Start fails; the middleware logs it, a hook returns it.           *)
StartFails(r) ==
  /\ pc[r] = "starting"
  /\ Unlock(r)
  /\ Becomes(r, "refused")
  /\ UNCHANGED <<installed, decision, gone, emitter, fault, owner, closed>>

(* <-cr.Handle.Done() *)
Resume(r) ==
  /\ pc[r] = "waiting"
  /\ fault[r] # "running"
  /\ Becomes(r, "serving")
  /\ UNCHANGED <<installed, decision, gone, emitter, fault, registry, closed>>

(* next.ServeHTTP or base.RoundTrip, whether a fault was refused or not; a *)
(* hook returns to its caller, with the error or with what it started.     *)
Serve(r) ==
  /\ pc[r] \in {"refused", "serving"}
  /\ Becomes(r, "served")
  /\ UNCHANGED <<installed, decision, gone, emitter, fault, registry, closed>>

(* The request's context ends: it was served, or its client went away.     *)
RequestEnds(r) ==
  /\ r \notin gone
  /\ gone' = gone \cup {r}
  /\ UNCHANGED <<installed, pc, decision, emitter, fault, registry, closed>>

-----------------------------------------------------------------------------
(* The goroutine of a running fault. *)

Expire(r) ==
  /\ fault[r] = "running"
  /\ fault' = [fault EXCEPT ![r] = "expired"]
  /\ UNCHANGED <<installed, pc, decision, gone, emitter, registry, closed>>

(* The context the fault was started with is done: the registry's, or the  *)
(* request's.                                                              *)
CancelFault(r) ==
  /\ fault[r] = "running"
  /\ IF Registered(r) THEN closed ELSE r \in gone
  /\ fault' = [fault EXCEPT ![r] = "cancelled"]
  /\ UNCHANGED <<installed, pc, decision, gone, emitter, registry, closed>>

(* Handle.Stop, by the code whose Hook or MustFault call returned the      *)
(* handle; the middleware keeps handles to itself and only waits on them.  *)
StopFault(r) ==
  /\ entry[r] \in {"hook", "mustFault"}
  /\ pc[r] = "served"
  /\ fault[r] = "running"
  /\ fault' = [fault EXCEPT ![r] = "cancelled"]
  /\ UNCHANGED <<installed, pc, decision, gone, emitter, registry, closed>>

(* A slip: the key is freed when the start returns.                        *)
ReleaseEarly(r) ==
  /\ fault[r] # "none"
  /\ mu = None
  /\ \E k \in Keys : owner[k] = r /\ owner' = [owner EXCEPT ![k] = None]
  /\ UNCHANGED <<installed, pc, decision, gone, emitter, fault, mu, closed>>

(* The cleanup of the registry frees the key.                              *)
Release(r) ==
  /\ fault[r] \in {"expired", "cancelled"}
  /\ mu = None
  /\ \E k \in Keys : owner[k] = r /\ owner' = [owner EXCEPT ![k] = None]
  /\ UNCHANGED <<installed, pc, decision, gone, emitter, fault, mu, closed>>

CloseRegistry ==
  /\ HasRegistry
  /\ ~closed
  /\ closed' = TRUE
  /\ UNCHANGED <<installed, pc, decision, gone, emitter, fault, registry>>

-----------------------------------------------------------------------------
RequestStep(r) ==
  \/ Decide(r) \/ StartDirect(r) \/ StartOrJoin(r) \/ Link(r)
  \/ StartSucceeds(r) \/ StartFails(r) \/ Resume(r) \/ Serve(r)

FaultStep(r) == Expire(r) \/ CancelFault(r) \/ StopFault(r) \/ Release(r)

Next ==
  \/ \E list \in CompiledLists : SetRules(list)
  \/ \E list \in PostedLists : PostRules(list)
  \/ \E o \in AdminFaults : PostFault(o)
  \/ ClearFault
  \/ \E r \in Requests : RequestStep(r) \/ RequestEnds(r) \/ FaultStep(r)
  \/ CloseRegistry

Spec == Init /\ [][Next]_vars

(* Request goroutines run; the registry's lock, which StartOrJoin waits    *)
(* for, does not starve a waiter; a fault's duration expires.              *)
Fairness ==
  \A r \in Requests : SF_vars(RequestStep(r)) /\ WF_vars(Expire(r))

FairSpec == Spec /\ Fairness

-----------------------------------------------------------------------------
(* Properties.                                                             *)

(* Every request gets through the interceptor, whatever rules come and go: *)
(* it waits for its own inline fault and for the registry's lock only.     *)
RequestsComplete == \A r \in Requests : <>(pc[r] = "served")

(* MustFault always injects: a call that returns no error comes back with  *)
(* a fault it has started.  It asks the rules first, and of the ways in    *)
(* which they answer without a handle - no match, a frozen point, a rule   *)
(* without a fault, a fault of that rule which other requests have running *)
(* - none may be taken for a start (hook.go:62-77, registry.go:62-66).     *)
MustFaultInjects ==
  \A r \in Requests :
    entry[r] = "mustFault" /\ pc[r] = "serving" => fault[r] # "none"

(* All requests that match a rule share its fault object and the one       *)
(* emitter in it.  Deduplication also keeps their spans apart: while a     *)
(* deduplicated fault runs, its object records on the span of its own      *)
(* start, because startFn sets the emitter only once the key is free       *)
(* (interceptor.go:172-195).                                               *)
DedupKeepsOwnSpan ==
  \A r \in Requests :
    fault[r] = "running" /\ Registered(r) /\ Dedup(r)
    => emitter[decision[r].object] = r

(* A fault described in both formats runs from both or from neither,       *)
(* though inline faults have two parsers, spans and ramps are read in      *)
(* other places, and validation waits until a request matches              *)
(* (compiled_rule.go:174-266, admin.go:168-270): what an operator tries    *)
(* at the admin endpoint is what manteion's rule will do.  The one         *)
(* exception is an error without a status code, which a rule carries but   *)
(* never runs (inline/error.go:32-37).                                     *)
SameFaultsRun == IF resolver THEN AgreeWithResolver ELSE AgreeWithout

(* A compiled rule as it should be in force, and the positions of those    *)
(* that match a request.                                                   *)
InForce(i) == DecodeRule(source[i])
Candidates(r) == {i \in 1..Len(source) : Matches(InForce(i), Query(r))}

(* Sorting, decoding, swapping and first-match selection together          *)
(* (compiled_rule.go:87-103, static.go:42-66): a request is decided by the *)
(* compiled rule of highest priority that matches it, the first manteion   *)
(* sent among equals (of a posted list the first), and by none only if     *)
(* that rule starts no fault.                                              *)
DecidedByHighestPriority ==
  [][ \A r \in Requests :
        evaluator = "static" /\ pc[r] = "arrived" /\ pc'[r] # "arrived" =>
          IF Candidates(r) = {}
            THEN pc'[r] # "decided"
            ELSE \E i \in Candidates(r) :
                   /\ \A j \in Candidates(r) :
                        \/ source[j].priority < source[i].priority
                        \/ source[j].priority = source[i].priority /\ i <= j
                   /\ IF pc'[r] = "decided"
                        THEN decision'[r] = InForce(i)
                        ELSE \/ source[i].object \in Invalid \cup {None}
                             \/ source[i].cache ]_vars
=============================================================================
