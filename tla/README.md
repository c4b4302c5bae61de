# A TLA+ model of atropos-go

atropos-go injects faults into a Go service: HTTP and gRPC middleware ask an
evaluator whether a request is to suffer, start the fault that the matching
rule names, record or replay responses in a cache-box, and follow a control
plane, manteion, that publishes the rules. Most of the code is small; what is
hard in it is that request goroutines, fault goroutines, a recorder, timers, a
poll loop, an event stream and several kinds of Close and Stop run at the same
time over shared state.

The modules here are translated from the source. References of the form
`registry.go:78` are to files of the repository (`internal/interceptor/`,
`internal/cachebox/`, `internal/fault/` and the top level).

## The system

| Component | State it keeps | Operations | Talks to |
|---|---|---|---|
| Fault registry (`registry.go`, `fault.go`) | `mu`, `active` (key to fault), `wg`, `closed`, a context; per fault a `Handle` with an atomic result callback | `StartOrJoin`, the cleanup callback, `Close`; `Send`, `SetOnResult` | called by the interceptor, calls the fault's `Start` under its lock, called back by the fault's goroutine |
| Interceptor (`interceptor.go`, `hook.go`, `middleware.go`, `grpc/interceptor.go`) | none of its own; spans, the emitter inside each fault object | `Evaluate`, `Check`, `StartFault`, `Hook`, `MustFault`, `Ingress`, `Egress`, `checkAndWait` | evaluator, registry, cache-box, faults |
| Rule selection (`static.go`, `compiled_rule.go`, `rules_admin.go`) | the rule list behind an RWMutex | `Evaluate`, `SetRules`, `DecodeCompiledRules`, POST /admin/rules | read by requests, replaced by the manteion client and the admin endpoint |
| Demo evaluator and admin endpoints (`admin.go`) | one decision, the resolver it was built with | POST and DELETE /admin/fault, `buildFault` | read by requests; a register response installs its active fault here |
| Cache-box (`interceptor/cachebox.go`, `cachebox/cachebox.go`, `key.go`) | a store, a recorder, the key strategy | the egress dispatch, `Lookup`, `Record`, `Seed`, `Clear`, `Stop` | store, recorder |
| Cache store (`memstore.go`) | a map, an LRU list, a byte counter | `Get`, `Put`, `Delete`, `Clear` | request goroutines, the drain goroutine, admin |
| Recorder (`recorder.go`) | a bounded channel, `stopped`, counters | `Record`, `drain`, `Stop` | store, push client |
| Cache push client (`cache_push.go`) | `batch`, `timer`, `stopped`, counters | `add`, `flushLocked`, the timer's callback, `post`, `Stop` | manteion over HTTP |
| Manteion client (`manteion.go`, `manteion_client.go`, `register.go`, `health.go`) | `ruleVersion`, `status`, a trigger channel, a wait group | `ConnectManteion`, the poll loop, the SSE listener, `register`, `Apply`, `Close`, `Health` | manteion, the evaluators, the cache-box |
| Network proxy (`fault/network/`) | a listener, per connection two sockets and two workers | `Start`, accept loop, `Hijack`, `Pipe`, `streamWorker` | TCP peers, the fault's `Handle` |
| I/O and disk stress (`resource/io`, `resource/disk`) | a token bucket, temporary files | `Start`, `acquire`, `refill`, `setRate`, `rampLoop`, `emitPhaseEvents` | the file system, `Handle` |
| Memory stress (`resource/memory`) | a slice of chunks | `Start`, `thrashLoop` | `Handle` |
| CPU stress (`resource/cpu`) | a deadline, a load per worker | `Start`, `runWorker`, `emitPhaseEvents` | `Handle` |
| Inline faults (`fault/inline`) | a timer or a deadline | `Start` of latency, error and hang | `Handle` |
| The rest | | delay sources, wire format, facade, tracing, detection of limits, demo programs | see "Not modelled" |

Hard behaviours, by component, and what makes each correct:

* *Registry.* Several requests match one rule at once; a fault may end before
  the call that started it has registered its cleanup; `Close` waits on a
  counter that other goroutines lower. Correct: one deduplicated fault per key,
  a key is held exactly as long as its fault, the counter counts exactly, Close
  drains and comes back.
* *Interceptor and rules.* The list is replaced under requests; the lock is
  held over a start that may fail; a fault lives longer than its request; one
  fault object is shared by all requests of a rule. Correct: one whole list
  decides, by priority; a call that must start a fault has started one; spans are
  not mixed up; every request gets through.
* *Descriptions of faults.* Rules and the admin endpoint describe the same
  faults in two formats with parsers and defaults of their own, and validation
  waits until a request matches. Correct: both formats run the same faults.
* *Cache-box and store.* A response is answered before it is stored; the key
  is derived twice, from a request its caller still owns; three structures are
  kept in step by hand. Correct: a replay answers the same target and body, the
  store keeps its contract.
* *Recording to pushing.* Stop races Record; the drain goroutine feeds a second
  buffer with a Stop of its own; a timer that already runs cannot be stopped,
  and the batch it finds may be another one. Correct: nothing accepted is lost,
  overtaken or counted twice between the response and the control plane.
* *Manteion client.* Two channels tell of changes and a one-slot trigger joins
  them; the server goes away and comes back; a registration on its own
  goroutine applies an older answer, perhaps only in part. Correct: no change
  is missed for good, nothing runs after Close, Close comes back.
* *Network proxy.* Two workers share two sockets, and either may reset or
  half-close them; cancellation must get through. Correct: data before its end
  of stream, a half close is passed on, the fault ends whatever the peers do
  (it does not: see below).
* *Faults of this process.* Integer arithmetic with truncation, shared between
  workers and a ramp controller; a slice shared without a lock; phases announced
  by a goroutine with timers of its own; a deadline, Stop and the caller's
  cancellation that end the same context. Correct: never above the rate or the
  share, a lone worker at a constant rate keeps up with half of it, no released
  memory is walked, no file is left, and every fault lives the life `fault.Fault`
  promises.

`PROJECT.json` lists each of these hazards at its line, with the properties
that would catch it.

## The modules

| Module | Models | Notes |
|---|---|---|
| `KeyedFaults` | what `StartOrJoin` promises | abstract: an owner per key, an answer per call |
| `FaultRegistry` | `registry.go`, `fault.go`, `startRegistered` | a call is one goroutine; its fault, handle and span carry its name |
| `FaultRegistry_proof` | theorems about it | |
| `FaultDecoding` | the builders of `compiled_rule.go` and `admin.go`, and every `Validate` | operators over classes of values: absent, malformed, negative, zero, positive |
| `RuleSelection` | stable sort by priority, decoding of a list, first match | operators, over `FaultDecoding` |
| `Interception` | the interceptor, HTTP, gRPC and hook entries, both evaluators and what installs their rules and faults | uses the registry by its promise (`KeyedFaults`) and the lock it holds |
| `Interception_proof` | theorems about it and about `RuleSelection` and `FaultDecoding` | |
| `CacheContract` | the `Store` interface | abstract: no list, no recency |
| `LRUCache` | `MemStore`'s methods as functions of its state | operators, used by `MemStore` and `CacheBox` |
| `LRUCache_proof` | lemmas on these operators | |
| `MemStore` | the store under concurrent callers and a clock | implements `CacheContract` |
| `MemStore_proof` | theorems about it | over `LRUCache_proof` |
| `CacheRecorder` | `recorder.go` | |
| `CacheBox` | the egress dispatch over `LRUCache` and an instance of `CacheRecorder` | the drain's store step is the recorder's step and the store's `Put` together |
| `CacheBox_proof` | theorems about it | over `LRUCache_proof` |
| `CachePush` | `cache_push.go` | |
| `CachePipeline` | recorder and push client | extends `CacheRecorder`, instantiates `CachePush`; the drain's hook is the client's `add` |
| `CachePipeline_proof` | theorems about the recorder, the client and both together | |
| `ManteionClient` | the four client files, and manteion as they use it | manteion is external: it publishes, answers, fails |
| `ManteionClient_proof` | theorems about it | |
| `NetworkProxy` | `fault/network/` | sockets as counts of chunks with FIN and reset |
| `FaultContext` | the context a fault is started with and the one it derives | shared by the next five |
| `PhaseEvents` | `emitPhaseEvents`, the same in three files | one goroutine with timers of its own |
| `RatedStress` | `io/stress.go`, `disk/stress.go` | their token buckets are the same code |
| `MemoryStress` | `memory/stress.go` | a slice element is two words |
| `CpuStress` | `cpu/stress.go` | load in parts of one CPU |
| `InlineFault` | `inline/` | |
| `FaultLife` | the interface `fault.Fault` and what a `Handle` promises | abstract: refused, or running and then ended with one result |
| `FaultKinds` | one fault of any kind | composes the four kinds over one pair of contexts; each implements `FaultLife` |
| `FaultKinds_proof` | theorems about the kinds of `FaultKinds`, and about `NetworkProxy` | the proxy keeps its own state and `ProxySpec` |

Each `MC` module gives one of these its constants. How state and actions
correspond to the code:

* A variable has the name of the field it stands for (`active`, `wg`,
  `batch`, `timer`, `ruleVersion`, `triggerPoll` as `trigger`). Program counters
  (`pc`, `stage`, `caller`, `worker`) hold where a goroutine stands.
  Variables marked "history" in their module (`since`, `early`, `source`)
  exist for a property alone.
* An action is what a goroutine does between two points at which others can
  interfere: a critical section, an atomic load or store, a channel operation,
  a system call. `StartOrJoin` is therefore several actions (lookup, start,
  map entry and count, cleanup registration) because the lock is let go before
  the last one; `MemStore.Put` is one because it holds the lock throughout;
  `Apply` is one per category because each target has a lock of its own.
* `Send` is three steps: it loads the callback, the callback runs, and only then is
  the result delivered (`SendResult`, `fault.go:89-92`). The callback is two,
  since it lets go of the registry's lock before `Done`. Close may return between
  `Done` and the delivery.
* A `Write` of the proxy is two actions, the call and its return, because a
  destination that does not read (`stalled`) keeps it from returning, and a toxic
  blocked there looks at no context.
* `Interception` keeps a request that was answered with an error (`refused`) apart
  from one that goes on (`serving`), and `Handle.Stop` (`StopFault`) apart from the
  contexts a fault is started with: only callers of a hook or `MustFault` get the
  handle.
* Payloads are model values. A cached entry is the name of the request it was
  recorded from; a rule set is the version it was published under; a value in a
  fault's description is a class, chosen so that every comparison the builders
  and validators make is decided by it.
* A rule's fault object is a model value. Installing the same list again gives
  the same objects, where the code builds new ones: more sharing than the
  code has, so the properties about spans are checked under a harder condition.
  `MustFault` is called at a custom point, as in its documentation.
* Time is abstract in most modules: a timer may go off whenever it runs. The
  fault kinds and `MemStore` have a clock because their arithmetic is the
  question; a step may come arbitrarily late there.
* A definition introduced by "A slip:" is not part of the specification. It is
  a plausible mistake in the definition after it, kept so that each property
  can be seen to fail when the code is wrong in that way; `PROJECT.json`
  ("mutants") pairs each with its property.

## What the runs show

| Run | Instance | Distinct states | Properties |
|---|---|---|---|
| `fault_registry` | 3 calls on one key (by rule, by type, always), 2 Closers; one fault long-running, one may end early | 74,736 | dedup is exclusive; a key is held by its fault; `wg` is exact; Close drains and comes back; implements `KeyedFaults` |
| `mem_store` | 3 keys (symmetric), 2 sizes, cap 2, TTL 1, clock to 2, 5 uses | 36,036 | map, list and bytes agree; the least recent is evicted; implements `CacheContract` |
| `cache_box` | 4 requests for one target (two with one body, one with another, one over the limit), each of which the application may reuse for another; a seeded entry, cap 2, queue of 2, one Stop | 1,190,170 | a replay answers the same target and captured body; stored under the announced key |
| `cache_pipeline` | 3 records, a queue of 2, batches of 2, one Stop of the recorder, 2 of the push client, any timer late | 154,029 | order of acceptance; entries are conserved; a batch has a timer; stored before pushed; Stop drains; every record is counted |
| `manteion` | 3 published versions (rules only a registration decodes, rules nobody decodes, sound rules; an active fault that does not apply), an outage of 2 requests, re-register at 2, 1 registration at a time | 473,488 | no wake-up is lost; nothing after Close; Close comes back; finally in step |
| `network_proxy` | 1 connection, 1 chunk each way, every pair of toxics, both backends, peers that fall silent or stop reading | 148,769 | FIN behind the data; half close forwarded to a destination that keeps reading; a cancelled fault ends unless a toxic is blocked for ever in Read or Write |
| `interception` | 2 requests over HTTP, gRPC, a hook or `MustFault`; 4 compiled lists, two of which do not decode, one list by admin, two faults by admin; every class of broken fault | 484,686 | highest priority decides; `MustFault` starts a fault; spans are not mixed up; both formats run the same faults; requests complete |
| `fault_kinds` | one fault: 2 readers with both ramps, 1 reader, 1 writer; 3 chunks with a thrash worker; CPU at 3/4 on two CPUs, or half of one CPU with ramps, for 1¼ windows; latency, error, hang; stopped, cancelled or left alone | 155,951 | never above the rate; an acquire keeps pace; no released chunk is walked; CPU within its share; ramp-down is not announced early; an error is the caller's; files are removed; implements `FaultLife` |

Four more runs end in a counterexample; they are described under "Where the
code and its text disagree".

Why the bounds are enough for the questions asked:

* *Registry.* Exclusion is between two calls of one key; the third call has
  the policy that ignores the key but counts in `wg`. Two Closers let one find
  `closed` set. What holds for more is proved, below.
* *Store.* With a cap of two and three keys every Put of a new key can evict;
  five uses are enough to fill, refresh, evict and put back. Symmetry is over
  keys only and the run has no liveness property.
* *Cache-box.* Four requests: two that ask the same, so that a replay between
  requests happens and is right; one with another body, which must not be
  answered from them; one whose body is over the limit, whose key is that of the
  seeded entry without a body. Over the limit and unreadable are one case for the
  code (both leave the captured body nil). A cap of two makes Put evict.
* *Pipeline.* Three records make one full batch and a remainder, in either
  order with a late timer; each Stop may come before, between and after.
* *Manteion.* The three versions are the three ways rules can fare, in the
  order that leaves the client furthest behind. The threshold for a
  re-registration is 2 where the code has 6; the code treats all counts below,
  at and above the threshold the same way, so one of each suffices. One
  registration at a time bounds the goroutines that may be in flight.
* *Proxy.* Connections share only the accept loop and the wait group, so
  one connection shows every interleaving of the two workers; a second chunk
  repeats the first.
* *Interception.* Two requests are what sharing a fault object and holding the
  lock need; each may be of any kind that differs for the code, with and without
  the label some rules ask for. The first compiled list has a rule for each
  outcome (a registered fault, an inline one, a fault that does not start), the
  second has a tie and a rule without a fault.
* *Fault kinds.* A refill interval is worth one and a half tokens, so truncation
  bites at every refill. The CPU's load and window are in quarters, so that the
  loads that occur (3/4 on each of two workers, 1/2, and what the ramps make of
  it) are exact, as in the code's floating point; a CPU fault lasts for one and a
  quarter windows, so the last one is cut. One fault at a time: faults share
  nothing with each other but the registry, which has a run of its own.

### Fairness

Weak fairness is assumed of goroutines that can run: the Go scheduler does not
starve one. Strong fairness is used in three places. A goroutine that needs a
mutex others keep taking gets it in the end (`FaultStep` in the registry,
`RequestStep` in `Interception`), as `sync.Mutex` does in its starvation mode.
A `select` one of whose cases stays ready takes it in the end, because Go
chooses at random (`PollExit`, `SSEExit`), and the stress workers' look at the
context is such a case too (`WorkerExit`, `RampExit`). A `Write` to a destination
that makes room again and again gets through (`Forward`): what arrives in the
buffer is written even if the peer then stops reading once more. Time
passes: timers expire, deadlines come, a post is answered or times out
(`TimerExpires`, `PostDone`, `Tick`, `Deadline`, `Expire`). Nothing is assumed of
peers, which may never send, close or read (a property that needs one to read
says so in its statement: `HalfCloseForwarded`), of callers, of manteion while it
is down, or of who calls Close or Stop: those actions may never happen. In `manteion` the outage is finite because
failures are bounded; without that bound `EventuallyInSync` could not hold.

## Abstract specifications and refinements

* `FaultRegistry` implements `KeyedFaults`: checked in `fault_registry`, proved
  in `FaultRegistry_proof`. `Interception` uses the abstract one.
* `MemStore` implements `CacheContract`: checked in `mem_store`, proved in
  `MemStore_proof`.
* The recorder inside the cache-box is used as `CacheRecorder` allows: proved in
  `CacheBox_proof` (`BoxIsRecorder`); the one inside the pipeline too
  (`PipelineIsRecorder`).
* Every kind of fault implements `FaultLife` (Start refuses or begins; nothing
  of the fault is at work when the result is sent; the error is nil or that of
  a context that ended; a fault that began ends): checked in `fault_kinds`, with
  the fairness of each kind; its safety part is proved in
  `FaultKinds_proof`. This is what the registry relies on when it waits for a
  fault it has cancelled. The network proxy does not keep it
  (`proxy_hangs`) and is therefore not one of the kinds.

## What is proved

The theorems hold for every value of the constants that the named assumptions
allow; TLC evaluates these assumptions on the instances. Every safety property
that a passing run checks, and every action property, is stated by a theorem.
A property is seldom inductive as it stands; each section says what had to be
added, and why. All proofs have the same layout: one lemma for `Init`, one lemma
or step per action, one theorem that puts them together (`SpecIInv`, `Inductive`
or `NetworkSafe`), and one theorem per property.

### The registry

`FaultRegistry_proof` holds for any finite set of calls, any keys and policies,
any choice of early and late faults and any set of Closers, from the two named
assumptions of `FaultRegistry` (`CallsAssumption`, `CallShapeAssumption`).

The invariants that the run checks are not inductive. That a start never
overwrites a key depends on the lock being held from the lookup to the map
entry; that the cleanup, which deletes by key, takes away only its own entry
depends on no other call having been able to take the key; and that the
cleanup runs at most once depends on what `Send` can have loaded. `IInv` states
these facts: `LockInv` (who holds `mu`, and where it stands), `FaultInv` (which
callback is registered at each stage, and what `Send` loaded), `KeyInv` (a key
is free while its starter is inside `startFn`; an entry belongs to a tracked
fault of that key that has not been released), with `KeyHeldByItsFault`,
`WaitGroupExact` and `TypeOK`. One lemma per part (`LockStep`, `CallbackStep`,
`KeyStep`, `CountStep`, `TypeStep`) goes through the actions; the count uses the
library's facts on the cardinality of finite sets. From `Inductive` follow:

* `TypeCorrect`: `Spec => []TypeOK`, in particular `wg` never goes negative, a panic
  in Go;
* `DedupSafe`, `KeysHeld`, `CountExact`: the three safety invariants;
* `CloseDrains`: when a Close that waited returns, every fault counted into `wg`
  has run its cleanup and has no key. It does not say that their results were
  delivered: `Done` comes before the delivery, which may be outstanding;
* `Refinement`: the registry implements `KeyedFaults`. Each step maps to the
  abstract step that answers the call, or to a stutter.

### Recording to pushing

`CachePipeline_proof` begins with the recorder, for any buffer size, any records and
any number of Stops. Its invariant adds to the order of records that the drain goroutine
leaves its loop only on a closed and empty channel and holds a record exactly
between receive and push. `OrderKept` states `AcceptedInOrder`: what was accepted
is what was stored, then what is in hand, then what is queued. `StopIsDrained`
states `StopDrains`: the Stop that closed the channel returns with everything
accepted in the store.

What it says of the pipeline holds for any records, any size of queue and batch and any
number of Stops, from `PipelineAssumption`. Every step of the pipeline is a step of
its recorder or a stutter (`PipelineIsRecorder`), so order and draining carry over:
`PipelineKeepsOrder`, `PipelineStopDrains`. The client's invariants are inductive
together with `ClientInv`: an entry that `add` has not seen names no timer, so a
new timer has not gone off; only the Stop that swapped `stopped` has a batch of its
own, so no other Stop can overwrite it; after it none is gathered. `HandOver` ties
the two components: the store holds what the client was given, and the one record
in the drain's hands. From `PipelineInductive` follow:

* `NothingLost`: `EntriesConserved`, no entry is lost, sent twice or counted twice;
* `TimerArmed`: `BatchHasTimer`;
* `StoreIsAhead`: `StoredBeforePushed`.

These are all the safety properties that `cache_pipeline` checks.

### The store

`LRUCache_proof` has the lemmas on the list: what `RemoveAt` and a prepended node
do to a sequence (lengths, elements, nodes, keys), and that `Agrees` survives each
method of the store, where `Agrees` says that no key has two nodes and that the
map's keys are those of the list. `Evict` is a recursive function; it runs at most
once because a Put exceeds the cap by at most one, so it is reasoned about without
induction.

`MemStore_proof` holds for any keys, any sizes, any cap (also none), any TTL and any
clock, from `ConfigAssumption` and `EntriesAssumption`.

* `SpecMapListAndBytesAgree`: the byte counter is the sum over the list. The sum
  is a recursive function of the length; that one exists for every list, and how it
  changes when a node is removed, prepended or moved, is shown by induction on
  sets of naturals (`SetInduction`), which in turn is proved from the least element
  of a well-founded order, since the library's induction rule takes an operator.
* `SpecEvictsLeastRecent`: the list is ordered by last use (`RecencyInv`), so what
  a Put drops from its back was used before everything that stays.
* `SpecImplementsStoreContract`: the contents of the store, seen through list and
  map, follow `CacheContract` step by step: lazy expiry, refresh and eviction are
  the steps the contract allows. `LatestInv` is what ties an entry to its last Put.

### The cache-box

`CacheBox_proof` holds for any requests, targets, bodies, seeds, key strategy, cap and
queue, from `RequestsAssumption` and `RecorderAssumption`. The invariant follows an
entry on its way: a request has its key from the hot path on (`KeyInv`); only
requests that came back reach the queue (`RecordedInv`); a node of a request that
was left alone is under the key of that request (`NodeInv`); and what is served
from it has the same key (`ServedInv`). No two of them are inductive alone.

* `SpecStoredUnderAnnouncedKey`, without further hypotheses.
* `SpecReplayAnswersTheSameQuestion`, for every key strategy: the recorded request
  had the same path, the same host if the strategy names it in the key
  (`key.go:24-33`; without it the code does not promise the host), and under
  "exact_with_body" the same body. The exception is part of the statement
  (`BodyNotTold`): the key of a request without a body, with one over the limit or
  with one that cannot be read is the same.
* `BoxIsRecorder`: with it, the recorder's theorems hold inside the cache-box.

### The manteion client

`ManteionClient_proof` holds for any number of versions, failures and concurrent
registrations, whatever each version contains, from `BoundsAssumption`.
`WakeupNotLost` needs that a signal which came after the answer in hand is still in
the one-slot channel (`AnswerInv`), that events speak of published versions only
(`EventsInv`), and that one goroutine at a time is inside `fetchRules` (`LoopsInv`).
`NothingAfterClose` needs that Close's wait ends only when both loops have exited and
no registration is under way (`CloseInv`).

### Requests and rules

`Interception_proof` holds for any requests, rule lists, fault objects and admin
faults, from the five assumptions of `Interception`: names of objects are distinct
from `None`, a list is a sequence of rules, posted rules are the ones POST
/admin/rules can build, and decoding builds an object of its own for each rule.

* `SpecTypeOK`.
* `SpecMustFaultInjects`: a call that returns no error has started a fault. `MustInv`
  follows a `MustFault` call through the ways it may come back without a handle (no
  rule, a rule for the cache-box, a rule's fault that joined one that runs), each of
  which has to lead to a start of the caller's own fault.
* `SpecDedupKeepsOwnSpan`. The span of
  a deduplicated fault is safe because its start holds the registry's lock while
  its key is free (`KeyInv`), so that nobody can set the emitter between
  (`EmitterInv`), and because no two decisions share an object.
* `SpecDecidedByHighestPriority` is about the whole path from the control plane's
  list to a decision. `SortedByPriority` puts a rule at the place given by the number of rules
  that come before it; that these places are a bijection on the positions, hence
  that the sorted list has the same rules in a stable order, is shown by counting
  (`Before` sets, their inclusions and the pigeonhole of a strictly larger set).
  Then first match in the sorted and decoded list is the candidate of the highest
  priority, the first among equals.
* `SpecSameFaultsRun`: the two parsers of a fault with their defaults and validation
  agree on every description, by cases over category and type.

### The faults of this process

`FaultKinds_proof` holds for any rate, file size, refill interval, ramps, duration,
numbers of workers, chunks and CPUs, load and window (that of the CPU fault of its
own), from `Configured` (what each
`Validate` accepts, and positive constants). At most one fault is started
(`OneFault`), and nothing of it is at work before and after (`RestInv`).

* `SpecNeverAboveRate`. What was given out and what is left never exceeds a full
  bucket and the rate times the time of the last refill (`BucketInv`, in units of
  tokens times `Second`, so that truncation only helps), and the bucket is never
  overspent nor above its capacity, the ramp's lowered one included. The ramp
  controller sets no rate above the target and only takes tokens away.
* `SpecAcquireKeepsPace`. It is about a lone worker at a constant rate only; of
  several workers, or under a ramp, nothing is said. For such a worker the
  time from its first attempt to the last refill is worth less than twice the
  tokens it found there (`PaceInv`). It has the hypothesis that the rate is worth
  one token in a refill interval, `Second <= TargetRate * Interval`, which is
  100 bytes/s in the code. Below it every refill is truncated to nothing while
  `lastTick` moves on, and the property is false.
* `SpecCpuWithinShare`. The counter of burned time is shared, so the proof splits
  it: it is the size of a set of pairs of a worker and a tick (`History`), a
  witness and no state of the code. Each worker's slice of the set is bounded by
  its load up to the beginning of its window, plus the time since when it burns
  (`Within`); burning first and sleeping then is ahead of the load by at most a
  quarter of a window (`Quarter`), and a set of pairs is no larger than the
  bound of a slice times the number of workers (`PairsBounded`).
* `SpecRampDownNotAnnouncedEarly`: the timer armed with a phase fires no earlier
  than the phase ends, whatever the delay with which it was armed (`AlarmInv`).
* `SpecWalksWholeChunks`: the index of a thrash worker is below the length it read,
  and it walks only what it saw not to be nil (`ThrashInv`).
* `SpecErrIsTheCallers`: inductive together with the rest.
* `SpecImplementsLifeSafe`: every step of every kind is a step of `FaultLife` or a
  stutter, in particular the step that sends the result is taken when nothing of
  the fault is at work.

### The network proxy

The last section of `FaultKinds_proof` holds for any connections, chunks, toxics and
backends, from `ConstantsAssumption`. `FinBehindTheData` needs that a worker holds
exactly the one chunk it has read and not written (`StreamOK`): at the end of a
stream nothing is in its hands, and at a cancellation or a reset the property makes
no claim. `NetworkTypeOK` and `NetworkFinBehindTheData` follow.

### Only model-checked

* All liveness: `CloseComesBack` of the registry and of the client,
  `EveryRecordIsCounted`, `EventuallyInSync`, `HalfCloseForwarded`,
  `CancelEndsUnlessBlocked`, `FilesRemoved`, `RequestsComplete`, and that every
  fault of `FaultLife` ends. The proof system has no rules for fairness.
* The fairness part of `FaultLife`, for the same reason; the theorem is about
  `LifeSafe`, its safety part.
* The four runs that end in a counterexample.

## Where the code and its text disagree

Four disagreements have a run that ends in a counterexample.

* `registry_key_stuck`. `registry.go:40`: "After the fault completes the key is
  freed." A fault that sends its result between the start and
  `h.SetOnResult` (line 78) finds the interceptor's own callback and not the
  cleanup. The key is taken for ever, each later request of the rule is
  answered as a duplicate, and `Close` hangs. `CloseComesBack` in the passing
  run makes this case its only exception (`CleanupMissed`).
* `recorder_panic`. `recorder.go:83-85` promises `false` after a Stop; a Record
  between its check and its send finds the channel closed, and panics.
* `proxy_hangs`. `toxic.go:31` asks toxics to return promptly on cancellation;
  all that read are blocked in `src.Read` while a peer is silent, and in `dst.Write`
  while a peer does not read (`latency.go:39`, `throttle.go:33`, `drip.go:46`,
  `loss.go:66`, `rst.go:68`). The sockets are closed only after both workers are
  back (`conn.go:134`), so the fault then does not end. `CancelEndsUnlessBlocked`
  shows that, of what is modelled, these two are the only reasons.
* `stale_rules`. `manteion_client.go:27-28` calls a client connected when polls
  succeed and says that a degraded one uses stale rules. A registration that
  recovery started installs the rules of its own, older answer after a poll has
  installed newer ones and stored their version (lines 197, 259-260,
  `register.go:132`): the client is connected with stale rules until the next
  publication. `EventuallyInSync` excepts rules a registration installed last.

Others were met while modelling and have no run; the models contain the
behaviour where it is in scope.

* `StartOrJoin`'s cleanup (`registry.go:56`, 78) replaces the callback that records
  the result and ends the span (`interceptor.go:191`), so a registered fault's
  result is recorded, and its span ended, only if the fault ended before; the
  repository's README, line 217, says the result is recorded.
* `Close` "waits for every tracked fault to drain" (`registry.go:85-86`), but `wg.Done`
  is called from the callback, before `Send` delivers the result
  (`fault.go:89-92`): Close may return while a result is still undelivered.
* `cpu_fault_explained.md:109` says that a result's `Err` is "non-nil if cancelled or
  failed", and line 103 that `Stop` "triggers early cancellation"; a CPU fault that
  is stopped through its handle ends with a nil `Err` (`cpu/stress.go:121-127`), as
  the other resource faults do. Only the end of the caller's context is reported,
  also when it comes after a Stop. `ErrIsTheCallers` states what the code does.
* A second `Close` or `Stop` returns at once while the first waits
  (`registry.go:92`, `recorder.go:130`), though both texts speak of draining.
  Faults may be started after `Close`; their context is done, but nobody waits.
* The repository's README, line 482, announces the registry with
  `WithRegistry`; it is an option of the internal package only, so
  no public configuration installs a registry. `interception` checks
  interceptors that have one; inline faults take the direct path there too.
* Polls decode rules without the network resolver that `Apply` is given
  (`manteion_client.go:253`, `register.go:126`): rules that a registration
  installs may be rejected by every later poll. The run has such a version.
* `Apply` calls its categories independent (`register.go:109`); one that fails
  keeps the later ones from being applied and leaves the earlier ones in force,
  and polls correct neither the active fault nor the freeze config.
* Two registrations may be under way at once and the older answer may be the
  last to be applied.
* The status is set to connected after the loops start (`manteion.go:101`), over a
  first poll that may already have failed. The comment at `manteion.go:26-29`
  says a failed first fetch of rules is an error; lines 78-80 log it and go on.
  `Ready` answers no only to "disconnected" (`health.go:42`), which a returned
  client never is.
* `http.RoundTripper` lets a caller change its request once the response is
  closed, and the record keeps the caller's request (`recorder.go:15-17`, 104):
  the drain may store a response under another key than was announced.
  `StoredUnderAnnouncedKey` and `ReplayAnswersTheSameQuestion` are therefore about
  requests that are left alone; `cache_box` has the reuse.
* A request body that cannot be read falls "through to passthrough" by the
  comment at `interceptor/cachebox.go:58-60`; the code goes on to the key of an
  empty body, and to a replay. A body over the limit, which cannot be cached "by
  body hash" (`cachebox/cachebox.go:214-219`), is keyed like an empty one too, so
  that the answer to one such request is replayed to the others although "the
  body determines the response" (`key.go:34-38`). `ReplayAnswersTheSameQuestion`
  names exactly this as its exception (`BodyNotTold`).
* `FaultAdminHandler` calls `Configure` on its first request (`admin.go:86`).
  Middleware that was built before keeps the interceptor it captured, where the
  fault is never injected, and the new default has no cache-box.
* DELETE /admin/fault clears the decision and leaves a fault that runs running.
* An inline error without a status code defaults to 500 at the admin endpoint
  and is decoded but refused by `Validate` when it comes in a rule:
  `FormatsAgree` in `FaultDecoding` names the descriptions the two formats read
  alike.
* `applyRST` sets SO_LINGER and `CloseWrite` follows (`conn.go:71-72`): a FIN
  goes out first, where `toxic.go:49-50` says "instead of a clean FIN".
* `MustFault` "bypasses the evaluator" (`hook.go:56`) but asks it first, and starts
  the fault it was given only if no rule's fault was started.
* A rate below 100 bytes/s adds no token in a 10 ms interval
  (`io/stress.go:332`), and `rate * elapsed` overflows at 1 GB/s after 9.2 s
  without a refill. The disk writer writes a chunk larger than `MaxDiskUsage`
  whole (`disk/stress.go:199`). Both are beside the instance's configurations.
* `ChunksAllocated` reports the number planned (`memory/stress.go:191`). The
  temporary files are removed after the result is sent: `FilesRemoved` is a
  liveness property for that reason.
* A sample of `DistributionDelaySource` beyond the range of `time.Duration`
  (`delay.go:101`) may become a negative delay, which is none.

## Not modelled

* Delay sources and the wire format: sampling and JSON over state modelled
  elsewhere. Replays are delayed by an arbitrary time.
* The facade, configuration and tracing: setters and forwarding.
* Detection of memory and CPU limits: parsing of system files. The number of
  CPUs is a constant of `CpuStress`.
* The demo programs.
* Within modelled parts: counters and details of results, O_DIRECT, header
  handling, the response's cap and collisions of the body's hash in the cache-box, authentication, real time in
  timeouts and backoffs, peers that abort a TCP connection, contents of files and
  payloads, the span attributes of requests.

## Plan

What would add most, in this order:

1. `NetworkProxy`: peers that abort, and two connections under one listener; the
   theorems about it do not depend on the number of connections already.
2. That `Interception`'s use of the registry is what `FaultRegistry_proof` gives:
   its `owner` as the abstract state of `KeyedFaults`, with `Refinement`.
3. Safety facts the liveness runs rest on, as theorems: that a Close of the
   manteion client cancels before it waits, that a cancelled proxy closes its
   listener before its result is sent, that a file is removed only once.
4. `CacheBox` as an implementation of `CacheContract`, from the lemmas of
   `LRUCache_proof` and the contents lemmas of `MemStore_proof`.
