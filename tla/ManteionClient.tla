--------------------------- MODULE ManteionClient ---------------------------
(***************************************************************************)
(* The connection to the manteion control plane: ConnectManteion           *)
(* (manteion.go), the poll loop, the SSE listener, the re-registrations    *)
(* and Close (manteion_client.go), Apply (register.go) and the health view *)
(* (health.go).  Four kinds of goroutine share the evaluator's rules, the  *)
(* demo evaluator, the cache-box's delay source, the rule version and the  *)
(* status.                                                                 *)
(*                                                                         *)
(* What manteion intends for the service is named by the version it was    *)
(* published under; 0 is what the targets held before.  Manteion itself is *)
(* not under src/: it answers a poll 304 when the polled version is the    *)
(* published one and 200 with the published rules otherwise, a             *)
(* registration with the published rules, active fault and freeze config,  *)
(* and tells an open event stream of a publication.  All ApplyTargets are  *)
(* given, the NetworkResolver included.                                    *)
(***************************************************************************)
EXTENDS Naturals, Sequences, FiniteSets

CONSTANTS
  MaxVersion,    \* bound: versions manteion publishes
  MaxFailures,   \* bound: requests that fail while the client is not closed
  ReregisterAt,  \* consecutive failures that trigger a re-register (6)
  Regs,          \* bound: registrations that may be in flight together
  Rules,         \* of each version: "empty", "sound", "network" or "bad"
  ActiveFault,   \* of each version: "none", "sound" or "bad"
  FreezeCfg      \* of each version: "none", "sound" or "bad"

Versions == 0..MaxVersion

ASSUME BoundsAssumption ==
  /\ MaxVersion \in Nat \ {0}
  /\ MaxFailures \in Nat
  /\ ReregisterAt \in Nat \ {0}
  /\ Rules \in [Versions -> {"empty", "sound", "network", "bad"}]
  /\ ActiveFault \in [Versions -> {"none", "sound", "bad"}]
  /\ FreezeCfg \in [Versions -> {"none", "sound", "bad"}]
  /\ Rules[0] = "empty" /\ ActiveFault[0] = "none" /\ FreezeCfg[0] = "none"

NotModified == MaxVersion + 1   \* the status 304, told apart from a version

VARIABLES
  published,   \* manteion: the version it serves
  stream,      \* manteion: rules_changed events written, not yet read
  budget,      \* failures still allowed (bound)
  main,        \* where ConnectManteion stands; "returned" sets globalClient
  poll,        \* the poll loop: its select, inside fetchRules, gone
  fetch,       \* where fetchRules stands
  asked,       \* the version query parameter of the poll in flight
  answer,      \* the response to it
  reg,         \* where each registration goroutine stands
  regAnswer,   \* the version in its response
  sse,         \* the event stream connection
  trigger,     \* the trigger channel, of capacity one, is full
  failures,    \* consecutiveFailures
  rules,       \* the version whose rules the evaluator has
  demo,        \* the version whose fault the demo evaluator has
  delay,       \* the version whose freeze config the delay source has
  ruleVersion, \* c.ruleVersion
  status,      \* c.status
  polled,      \* c.lastPollAt # 0
  cancelled,   \* pollCtx is done
  closer,      \* where Close stands
  notified,    \* history: latest publication signalled to the trigger
  served,      \* history: published when the last poll was answered
  installer    \* history: who installed the rules last

vars == <<published, stream, budget, main, poll, fetch, asked, answer, reg,
          regAnswer, sse, trigger, failures, rules, demo, delay,
          ruleVersion, status, polled, cancelled, closer, notified, served,
          installer>>

Init ==
  /\ published = 0 /\ stream = <<>> /\ budget = MaxFailures
  /\ main = "waiting" /\ poll = "none"
  /\ fetch = "idle" /\ asked = 0 /\ answer = NotModified
  /\ reg = [r \in Regs |-> "free"] /\ regAnswer = [r \in Regs |-> 0]
  /\ sse = "none" /\ trigger = FALSE
  /\ failures = 0 /\ ruleVersion = 0
  /\ rules = 0 /\ demo = 0 /\ delay = 0 /\ installer = "start"
  /\ status = "disconnected" /\ polled = FALSE
  /\ cancelled = FALSE /\ closer = "none"
  /\ notified = 0 /\ served = 0

server    == <<published, stream, budget>>
fetching  == <<fetch, asked, answer, served>>
register  == <<reg, regAnswer>>
events    == <<sse, trigger, notified>>
targets   == <<rules, demo, delay, installer>>
installed == <<targets, ruleVersion>>
shown     == <<status, polled>>
shutdown  == <<cancelled, closer>>

-----------------------------------------------------------------------------
(* Manteion: a new rule set; an open stream gets a rules_changed event.    *)
Publish ==
  /\ published < MaxVersion
  /\ published' = published + 1
  /\ stream' = IF sse = "open" THEN Append(stream, published + 1) ELSE stream
  /\ UNCHANGED <<budget, main, poll, fetching, register, events, failures,
                 installed, shown, shutdown>>

(* A request fails: network error, timeout or an error status.  The bound  *)
(* on failures stands for an outage that ends.                             *)
SpendFailure == budget > 0 /\ budget' = budget - 1

-----------------------------------------------------------------------------
(* fetchRules, run by ConnectManteion once and then by the poll loop.      *)

(* A request on a context that is already done fails before it is sent.    *)
FetchBegin ==
  /\ fetch' = IF cancelled THEN "failed" ELSE "sent"
  /\ asked' = ruleVersion
  /\ UNCHANGED <<answer, served>>

FetchServe ==
  /\ fetch = "sent"
  /\ answer' = IF asked = published THEN NotModified ELSE published
  /\ served' = published
  /\ fetch' = "answered"
  /\ UNCHANGED <<server, main, poll, asked, register, events, failures,
                 installed, shown, shutdown>>

FetchFail ==
  /\ fetch = "sent"
  /\ \/ cancelled /\ UNCHANGED budget
     \/ ~cancelled /\ SpendFailure
  /\ fetch' = "failed"
  /\ UNCHANGED <<published, stream, main, poll, asked, answer, served,
                 register, events, failures, installed, shown, shutdown>>

(* DecodeCompiledRules as fetchRules calls it: without the resolver that   *)
(* network rules need.                                                     *)
Polled(v) == v \in Versions /\ Rules[v] \in {"empty", "sound"}

(* 304, or rules that do not decode: nothing changes and the poll is fine. *)
(* Otherwise SetRules, then ruleVersion.Store: a registration can come in  *)
(* between the two.                                                        *)
FetchInstall ==
  /\ fetch = "answered"
  /\ IF ~Polled(answer)
       THEN fetch' = "ok" /\ UNCHANGED <<rules, installer>>
       ELSE fetch' = "installed" /\ rules' = answer /\ installer' = "poll"
  /\ UNCHANGED <<server, main, poll, asked, answer, served, register, events,
                 failures, demo, delay, ruleVersion, shown, shutdown>>

FetchRecord ==
  /\ fetch = "installed"
  /\ ruleVersion' = answer
  /\ fetch' = "ok"
  /\ UNCHANGED <<server, main, poll, asked, answer, served, register, events,
                 failures, targets, shown, shutdown>>

FetchStep == FetchServe \/ FetchFail \/ FetchInstall \/ FetchRecord

-----------------------------------------------------------------------------
(* Apply: the three categories one after the other; the first that fails   *)
(* ends it and leaves what came before it applied.  An absent category     *)
(* means no change, and the rule version is not touched.                   *)
ApplyRules(v) ==
  IF Rules[v] \in {"sound", "network"}
  THEN rules' = v /\ installer' = "registration"
  ELSE UNCHANGED <<rules, installer>>

ApplyFault(v) == demo' = IF ActiveFault[v] = "sound" THEN v ELSE demo

ApplyFreeze(v) == delay' = IF FreezeCfg[v] = "sound" THEN v ELSE delay

(* A registration goroutine, c.register(c.pollCtx).                        *)
RegSpawn(r) ==
  /\ reg[r] = "free"
  /\ reg' = [reg EXCEPT ![r] = IF cancelled THEN "failed" ELSE "sent"]
  /\ UNCHANGED regAnswer

RegServe(r) ==
  /\ reg[r] = "sent"
  /\ regAnswer' = [regAnswer EXCEPT ![r] = published]
  /\ reg' = [reg EXCEPT ![r] = "answered"]
  /\ UNCHANGED <<server, main, poll, fetching, events, failures, installed,
                 shown, shutdown>>

RegFail(r) ==
  /\ reg[r] = "sent"
  /\ \/ cancelled /\ UNCHANGED budget
     \/ ~cancelled /\ SpendFailure
  /\ reg' = [reg EXCEPT ![r] = "failed"]
  /\ UNCHANGED <<published, stream, main, poll, fetching, regAnswer, events,
                 failures, installed, shown, shutdown>>

(* Each target is locked by itself: other goroutines' steps come between.  *)
RegRules(r) ==
  /\ reg[r] = "answered"
  /\ ApplyRules(regAnswer[r])
  /\ reg' = [reg EXCEPT ![r] =
               IF Rules[regAnswer[r]] = "bad" THEN "failed" ELSE "rules"]
  /\ UNCHANGED <<server, main, poll, fetching, regAnswer, events, failures,
                 demo, delay, ruleVersion, shown, shutdown>>

RegFault(r) ==
  /\ reg[r] = "rules"
  /\ ApplyFault(regAnswer[r])
  /\ reg' = [reg EXCEPT ![r] =
               IF ActiveFault[regAnswer[r]] = "bad" THEN "failed" ELSE "fault"]
  /\ UNCHANGED <<server, main, poll, fetching, regAnswer, events, failures,
                 rules, installer, delay, ruleVersion, shown, shutdown>>

(* The goroutine ends; an error is dropped.                                *)
RegEnd(r) ==
  /\ \/ reg[r] = "failed" /\ UNCHANGED delay
     \/ reg[r] = "fault" /\ ApplyFreeze(regAnswer[r])
  /\ reg' = [reg EXCEPT ![r] = "free"]
  /\ regAnswer' = [regAnswer EXCEPT ![r] = 0]
  /\ UNCHANGED <<server, main, poll, fetching, events, failures, rules,
                 installer, demo, ruleVersion, shown, shutdown>>

RegStep(r) ==
  RegServe(r) \/ RegFail(r) \/ RegRules(r) \/ RegFault(r) \/ RegEnd(r)

-----------------------------------------------------------------------------
(* ConnectManteion. *)

(* waitForReady: manteion answers /init with 200, or the deadline passes.  *)
MainReady ==
  /\ main = "waiting"
  /\ main' \in {"registering", "failed"}
  /\ UNCHANGED <<server, poll, fetching, register, events, failures,
                 installed, shown, shutdown>>

(* c.register(ctx), with nobody else about: a request that fails, or a     *)
(* category that does not apply, fails ConnectManteion.                    *)
MainRegister ==
  /\ main = "registering"
  /\ LET v == published
         rulesOK == Rules[v] # "bad"
         faultOK == rulesOK /\ ActiveFault[v] # "bad"
     IN \/ /\ ApplyRules(v)
           /\ IF rulesOK THEN ApplyFault(v) ELSE UNCHANGED demo
           /\ IF faultOK THEN ApplyFreeze(v) ELSE UNCHANGED delay
           /\ IF faultOK /\ FreezeCfg[v] # "bad"
                THEN main' = "fetching" /\ FetchBegin
                ELSE main' = "failed" /\ UNCHANGED fetching
        \/ /\ main' = "failed"
           /\ UNCHANGED <<targets, fetching>>
  /\ UNCHANGED <<server, poll, register, events, failures, ruleVersion, shown,
                 shutdown>>

(* The first fetchRules: its failure is logged and startup goes on.        *)
MainFetched ==
  /\ main = "fetching"
  /\ fetch \in {"ok", "failed"}
  /\ polled' = (fetch = "ok")
  /\ fetch' = "idle"
  /\ main' = "fetched"
  /\ UNCHANGED <<server, poll, asked, answer, served, register, events,
                 failures, installed, status, shutdown>>

(* The two goroutines are started ...                                      *)
MainStartLoops ==
  /\ main = "fetched"
  /\ poll' = "select"
  /\ sse' = "connecting"
  /\ main' = "looping"
  /\ UNCHANGED <<server, fetching, register, trigger, notified, failures,
                 installed, shown, shutdown>>

(* ... before the status is stored, and the client is published last.      *)
MainStore ==
  /\ main = "looping"
  /\ status' = "connected"
  /\ main' = "stored"
  /\ UNCHANGED <<server, poll, fetching, register, events, failures,
                 installed, polled, shutdown>>

MainReturn ==
  /\ main = "stored"
  /\ main' = "returned"
  /\ UNCHANGED <<server, poll, fetching, register, events, failures,
                 installed, shown, shutdown>>

MainStep == \/ MainReady \/ MainRegister \/ MainFetched
            \/ MainStartLoops \/ MainStore \/ MainReturn

-----------------------------------------------------------------------------
(* pollLoopWithTrigger. *)

(* The ticker fires, or the trigger channel is drained: doPoll begins.     *)
(* Go's select may still choose these when the context is done.            *)
PollTick ==
  /\ poll = "select"
  /\ poll' = "fetching"
  /\ FetchBegin
  /\ UNCHANGED <<server, main, register, events, failures, installed, shown,
                 shutdown>>

PollTriggered ==
  /\ poll = "select"
  /\ trigger
  /\ trigger' = FALSE
  /\ poll' = "fetching"
  /\ FetchBegin
  /\ UNCHANGED <<server, main, register, sse, notified, failures, installed,
                 shown, shutdown>>

(* doPoll after an error.  Failure counts above ReregisterAt are not told  *)
(* apart: the backoff has stopped growing and only equality is tested.     *)
PollFailed ==
  /\ poll = "fetching"
  /\ fetch = "failed"
  /\ failures' = IF failures > ReregisterAt THEN failures ELSE failures + 1
  /\ status' = "degraded"
  /\ IF failures + 1 = ReregisterAt
       THEN \E r \in Regs : RegSpawn(r)
       ELSE UNCHANGED register
  /\ poll' = "select"
  /\ fetch' = "idle"
  /\ UNCHANGED <<server, main, asked, answer, served, events, installed,
                 polled, shutdown>>

(* A slip: a success does not bring the status back. *)
PollSucceededQuietly ==
  /\ poll = "fetching"
  /\ fetch = "ok"
  /\ IF failures > 0
       THEN ruleVersion' = 0 /\ \E r \in Regs : RegSpawn(r)
       ELSE UNCHANGED <<ruleVersion, register>>
  /\ failures' = 0
  /\ polled' = TRUE
  /\ poll' = "select"
  /\ fetch' = "idle"
  /\ UNCHANGED <<server, main, asked, answer, served, events, targets, status,
                 shutdown>>

(* doPoll after a success.  Coming back from failures, the version is      *)
(* zeroed to force a full pull and the instance registers again.           *)
PollSucceeded ==
  /\ poll = "fetching"
  /\ fetch = "ok"
  /\ IF failures > 0
       THEN ruleVersion' = 0 /\ \E r \in Regs : RegSpawn(r)
       ELSE UNCHANGED <<ruleVersion, register>>
  /\ failures' = 0
  /\ polled' = TRUE
  /\ status' = "connected"
  /\ poll' = "select"
  /\ fetch' = "idle"
  /\ UNCHANGED <<server, main, asked, answer, served, events, targets,
                 shutdown>>

PollExit ==
  /\ poll = "select"
  /\ cancelled
  /\ poll' = "exited"
  /\ UNCHANGED <<server, main, fetching, register, events, failures,
                 installed, shown, shutdown>>

-----------------------------------------------------------------------------
(* listenSSE and sseStream. *)

SSEConnect ==
  /\ sse = "connecting"
  /\ \/ ~cancelled /\ sse' = "open"
     \/ sse' = "pausing"
  /\ UNCHANGED <<server, main, poll, fetching, register, trigger, notified,
                 failures, installed, shown, shutdown>>

(* A slip: the trigger channel has no buffer, so a busy poll loop misses   *)
(* the event.                                                              *)
SSEDeliverUnbuffered ==
  /\ sse = "open"
  /\ stream # <<>>
  /\ notified' = Head(stream)
  /\ stream' = Tail(stream)
  /\ trigger' = (poll = "select")
  /\ UNCHANGED <<published, budget, main, poll, fetching, register, sse,
                 failures, installed, shown, shutdown>>

(* A rules_changed event: a non-blocking send into the trigger channel.    *)
SSEDeliver ==
  /\ sse = "open"
  /\ stream # <<>>
  /\ notified' = Head(stream)
  /\ stream' = Tail(stream)
  /\ trigger' = TRUE
  /\ UNCHANGED <<published, budget, main, poll, fetching, register, sse,
                 failures, installed, shown, shutdown>>

(* The stream ends; what was not read from it is lost.                     *)
SSEDisconnect ==
  /\ sse = "open"
  /\ sse' = "pausing"
  /\ stream' = <<>>
  /\ UNCHANGED <<published, budget, main, poll, fetching, register, trigger,
                 notified, failures, installed, shown, shutdown>>

(* The five seconds before a reconnect, or the context is done.            *)
SSEResume ==
  /\ sse = "pausing"
  /\ \/ sse' = "connecting"
     \/ cancelled /\ sse' = "exited"
  /\ UNCHANGED <<server, main, poll, fetching, register, trigger, notified,
                 failures, installed, shown, shutdown>>

(* A slip: the context is only tested before a reconnect, and the stream's *)
(* request is not tied to it.                                              *)
SSEExitBetweenStreams ==
  /\ cancelled
  /\ sse = "connecting"
  /\ sse' = "exited"
  /\ stream' = <<>>
  /\ UNCHANGED <<published, budget, main, poll, fetching, register, trigger,
                 notified, failures, installed, shown, shutdown>>

(* listenSSE's test of the context, at the top of its loop and after a     *)
(* stream: the stream's request context is cancelled with it.              *)
SSEExit ==
  /\ cancelled
  /\ sse \in {"connecting", "open"}
  /\ sse' = "exited"
  /\ stream' = <<>>
  /\ UNCHANGED <<published, budget, main, poll, fetching, register, trigger,
                 notified, failures, installed, shown, shutdown>>

-----------------------------------------------------------------------------
(* Close, by a holder of the client ConnectManteion returned. *)

CloseCancel ==
  /\ main = "returned"
  /\ closer = "none"
  /\ cancelled' = TRUE
  /\ closer' = "waiting"
  /\ UNCHANGED <<server, main, poll, fetching, register, events, failures,
                 installed, shown>>

(* A slip: registrations are not counted in c.wg. *)
CloseDrainedOfLoops ==
  /\ closer = "waiting"
  /\ poll = "exited"
  /\ sse = "exited"
  /\ closer' = "drained"
  /\ UNCHANGED <<server, main, poll, fetching, register, events, failures,
                 installed, shown, cancelled>>

(* c.wg.Wait() *)
CloseDrained ==
  /\ closer = "waiting"
  /\ poll = "exited"
  /\ sse = "exited"
  /\ \A r \in Regs : reg[r] = "free"
  /\ closer' = "drained"
  /\ UNCHANGED <<server, main, poll, fetching, register, events, failures,
                 installed, shown, cancelled>>

(* The deregister request is best effort: Close returns whatever comes.    *)
CloseDeregister ==
  /\ closer = "drained"
  /\ closer' = "closed"
  /\ UNCHANGED <<server, main, poll, fetching, register, events, failures,
                 installed, shown, cancelled>>

-----------------------------------------------------------------------------
PollStep == PollTick \/ PollTriggered \/ PollFailed \/ PollSucceeded

SSEStep ==
  SSEConnect \/ SSEDeliver \/ SSEDisconnect \/ SSEResume \/ SSEExit

CloseStep == CloseCancel \/ CloseDrained \/ CloseDeregister

Next ==
  \/ Publish \/ MainStep \/ FetchStep \/ PollStep \/ PollExit \/ SSEStep
  \/ CloseStep
  \/ \E r \in Regs : RegStep(r)

Spec == Init /\ [][Next]_vars

(* Goroutines run; a request is answered or fails, by the timeouts of the  *)
(* HTTP client and of register; the ticker fires.  The select of the poll  *)
(* loop and the one in listenSSE's pause choose at random among the ready  *)
(* cases, so a done context is eventually noticed: strong fairness.  No    *)
(* stream is obliged to open, and nobody has to publish or to close.       *)
Fairness ==
  /\ WF_vars(MainStep)
  /\ WF_vars(FetchStep)
  /\ WF_vars(PollStep)
  /\ SF_vars(PollExit)
  /\ SF_vars(SSEExit)
  /\ WF_vars(SSEResume)
  /\ \A r \in Regs : WF_vars(RegStep(r))
  /\ WF_vars(closer # "none" /\ CloseStep)

FairSpec == Spec /\ Fairness

-----------------------------------------------------------------------------
(* Properties.                                                             *)

(* A rules_changed event is never lost (manteion_client.go:205-214 and     *)
(* manteion.go:94-99): the trigger channel holds one signal and the poll   *)
(* loop may be busy, yet after the latest signal a poll is answered, or    *)
(* one is on its way, or polling is failing and being retried.             *)
WakeupNotLost ==
  notified > served =>
    trigger \/ fetch \in {"sent", "failed"} \/ failures > 0

(* Once wg.Wait in Close has returned, no goroutine of the client touches  *)
(* the evaluator or the status again, late registrations included          *)
(* (manteion_client.go:79-82).                                             *)
NothingAfterClose ==
  [][ closer = "drained" \/ closer = "closed" =>
        UNCHANGED <<installed, shown>> ]_vars

(* Close comes back from its wait whatever is in flight.                   *)
CloseComesBack == closer = "waiting" ~> closer = "closed"

(* When the outage ends and manteion stops publishing, the client ends up  *)
(* connected, polling with the published version and with its rules; that  *)
(* is, unless it was closed or a poll cannot decode them.  Failures, the   *)
(* version reset and lost events only delay it, and only a registration    *)
(* may have left other rules behind (manteion_client.go:159-263).          *)
EventuallyInSync ==
  <>[]( \/ main # "returned" \/ cancelled \/ ~Polled(published)
        \/ /\ status = "connected"
           /\ ruleVersion = published
           /\ rules = published \/ installer = "registration" )

(* "ManteionConnected: poll succeeding normally", "ManteionDegraded:       *)
(* recent poll failures; using stale rules" (manteion_client.go:27-28): a  *)
(* client that stays connected ends up with the published rules.           *)
ConnectedRulesAreFresh ==
  <>[]( main = "returned" /\ ~cancelled /\ Polled(published)
        /\ status = "connected" => rules = published )
=============================================================================
