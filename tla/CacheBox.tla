------------------------------ MODULE CacheBox ------------------------------
(***************************************************************************)
(* The cache-box on the egress path: handleCacheBox                        *)
(* (internal/interceptor/cachebox.go) dispatching concurrent requests over *)
(* one store (LRUCache) and one recorder (CacheRecorder), with the admin   *)
(* handler clearing the store and Seed filling it.                         *)
(*                                                                         *)
(* A request is one RoundTrip; its live response is identified with it, so *)
(* an entry names the request it was recorded from.  Entries do not expire *)
(* here: TTL is 0 (MemStore covers expiry).                                *)
(***************************************************************************)
EXTENDS LRUCache

CONSTANTS
  Requests,   \* the requests the rule of this cache-box matches
  TargetOf,   \* the target of each request, [host, path]: method, path and
              \* normalized query are one path
  BodyOf,     \* the body of each request
  NoBody,     \* the empty body
  Unkeyed,    \* bodies longer than MaxBodyBytes, or that cannot be read
  Strategy,   \* cachebox.KeyStrategy
  SeedTargets,\* targets Seed has entries for
  Seeded,     \* the origin of a seeded entry
  Reused,     \* paths a caller may give the URL of an answered request
  Stoppers, BufSize, Nothing

ASSUME RecorderAssumption == BufSize \in Nat \ {0} /\ Nothing \notin Requests

ASSUME RequestsAssumption ==
  /\ Seeded \notin Requests
  /\ \A t \in {TargetOf[r] : r \in Requests} \cup SeedTargets :
       t = [host |-> t.host, path |-> t.path]

VARIABLES
  stage,      \* where each request stands in handleCacheBox
  key,        \* the key derived on the hot path (X-Atropos-Cache-Key)
  served,     \* the origin of the response each request is given
  path,       \* the path of the URL each request points to
  store       \* the MemStore

VARIABLES ch, chClosed, stopped, caller, drain, inHand, stored, dropped,
          stopper, accepted

recorderVars == <<ch, chClosed, stopped, caller, drain, inHand, stored,
                  dropped, stopper, accepted>>
requestVars == <<stage, key, served, path>>
vars == <<requestVars, store, recorderVars>>

Recorder == INSTANCE CacheRecorder WITH Records <- Requests

-----------------------------------------------------------------------------
(* A slip: the body is never looked at.                                    *)
BodyIgnored(r) == NoBody

(* NeedsRequestBody and BufferRequestBody: the body takes part in the key  *)
(* only if the strategy asks for it and it fits.  One that does not, or    *)
(* whose reading fails, is nil in the key, like an empty one, and the      *)
(* request goes on with its action, also with a replay.                    *)
CapturedBody(r) ==
  IF Strategy = "exact_with_body" /\ BodyOf[r] \notin Unkeyed
  THEN BodyOf[r] ELSE NoBody

(* KeyFuncFor(strategy). FNV-1a is taken to be injective. *)
KeyFor(t, body) ==
  CASE Strategy = "exact_with_host" -> <<t.host, t.path>>
    [] Strategy = "exact_with_body" -> <<t.host, t.path, body>>
    [] OTHER -> <<t.path>>

NoKey == <<>>

Init ==
  /\ stage = [r \in Requests |-> "new"]
  /\ key = [r \in Requests |-> NoKey]
  /\ served = [r \in Requests |-> Nothing]
  /\ path = [r \in Requests |-> TargetOf[r].path]
  /\ store = Empty
  /\ Recorder!Init

(* Derive the key and branch on the decision's cache-box action. *)
DispatchForward(r) ==
  LET k == KeyFor(TargetOf[r], CapturedBody(r))
  IN /\ stage[r] = "new"
     /\ key' = [key EXCEPT ![r] = k]
     /\ stage' = [stage EXCEPT ![r] = "forward"]
     /\ \/ UNCHANGED store                              \* passthrough
        \/ ~Hits(store, k, 0) /\ store' = AfterGet(store, k, 0)  \* miss
     /\ UNCHANGED <<served, path, recorderVars>>

DispatchReplay(r) ==
  LET k == KeyFor(TargetOf[r], CapturedBody(r))
  IN /\ stage[r] = "new"
     /\ Hits(store, k, 0)
     /\ key' = [key EXCEPT ![r] = k]
     /\ served' = [served EXCEPT ![r] = EntryAt(store, k).from]
     /\ store' = AfterGet(store, k, 0)
     /\ stage' \in {[stage EXCEPT ![r] = "served"],    \* replay
                    [stage EXCEPT ![r] = "delay"]}     \* replay_with_delay
     /\ UNCHANGED <<path, recorderVars>>

(* The sampled delay elapses, or the request's context ends first. *)
DelayOver(r) ==
  /\ stage[r] = "delay"
  /\ \/ stage' = [stage EXCEPT ![r] = "served"] /\ UNCHANGED served
     \/ /\ stage' = [stage EXCEPT ![r] = "cancelled"]
        /\ served' = [served EXCEPT ![r] = Nothing]
  /\ UNCHANGED <<key, path, store, recorderVars>>

(* base.RoundTrip fails, or its body cannot be read; or the response is    *)
(* over the cap and streamed through unrecorded; or it fits and goes to    *)
(* the recorder.                                                           *)
RoundTrip(r) ==
  /\ stage[r] = "forward"
  /\ \/ stage' = [stage EXCEPT ![r] = "failed"] /\ UNCHANGED served
     \/ /\ stage' \in {[stage EXCEPT ![r] = "served"],
                       [stage EXCEPT ![r] = "recording"]}
        /\ served' = [served EXCEPT ![r] = r]
  /\ UNCHANGED <<key, path, store, recorderVars>>

Record(r) ==
  /\ stage[r] = "recording"
  /\ Recorder!RecordCheck(r) \/ Recorder!RecordSend(r)
  /\ UNCHANGED <<requestVars, store>>

(* handleCacheBox has returned to the application.                         *)
Answered(r) ==
  \/ stage[r] = "served"
  \/ stage[r] = "recording" /\ caller[r] \in {"queued", "dropped", "refused"}

(* The application closes the response's body and sends its request again  *)
(* with another path, as http.RoundTripper allows.                         *)
Reuse(r) ==
  /\ Answered(r)
  /\ path[r] = TargetOf[r].path
  /\ \E p \in Reused : path' = [path EXCEPT ![r] = p]
  /\ UNCHANGED <<stage, key, served, store, recorderVars>>

-----------------------------------------------------------------------------
(* What the recorder's copy of a request (WithContext) still shares with   *)
(* the application's is its URL; its Host and buffered body are its own.   *)
TargetInHand == [TargetOf[inHand] EXCEPT !.path = path[inHand]]

(* A slip: the second derivation is not given the buffered body.           *)
DrainStoreWithoutBody ==
  /\ Recorder!DrainStore
  /\ store' = Put(store, KeyFor(TargetInHand, NoBody),
                  [from |-> inHand, at |-> 0])
  /\ UNCHANGED requestVars

(* The drain goroutine derives the key again, from the request as it is    *)
(* now.                                                                    *)
DrainStore ==
  /\ Recorder!DrainStore
  /\ store' = Put(store, KeyFor(TargetInHand, CapturedBody(inHand)),
                  [from |-> inHand, at |-> 0])
  /\ UNCHANGED requestVars

DrainOther ==
  /\ Recorder!DrainReceive \/ Recorder!DrainPush \/ Recorder!DrainExit
  /\ UNCHANGED <<requestVars, store>>

Stop(s) ==
  /\ Recorder!StopStep(s)
  /\ UNCHANGED <<requestVars, store>>

(* DELETE /admin/cachebox. *)
AdminClear ==
  /\ store' = Empty
  /\ UNCHANGED <<requestVars, recorderVars>>

(* Seed inserts an entry recorded by another process under its own key.    *)
SeedEntry ==
  /\ \E t \in SeedTargets :
       store' = Put(store, KeyFor(t, NoBody), [from |-> Seeded, at |-> 0])
  /\ UNCHANGED <<requestVars, recorderVars>>

Next ==
  \/ \E r \in Requests :
       \/ DispatchForward(r) \/ DispatchReplay(r) \/ DelayOver(r)
       \/ RoundTrip(r) \/ Record(r) \/ Reuse(r)
  \/ DrainStore
  \/ DrainOther
  \/ \E s \in Stoppers : Stop(s)
  \/ AdminClear
  \/ SeedEntry

Spec == Init /\ [][Next]_vars

-----------------------------------------------------------------------------
(* What the strategy identifies a request by (key.go:24-39): method, path  *)
(* and query, from "exact_with_host" on the host too.                      *)
SameTarget(q, r) ==
  /\ TargetOf[q].path = TargetOf[r].path
  /\ Strategy \in {"exact_with_host", "exact_with_body"} =>
       TargetOf[q].host = TargetOf[r].host

(* The key of r names no body, and q or r has one that was not captured.   *)
BodyNotTold(q, r) ==
  /\ CapturedBody(r) = NoBody
  /\ {BodyOf[q], BodyOf[r]} \cap Unkeyed # {}

LeftAlone(q) == path[q] = TargetOf[q].path

(* A replayed answer is that to a request with the same target and, where  *)
(* "the body determines the response" (key.go:34-38), with the same body,  *)
(* whatever the drain goroutine, Seed, Clear and other requests did to the *)
(* store since, as long as the application left the recorded request       *)
(* alone.  In particular a request whose captured body is not empty is     *)
(* never answered with the response to one whose body did not fit.  The    *)
(* exception BodyNotTold is what the code does and its text does not say:  *)
(* requests without a body, with one over MaxBodyBytes and with one that   *)
(* cannot be read have one key (interceptor/cachebox.go:53-64), and the    *)
(* answers of one such request are replayed to the others.                 *)
ReplayAnswersTheSameQuestion ==
  \A r \in Requests :
    LET q == served[r]
    IN  q \in Requests /\ LeftAlone(q) =>
          /\ SameTarget(q, r)
          /\ Strategy = "exact_with_body" /\ ~BodyNotTold(q, r) =>
               BodyOf[q] = BodyOf[r]

(* "The returned string is used both for the local store lookup and as the *)
(* X-Atropos-Cache-Key response header value" (key.go:12-13): hot path and *)
(* drain goroutine derive a key each (interceptor/cachebox.go:64,          *)
(* recorder.go:104),                                                       *)
(* and an entry is stored under the key its own caller was given.  Only of *)
(* a request that was left alone is this true: the drain goroutine reads   *)
(* the URL of one that was reused meanwhile.                               *)
StoredUnderAnnouncedKey ==
  \A i \in DOMAIN store.lru :
    LET q == store.lru[i].entry.from
    IN q \in Requests /\ LeftAlone(q) => store.lru[i].key = key[q]

(* "returns true if the record was queued, false if it was dropped due to  *)
(* backpressure (or if the recorder has been stopped)" (recorder.go:83-85):*)
(* a request whose Record meets a Stop gets an answer all the same.        *)
RecordReturns == Recorder!RecordReturns
=============================================================================
