----------------------------- MODULE CachePush -----------------------------
(***************************************************************************)
(* CachePushClient (cache_push.go): entries are gathered in a batch that   *)
(* is posted when it is full or when its timer expires, each post in a     *)
(* goroutine of its own, and the last batch by Stop.                       *)
(*                                                                         *)
(* time.AfterFunc runs the callback in a goroutine that must still take    *)
(* c.mu, and Timer.Stop does not recall one that has started: between the  *)
(* expiry and the lock anything may happen to the batch.                   *)
(***************************************************************************)
EXTENDS Naturals, FiniteSets

CONSTANTS
  Entries,   \* the calls of add, each with its entry
  MaxBatch,  \* CachePushConfig.MaxBatch
  Stoppers,  \* goroutines that call Stop
  NoTimer    \* c.timer is nil

PushConfigOK == MaxBatch \in Nat \ {0} /\ NoTimer \notin Entries

VARIABLES
  added,     \* the entries add has been called with
  accepted,  \* ... and that found the client not stopped
  batch,     \* c.batch
  timer,     \* c.timer, named for the entry that armed it
  expired,   \* timers that have gone off
  callbacks, \* timers whose callback waits for c.mu
  flights,   \* the batches of post goroutines under way
  pushed,    \* entries counted in c.pushed
  dropped,   \* entries counted in c.dropped
  stopped,   \* c.stopped
  stopper,   \* where each Stop stands
  lastBatch  \* the batch the first Stop posts itself

vars == <<added, accepted, batch, timer, expired, callbacks, flights, pushed,
          dropped, stopped, stopper, lastBatch>>

Init ==
  /\ added = {}
  /\ accepted = {}
  /\ batch = {}
  /\ timer = NoTimer
  /\ expired = {}
  /\ callbacks = {}
  /\ flights = {}
  /\ pushed = {}
  /\ dropped = {}
  /\ stopped = FALSE
  /\ stopper = [s \in Stoppers |-> "ready"]
  /\ lastBatch = {}

-----------------------------------------------------------------------------
(* A slip: the batch is posted and kept.                                   *)
FlushKeepsBatch(b) ==
  /\ flights' = flights \cup {b}
  /\ batch' = b
  /\ timer' = NoTimer

(* A slip: c.timer is not reset, so that the next batch arms none.         *)
FlushKeepsTimer(b) ==
  /\ flights' = flights \cup {b}
  /\ batch' = {}
  /\ UNCHANGED timer

(* flushLocked on a batch that is not empty. *)
Flush(b) ==
  /\ flights' = flights \cup {b}
  /\ batch' = {}
  /\ timer' = NoTimer

IsFull(b) == Cardinality(b) >= MaxBatch

(* add, one critical section of c.mu. *)

AddRefused(e) ==
  /\ e \notin added
  /\ stopped
  /\ added' = added \cup {e}
  /\ UNCHANGED <<accepted, batch, timer, expired, callbacks, flights, pushed,
                 dropped, stopped, stopper, lastBatch>>

Add(e) ==
  /\ e \notin added
  /\ ~stopped
  /\ added' = added \cup {e}
  /\ accepted' = accepted \cup {e}
  /\ LET b == batch \cup {e}
     IN IF IsFull(b)
        THEN Flush(b)
        ELSE /\ batch' = b
             /\ timer' = IF timer = NoTimer THEN e ELSE timer
             /\ UNCHANGED flights
  /\ UNCHANGED <<expired, callbacks, pushed, dropped, stopped, stopper,
                 lastBatch>>

(* MaxWait has elapsed since the timer was armed. *)
TimerExpires ==
  /\ timer \in Entries \ expired
  /\ expired' = expired \cup {timer}
  /\ callbacks' = callbacks \cup {timer}
  /\ UNCHANGED <<added, accepted, batch, timer, flights, pushed, dropped,
                 stopped, stopper, lastBatch>>

(* The callback of timer t gets c.mu and flushes whatever batch it finds.  *)
Callback(t) ==
  /\ t \in callbacks
  /\ callbacks' = callbacks \ {t}
  /\ IF ~stopped /\ batch # {}
     THEN Flush(batch)
     ELSE UNCHANGED <<flights, batch, timer>>
  /\ UNCHANGED <<added, accepted, expired, pushed, dropped, stopped, stopper,
                 lastBatch>>

(* post: a 2xx answer counts the batch as pushed, everything else (a       *)
(* marshalling error, a timeout, a status) as dropped.  No retry.          *)
Posted(b) ==
  \/ pushed' = pushed \cup b /\ UNCHANGED dropped
  \/ dropped' = dropped \cup b /\ UNCHANGED pushed

PostDone(b) ==
  /\ b \in flights
  /\ Posted(b)
  /\ flights' = flights \ {b}
  /\ UNCHANGED <<added, accepted, batch, timer, expired, callbacks, stopped,
                 stopper, lastBatch>>

-----------------------------------------------------------------------------
(* Stop: take the batch under the lock, post it without. *)
StopBegin(s) ==
  /\ stopper[s] = "ready"
  /\ IF stopped
     THEN /\ stopper' = [stopper EXCEPT ![s] = "returned"]
          /\ UNCHANGED <<stopped, timer, batch, lastBatch>>
     ELSE /\ stopped' = TRUE
          /\ timer' = NoTimer
          /\ lastBatch' = batch
          /\ batch' = {}
          /\ stopper' = [stopper EXCEPT ![s] = "posting"]
  /\ UNCHANGED <<added, accepted, expired, callbacks, flights, pushed, dropped>>

StopReturn(s) ==
  /\ stopper[s] = "posting"
  /\ IF lastBatch = {} THEN UNCHANGED <<pushed, dropped>> ELSE Posted(lastBatch)
  /\ lastBatch' = {}
  /\ stopper' = [stopper EXCEPT ![s] = "returned"]
  /\ UNCHANGED <<added, accepted, batch, timer, expired, callbacks, flights,
                 stopped>>

-----------------------------------------------------------------------------
(* What the client does apart from being called by the drain goroutine.    *)
ClientStep ==
  \/ TimerExpires
  \/ \E e \in Entries : Callback(e)
  \/ \E b \in flights : PostDone(b)
  \/ \E s \in Stoppers : StopBegin(s) \/ StopReturn(s)

(* Timers go off, goroutines run, and post has a deadline of five seconds. *)
Fairness ==
  /\ WF_vars(TimerExpires)
  /\ \A e \in Entries : WF_vars(Callback(e))
  /\ WF_vars(\E b \in flights : PostDone(b))
  /\ \A s \in Stoppers : WF_vars(StopReturn(s))

-----------------------------------------------------------------------------
(* Every accepted entry is in exactly one place: the batch, one post under *)
(* way, Stop's own post, or one of the two counters (cache_push.go:105-192)*)
EntriesConserved ==
  LET posting == UNION flights
      counted == pushed \cup dropped
  IN  /\ accepted = batch \cup lastBatch \cup posting \cup counted
      /\ batch \cap (lastBatch \cup posting \cup counted) = {}
      /\ lastBatch \cap (posting \cup counted) = {}
      /\ posting \cap counted = {}
      /\ pushed \cap dropped = {}
      /\ \A a, b \in flights : a # b => a \cap b = {}

(* A batch is never left without a way out: as long as the client runs, a  *)
(* batch that waits has a timer that will expire, or the callback of that  *)
(* very timer is on its way (cache_push.go:118-128, 137-140).              *)
BatchHasTimer ==
  ~stopped =>
    /\ batch = {} <=> timer = NoTimer
    /\ batch # {} =>
         timer \in batch /\ (timer \in expired => timer \in callbacks)
=============================================================================
