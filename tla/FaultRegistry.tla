--------------------------- MODULE FaultRegistry ---------------------------
(***************************************************************************)
(* The registry that deduplicates service-scoped faults                    *)
(* (internal/interceptor/registry.go), together with the two pieces of     *)
(* code it runs against: the fault Handle whose result callback it borrows *)
(* (internal/fault/fault.go) and Interceptor.startRegistered, the caller   *)
(* that starts the fault and opens its span                                *)
(* (internal/interceptor/interceptor.go).                                  *)
(*                                                                         *)
(* A call is one goroutine running startRegistered.  It starts at most one *)
(* fault, so the fault, its Handle and its span carry the call's name.     *)
(* The fault itself runs in its own goroutine, and Close in a third.       *)
(***************************************************************************)
EXTENDS Naturals, FiniteSets

CONSTANTS
  Calls,          \* invocations of startRegistered
  Keys,           \* registry keys (rule name, or fault type if unnamed)
  KeyOf,          \* the key of each call
  PolicyOf,       \* the StartPolicy of each call
  FinishesEarly,  \* calls whose fault may end before StartOrJoin returns
  LongRunning,    \* calls whose fault ends only when its context is done
  Closers,        \* goroutines that call Close
  None            \* no call: a free lock, an absent map entry

StartPolicy == {"DeduplicateByRule", "DeduplicateByType", "AlwaysStart"}

ASSUME CallsAssumption ==
  /\ IsFiniteSet(Calls)
  /\ None \notin Calls

ASSUME CallShapeAssumption ==
  /\ KeyOf \in [Calls -> Keys]
  /\ PolicyOf \in [Calls -> StartPolicy]
  /\ FinishesEarly \subseteq Calls
  /\ LongRunning \subseteq Calls

VARIABLES
  mu,        \* the call holding r.mu across its startFn, or None
  active,    \* r.active: key -> the call whose entry is there, or None
  wg,        \* the counter of r.wg
  closed,    \* r.closed
  cancelled, \* r.ctx is done
  pc,        \* where each call stands in StartOrJoin
  fault,     \* where the goroutine of each call's fault stands
  callback,  \* Handle.onResult of each call's fault
  firing,    \* the callback Send has loaded
  stopped,   \* calls whose Handle.Stop was called
  span,      \* the fault span of each call
  closer     \* where each Close stands

vars == <<mu, active, wg, closed, cancelled, pc, fault, callback, firing,
          stopped, span, closer>>

Callback == {"nil", "span", "release"}

TypeOK ==
  /\ mu \in Calls \cup {None}
  /\ active \in [Keys -> Calls \cup {None}]
  /\ wg \in Nat
  /\ closed \in BOOLEAN
  /\ cancelled \in BOOLEAN
  /\ pc \in [Calls -> {"ready", "starting", "spanned", "track", "hook",
                       "started", "joined", "failed"}]
  /\ fault \in [Calls -> {"none", "running", "sending", "released", "called",
                          "done"}]
  /\ callback \in [Calls -> Callback]
  /\ firing \in [Calls -> Callback]
  /\ stopped \in SUBSET Calls
  /\ span \in [Calls -> {"none", "open", "ended"}]
  /\ closer \in [Closers -> {"ready", "cancelling", "waiting", "returned"}]

Init ==
  /\ mu = None
  /\ active = [k \in Keys |-> None]
  /\ wg = 0
  /\ closed = FALSE
  /\ cancelled = FALSE
  /\ pc = [c \in Calls |-> "ready"]
  /\ fault = [c \in Calls |-> "none"]
  /\ callback = [c \in Calls |-> "nil"]
  /\ firing = [c \in Calls |-> "nil"]
  /\ stopped = {}
  /\ span = [c \in Calls |-> "none"]
  /\ closer = [k \in Closers |-> "ready"]

(* Every policy but AlwaysStart takes the deduplicating path. *)
Dedup(c) == PolicyOf[c] # "AlwaysStart"

-----------------------------------------------------------------------------
(* StartOrJoin, as startRegistered calls it. *)

(* The key is taken: unlock and return (nil, true, nil). *)
Join(c) ==
  /\ pc[c] = "ready"
  /\ Dedup(c)
  /\ mu = None
  /\ active[KeyOf[c]] # None
  /\ pc' = [pc EXCEPT ![c] = "joined"]
  /\ UNCHANGED <<mu, active, wg, closed, cancelled, fault, callback, firing,
                 stopped, span, closer>>

(* A slip: the key is checked, but startFn runs with r.mu released. *)
BeginStartUnlocked(c) ==
  /\ pc[c] = "ready"
  /\ Dedup(c) => mu = None /\ active[KeyOf[c]] = None
  /\ pc' = [pc EXCEPT ![c] = "starting"]
  /\ UNCHANGED <<mu, active, wg, closed, cancelled, fault, callback, firing,
                 stopped, span, closer>>

(* The key is free: keep r.mu and enter startFn.  AlwaysStart has no lock. *)
BeginStart(c) ==
  /\ pc[c] = "ready"
  /\ Dedup(c) => mu = None /\ active[KeyOf[c]] = None
  /\ mu' = IF Dedup(c) THEN c ELSE mu
  /\ pc' = [pc EXCEPT ![c] = "starting"]
  /\ UNCHANGED <<active, wg, closed, cancelled, fault, callback, firing,
                 stopped, span, closer>>

(* startFn: open the span, Fault.Start(regCtx) succeeds and leaves a       *)
(* goroutine running.                                                      *)
RunStartFn(c) ==
  /\ pc[c] = "starting"
  /\ span' = [span EXCEPT ![c] = "open"]
  /\ fault' = [fault EXCEPT ![c] = "running"]
  /\ pc' = [pc EXCEPT ![c] = "spanned"]
  /\ UNCHANGED <<mu, active, wg, closed, cancelled, callback, firing,
                 stopped, closer>>

(* startFn: Fault.Start failed; EndWithError, unlock, return the error. *)
StartFnFails(c) ==
  /\ pc[c] = "starting"
  /\ span' = [span EXCEPT ![c] = "ended"]
  /\ pc' = [pc EXCEPT ![c] = "failed"]
  /\ mu' = IF Dedup(c) THEN None ELSE mu
  /\ UNCHANGED <<active, wg, closed, cancelled, fault, callback, firing,
                 stopped, closer>>

(* startFn: SetOnResult(span.RecordResult), still inside the lock. *)
HookSpan(c) ==
  /\ pc[c] = "spanned"
  /\ callback' = [callback EXCEPT ![c] = "span"]
  /\ pc' = [pc EXCEPT ![c] = "track"]
  /\ UNCHANGED <<mu, active, wg, closed, cancelled, fault, firing, stopped,
                 span, closer>>

(* Enter the key, wg.Add(1), unlock; AlwaysStart only adds to wg. *)
Track(c) ==
  /\ pc[c] = "track"
  /\ wg' = wg + 1
  /\ IF Dedup(c)
       THEN /\ active' = [active EXCEPT ![KeyOf[c]] = c]
            /\ mu' = None
       ELSE UNCHANGED <<active, mu>>
  /\ pc' = [pc EXCEPT ![c] = "hook"]
  /\ UNCHANGED <<closed, cancelled, fault, callback, firing, stopped, span,
                 closer>>

(* SetOnResult(cleanup) replaces the callback startFn left, and the call   *)
(* returns the handle.                                                     *)
HookRelease(c) ==
  /\ pc[c] = "hook"
  /\ callback' = [callback EXCEPT ![c] = "release"]
  /\ pc' = [pc EXCEPT ![c] = "started"]
  /\ UNCHANGED <<mu, active, wg, closed, cancelled, fault, firing, stopped,
                 span, closer>>

(* Handle.Stop, by whoever received the handle. *)
Stop(c) ==
  /\ pc[c] = "started"
  /\ stopped' = stopped \cup {c}
  /\ UNCHANGED <<mu, active, wg, closed, cancelled, pc, fault, callback,
                 firing, span, closer>>

-----------------------------------------------------------------------------
(* The goroutine of a fault: Handle.Send once its work is over. *)

ContextDone(c) == cancelled \/ c \in stopped

(* The fault's work ends and Send loads the callback. *)
SendLoad(c) ==
  /\ fault[c] = "running"
  /\ c \in LongRunning => ContextDone(c)
  /\ c \in FinishesEarly \/ pc[c] = "started"
  /\ firing' = [firing EXCEPT ![c] = callback[c]]
  /\ fault' = [fault EXCEPT ![c] = "sending"]
  /\ UNCHANGED <<mu, active, wg, closed, cancelled, pc, callback, stopped,
                 span, closer>>

(* No callback, or span.RecordResult, which ends the span.                 *)
SendPlain(c) ==
  /\ fault[c] = "sending"
  /\ firing[c] # "release"
  /\ span' = IF firing[c] = "span" THEN [span EXCEPT ![c] = "ended"] ELSE span
  /\ fault' = [fault EXCEPT ![c] = "called"]
  /\ UNCHANGED <<mu, active, wg, closed, cancelled, pc, callback, firing,
                 stopped, closer>>

(* The cleanup callback takes r.mu and deletes the key. *)
ReleaseKey(c) ==
  /\ fault[c] = "sending"
  /\ firing[c] = "release"
  /\ IF Dedup(c)
       THEN /\ mu = None
            /\ active' = [active EXCEPT ![KeyOf[c]] = None]
       ELSE UNCHANGED active
  /\ fault' = [fault EXCEPT ![c] = "released"]
  /\ UNCHANGED <<mu, wg, closed, cancelled, pc, callback, firing, stopped,
                 span, closer>>

(* A slip: wg.Done() is called twice. *)
WaitGroupDoneTwice(c) ==
  /\ fault[c] = "released"
  /\ wg' = wg - 2
  /\ fault' = [fault EXCEPT ![c] = "called"]
  /\ UNCHANGED <<mu, active, closed, cancelled, pc, callback, firing, stopped,
                 span, closer>>

(* ... and then calls wg.Done(), and the callback returns to Send. *)
WaitGroupDone(c) ==
  /\ fault[c] = "released"
  /\ wg' = wg - 1
  /\ fault' = [fault EXCEPT ![c] = "called"]
  /\ UNCHANGED <<mu, active, closed, cancelled, pc, callback, firing, stopped,
                 span, closer>>

(* Send, after the callback: done <- r into a channel of capacity one,     *)
(* which never blocks.                                                     *)
SendResult(c) ==
  /\ fault[c] = "called"
  /\ fault' = [fault EXCEPT ![c] = "done"]
  /\ UNCHANGED <<mu, active, wg, closed, cancelled, pc, callback, firing,
                 stopped, span, closer>>

-----------------------------------------------------------------------------
(* Close. *)

CloseBegin(k) ==
  /\ closer[k] = "ready"
  /\ mu = None
  /\ closed' = TRUE
  /\ closer' = [closer EXCEPT ![k] = IF closed THEN "returned"
                                               ELSE "cancelling"]
  /\ UNCHANGED <<mu, active, wg, cancelled, pc, fault, callback, firing,
                 stopped, span>>

(* A slip: Close forgets to cancel r.ctx. *)
CloseCancelForgets(k) ==
  /\ closer[k] = "cancelling"
  /\ closer' = [closer EXCEPT ![k] = "waiting"]
  /\ UNCHANGED <<mu, active, wg, closed, cancelled, pc, fault, callback,
                 firing, stopped, span>>

CloseCancel(k) ==
  /\ closer[k] = "cancelling"
  /\ cancelled' = TRUE
  /\ closer' = [closer EXCEPT ![k] = "waiting"]
  /\ UNCHANGED <<mu, active, wg, closed, pc, fault, callback, firing, stopped,
                 span>>

(* A slip: Close does not wait for r.wg. *)
CloseReturnAtOnce(k) ==
  /\ closer[k] = "waiting"
  /\ closer' = [closer EXCEPT ![k] = "returned"]
  /\ UNCHANGED <<mu, active, wg, closed, cancelled, pc, fault, callback,
                 firing, stopped, span>>

CloseReturn(k) ==
  /\ closer[k] = "waiting"
  /\ wg = 0
  /\ closer' = [closer EXCEPT ![k] = "returned"]
  /\ UNCHANGED <<mu, active, wg, closed, cancelled, pc, fault, callback,
                 firing, stopped, span>>

-----------------------------------------------------------------------------
CallStep(c) ==
  \/ Join(c) \/ BeginStart(c) \/ RunStartFn(c) \/ StartFnFails(c)
  \/ HookSpan(c) \/ Track(c) \/ HookRelease(c)

FaultStep(c) ==
  \/ SendLoad(c) \/ SendPlain(c) \/ ReleaseKey(c) \/ WaitGroupDone(c)
  \/ SendResult(c)

CloseStep(k) == CloseBegin(k) \/ CloseCancel(k) \/ CloseReturn(k)

Next ==
  \/ \E c \in Calls : CallStep(c) \/ FaultStep(c) \/ Stop(c)
  \/ \E k \in Closers : CloseStep(k)

Spec == Init /\ [][Next]_vars

(* A call inside StartOrJoin and a fault goroutine keep running (the Go    *)
(* scheduler), and a Close that has begun goes on.  Nobody is obliged to   *)
(* call Stop or Close.  r.mu is free infinitely often and Go's mutex does  *)
(* not starve a waiter, hence the strong fairness of the steps that take   *)
(* it; a call that is never made is not forced.                            *)
Fairness ==
  /\ \A c \in Calls : WF_vars(pc[c] # "ready" /\ CallStep(c))
  /\ \A c \in Calls : SF_vars(FaultStep(c))
  /\ \A k \in Closers : WF_vars(closer[k] # "ready" /\ CloseStep(k))

FairSpec == Spec /\ Fairness

-----------------------------------------------------------------------------
(* Properties.                                                             *)

Tracked(c) == pc[c] \in {"hook", "started"}

(* The cleanup callback has returned; the result may still be unsent. *)
CleanedUp(c) == fault[c] \in {"called", "done"} /\ firing[c] = "release"

(* The cleanup callback has run its first half. *)
Released(c) == fault[c] = "released" \/ CleanedUp(c)

(* Deduplication (registry.go:67-81): two faults started under one key     *)
(* never run at the same time, whatever the interleaving of StartOrJoin,   *)
(* of the faults' completions and of Close.                                *)
DedupExclusive ==
  \A c, d \in Calls :
    /\ c # d
    /\ Dedup(c) /\ Dedup(d)
    /\ KeyOf[c] = KeyOf[d]
    /\ fault[c] = "running"
    => fault[d] # "running"

(* The cleanup deletes by key, not by handle (registry.go:80): it must     *)
(* still never take the entry of a later fault away.  A tracked fault that *)
(* has not been cleaned up finds its own entry under its key.              *)
KeyHeldByItsFault ==
  \A c \in Calls :
    Dedup(c) /\ Tracked(c) /\ ~Released(c) => active[KeyOf[c]] = c

(* r.wg counts exactly the tracked faults whose cleanup has not finished,  *)
(* so Done never drives it negative (a panic) and Wait never misses one.   *)
Outstanding == {c \in Calls : Tracked(c) /\ ~CleanedUp(c)}

WaitGroupExact == wg = Cardinality(Outstanding)

(* "waits for every tracked fault to drain" (registry.go:85-86).  At the   *)
(* instant at which a Close that waited returns, the cleanup of every      *)
(* fault that was counted into r.wg has returned, on the fault's own       *)
(* goroutine, and no such fault has a key.  Not more: wg.Done (line 82) is *)
(* called from the callback, before Send delivers the result               *)
(* (fault.go:89-92), which may be outstanding; and a fault whose call has  *)
(* not reached wg.Add is not waited for.                                   *)
CloseReturnsDrained ==
  [][ \A k \in Closers :
        closer[k] = "waiting" /\ closer'[k] = "returned" =>
          \A c \in Calls :
            Tracked(c) => CleanedUp(c) /\ active[KeyOf[c]] # c ]_vars

(* A fault that ended before StartOrJoin registered its cleanup.           *)
CleanupMissed == \E c \in Calls : fault[c] = "done" /\ firing[c] # "release"

(* Close comes back: the cancellation reaches the long-running faults and  *)
(* each of them is counted down (registry.go:88-101), unless a fault       *)
(* escaped its cleanup.                                                    *)
CloseComesBack ==
  \A k \in Closers :
    closer[k] = "waiting" ~> closer[k] = "returned" \/ CleanupMissed

(* "After the fault completes the key is freed" as a state predicate: a    *)
(* completed fault whose StartOrJoin has returned holds no key.            *)
KeyFreedAfterFault ==
  \A c \in Calls :
    fault[c] = "done" /\ pc[c] = "started" => active[KeyOf[c]] # c

-----------------------------------------------------------------------------
(* What the registry promises, with active as the owner of each key.       *)
Outcome(c) ==
  IF Tracked(c) THEN "started"
  ELSE IF pc[c] \in {"joined", "failed"} THEN pc[c] ELSE "pending"

Abstract == INSTANCE KeyedFaults
              WITH owner <- active,
                   outcome <- [c \in Calls |-> Outcome(c)]

(* Every step of the registry is a step of the abstract keyed exclusion or *)
(* leaves its state alone: in particular a call is answered "joined" only  *)
(* at an instant at which another fault owns the key.                      *)
ImplementsKeyedFaults == Abstract!Spec
=============================================================================
