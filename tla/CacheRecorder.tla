--------------------------- MODULE CacheRecorder ---------------------------
(***************************************************************************)
(* cachebox.Recorder (internal/cachebox/recorder.go): a bounded channel    *)
(* between the request path, which may never block, and one drain          *)
(* goroutine that puts the records in the store and pushes them on.        *)
(*                                                                         *)
(* A record stands for the one call of Record that offers it.              *)
(***************************************************************************)
EXTENDS Naturals, Sequences

CONSTANTS
  Records,   \* the calls of Record, each with its record
  Stoppers,  \* goroutines that call Stop
  BufSize,   \* RecorderConfig.BufSize
  Nothing    \* the drain goroutine holds no record

VARIABLES
  ch,        \* r.ch
  chClosed,  \* close(r.ch) has run
  stopped,   \* r.stopped
  caller,    \* where each call of Record stands
  drain,     \* where the drain goroutine stands
  inHand,    \* the record drain has received
  stored,    \* the records put in the store, in order (recorded = Len)
  dropped,   \* the records counted in r.dropped
  stopper,   \* where each call of Stop stands
  accepted   \* history: the records whose Record returned true, in order

vars == <<ch, chClosed, stopped, caller, drain, inHand, stored, dropped,
          stopper, accepted>>

TypeOK ==
  /\ ch \in Seq(Records)
  /\ chClosed \in BOOLEAN
  /\ stopped \in BOOLEAN
  /\ caller \in [Records -> {"new", "checked", "queued", "dropped", "refused",
                             "panicked"}]
  /\ drain \in {"receiving", "storing", "pushing", "exited"}
  /\ inHand \in Records \cup {Nothing}
  /\ stored \in Seq(Records)
  /\ dropped \in SUBSET Records
  /\ stopper \in [Stoppers -> {"ready", "closing", "waiting", "returned"}]
  /\ accepted \in Seq(Records)

Init ==
  /\ ch = <<>>
  /\ chClosed = FALSE
  /\ stopped = FALSE
  /\ caller = [r \in Records |-> "new"]
  /\ drain = "receiving"
  /\ inHand = Nothing
  /\ stored = <<>>
  /\ dropped = {}
  /\ stopper = [s \in Stoppers |-> "ready"]
  /\ accepted = <<>>

-----------------------------------------------------------------------------
(* Record: stopped.Load(), then a non-blocking send. *)

RecordCheck(r) ==
  /\ caller[r] = "new"
  /\ caller' = [caller EXCEPT ![r] = IF stopped THEN "refused" ELSE "checked"]
  /\ UNCHANGED <<ch, chClosed, stopped, drain, inHand, stored, dropped,
                 stopper, accepted>>

(* select with a default: queued if there is room, counted as dropped if   *)
(* not.  A send on a closed channel panics, even inside a select.          *)
RecordSend(r) ==
  /\ caller[r] = "checked"
  /\ \/ /\ chClosed
        /\ caller' = [caller EXCEPT ![r] = "panicked"]
        /\ UNCHANGED <<ch, dropped, accepted>>
     \/ /\ ~chClosed /\ Len(ch) < BufSize
        /\ ch' = Append(ch, r)
        /\ accepted' = Append(accepted, r)
        /\ caller' = [caller EXCEPT ![r] = "queued"]
        /\ UNCHANGED dropped
     \/ /\ ~chClosed /\ Len(ch) >= BufSize
        /\ dropped' = dropped \cup {r}
        /\ caller' = [caller EXCEPT ![r] = "dropped"]
        /\ UNCHANGED <<ch, accepted>>
  /\ UNCHANGED <<chClosed, stopped, drain, inHand, stored, stopper>>

-----------------------------------------------------------------------------
(* drain: range over the channel until it is closed and empty. *)

(* A slip: the newest record first.                                        *)
DrainReceiveNewest ==
  /\ drain = "receiving"
  /\ ch # <<>>
  /\ inHand' = ch[Len(ch)]
  /\ ch' = SubSeq(ch, 1, Len(ch) - 1)
  /\ drain' = "storing"
  /\ UNCHANGED <<chClosed, stopped, caller, stored, dropped, stopper, accepted>>

(* A slip: the record goes to the hook without being stored.               *)
DrainReceiveForPush ==
  /\ drain = "receiving"
  /\ ch # <<>>
  /\ inHand' = Head(ch)
  /\ ch' = Tail(ch)
  /\ drain' = "pushing"
  /\ UNCHANGED <<chClosed, stopped, caller, stored, dropped, stopper, accepted>>

DrainReceive ==
  /\ drain = "receiving"
  /\ ch # <<>>
  /\ inHand' = Head(ch)
  /\ ch' = Tail(ch)
  /\ drain' = "storing"
  /\ UNCHANGED <<chClosed, stopped, caller, stored, dropped, stopper, accepted>>

(* store.Put and recorded.Add(1). *)
DrainStore ==
  /\ drain = "storing"
  /\ stored' = Append(stored, inHand)
  /\ drain' = "pushing"
  /\ UNCHANGED <<ch, chClosed, stopped, caller, inHand, dropped, stopper,
                 accepted>>

(* The push hook, if any, runs in the drain goroutine. *)
DrainPush ==
  /\ drain = "pushing"
  /\ inHand' = Nothing
  /\ drain' = "receiving"
  /\ UNCHANGED <<ch, chClosed, stopped, caller, stored, dropped, stopper,
                 accepted>>

(* A slip: the goroutine leaves as soon as Stop was called.                *)
DrainExitEarly ==
  /\ drain = "receiving"
  /\ stopped
  /\ drain' = "exited"
  /\ UNCHANGED <<ch, chClosed, stopped, caller, inHand, stored, dropped,
                 stopper, accepted>>

DrainExit ==
  /\ drain = "receiving"
  /\ ch = <<>>
  /\ chClosed
  /\ drain' = "exited"
  /\ UNCHANGED <<ch, chClosed, stopped, caller, inHand, stored, dropped,
                 stopper, accepted>>

-----------------------------------------------------------------------------
(* Stop: the first caller closes the channel and waits for drain. *)

StopBegin(s) ==
  /\ stopper[s] = "ready"
  /\ stopped' = TRUE
  /\ stopper' = [stopper EXCEPT ![s] = IF stopped THEN "returned"
                                                  ELSE "closing"]
  /\ UNCHANGED <<ch, chClosed, caller, drain, inHand, stored, dropped,
                 accepted>>

StopClose(s) ==
  /\ stopper[s] = "closing"
  /\ chClosed' = TRUE
  /\ stopper' = [stopper EXCEPT ![s] = "waiting"]
  /\ UNCHANGED <<ch, stopped, caller, drain, inHand, stored, dropped,
                 accepted>>

StopReturn(s) ==
  /\ stopper[s] = "waiting"
  /\ drain = "exited"
  /\ stopper' = [stopper EXCEPT ![s] = "returned"]
  /\ UNCHANGED <<ch, chClosed, stopped, caller, drain, inHand, stored,
                 dropped, accepted>>

-----------------------------------------------------------------------------
DrainStep == DrainReceive \/ DrainStore \/ DrainPush \/ DrainExit

StopStep(s) == StopBegin(s) \/ StopClose(s) \/ StopReturn(s)

Next ==
  \/ \E r \in Records : RecordCheck(r) \/ RecordSend(r)
  \/ DrainStep
  \/ \E s \in Stoppers : StopStep(s)

Spec == Init /\ [][Next]_vars

-----------------------------------------------------------------------------
Held == IF drain = "storing" THEN <<inHand>> ELSE <<>>

(* What was accepted is what was stored, what drain holds and what the     *)
(* channel holds, in the order of acceptance: no record is lost, stored    *)
(* twice or overtaken, in whatever order Record, drain and Stop run        *)
(* (recorder.go:86-123).                                                   *)
AcceptedInOrder == accepted = stored \o Held \o ch

(* Stop "blocks until the drain goroutine exits" (recorder.go:125-127): a  *)
(* Stop that waited returns with everything ever accepted in the store.    *)
StopDrains ==
  [][ \A s \in Stoppers :
        stopper[s] = "waiting" /\ stopper'[s] = "returned"
        => accepted = stored ]_vars

(* Record "returns true if the record was queued, false if it was dropped  *)
(* due to backpressure (or if the recorder has been stopped)"              *)
(* (recorder.go:83-85): a call that meets a Stop returns all the same.     *)
RecordReturns == \A r \in Records : caller[r] # "panicked"
=============================================================================
