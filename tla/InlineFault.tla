----------------------------- MODULE InlineFault -----------------------------
(***************************************************************************)
(* The inline faults (internal/fault/inline): Latency, Error and Hang,     *)
(* each a goroutine that waits for one event and sends a result.           *)
(***************************************************************************)
EXTENDS Integers, FaultContext

CONSTANTS
  Duration,  \* of a Hang
  Delays     \* what Delay + rand(Jitter) may be

VARIABLES
  kind,   \* the fault that was started
  delay,  \* of a Latency
  run,    \* where its goroutine stands
  clock   \* time since it started

vars == <<kind, delay, run, clock, contexts, err>>

Init ==
  /\ kind = "none" /\ delay = 0 /\ run = "idle" /\ clock = 0
  /\ ContextInit

(* Only Hang puts a deadline on its context.                               *)
Start(k) ==
  /\ run = "idle"
  /\ kind' = k
  /\ delay' \in IF k = "latency" THEN Delays ELSE {0}
  /\ run' = "running"
  /\ UNCHANGED <<clock, contexts, err>>

(* Time past the last timer tells nothing apart.                           *)
Tick ==
  /\ run = "running"
  /\ clock < (IF kind = "hang" THEN Duration ELSE delay)
  /\ clock' = clock + 1
  /\ ownErr' = IF kind = "hang" /\ clock' = Duration THEN Expired ELSE ownErr
  /\ UNCHANGED <<kind, delay, run, ctxErr, err>>

Interrupt ==
  /\ run = "running"
  /\ Cancel \/ CallerEnds
  /\ UNCHANGED <<kind, delay, run, clock, err>>

Send(e) == run' = "sent" /\ err' = e /\ UNCHANGED <<kind, delay, clock, contexts>>

(* An Error's effect is the detail of its result, not its Err; a Hang that *)
(* lasted its whole duration reports the deadline; when timer and context  *)
(* are both ready the select of Latency chooses at random.                 *)
SendResult ==
  /\ run = "running"
  /\ \/ kind = "error" /\ Send("nil")
     \/ kind = "hang" /\ ContextDone /\ Send(ownErr)
     \/ kind = "latency" /\ clock >= delay /\ Send("nil")
     \/ kind = "latency" /\ ContextDone /\ Send(ownErr)

Kinds == {"latency", "error", "hang"}

Next ==
  \/ \E k \in Kinds : Start(k)
  \/ Tick \/ Interrupt \/ SendResult

Fairness == WF_vars(Tick) /\ WF_vars(SendResult)
=============================================================================
