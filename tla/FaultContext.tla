----------------------------- MODULE FaultContext -----------------------------
(***************************************************************************)
(* The two contexts of a running fault: the one its caller passed to Start *)
(* and the one Start derives from it with context.WithTimeout, whose       *)
(* cancel function is Handle.Stop (internal/fault/fault.go).               *)
(***************************************************************************)
VARIABLES
  ctxErr,  \* ctx.Err(), the caller's
  ownErr,  \* throttleCtx.Err()
  err      \* Err of the result that was sent

contexts == <<ctxErr, ownErr>>

Errors == {"nil", "Canceled", "DeadlineExceeded"}

ContextInit == ctxErr = "nil" /\ ownErr = "nil" /\ err = "nil"

(* <-throttleCtx.Done() can be received.                                   *)
ContextDone == ownErr # "nil"

(* cancel(): Handle.Stop, or the fault's own deferred call.                *)
Cancel ==
  /\ ~ContextDone
  /\ ownErr' = "Canceled"
  /\ UNCHANGED ctxErr

(* The caller's context ends, and the derived one with it.                 *)
CallerEnds ==
  /\ ctxErr = "nil"
  /\ ctxErr' \in Errors \ {"nil"}
  /\ ownErr' = IF ContextDone THEN ownErr ELSE ctxErr'

(* What the deadline does when the clock gets there.                       *)
Expired == IF ContextDone THEN ownErr ELSE "DeadlineExceeded"

(* A slip: the end of the derived context is taken for a failure.          *)
StressErrOfOwn == ownErr

(* if ctx.Err() != nil && throttleCtx.Err() == context.Canceled            *)
StressErr == IF ownErr = "Canceled" THEN ctxErr ELSE "nil"
=============================================================================
