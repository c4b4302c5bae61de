------------------------------ MODULE FaultLife ------------------------------
(***************************************************************************)
(* What every fault promises to who starts it (the interface fault.Fault   *)
(* and Handle, internal/fault/fault.go:42-93): Start refuses or returns a  *)
(* handle; the handle yields one result; by then nothing of the fault runs *)
(* any more; the result's error is nil or that of a context that ended;    *)
(* and a fault does not run for ever.                                      *)
(***************************************************************************)
EXTENDS FaultContext

VARIABLES
  stage,  \* "idle", "refused", "running", "ended"
  busy    \* something of the fault is at work

lifeVars == <<stage, busy, contexts, err>>

LifeInit == stage = "idle" /\ busy = FALSE /\ ContextInit

Refuse ==
  /\ stage = "idle"
  /\ stage' = "refused"
  /\ UNCHANGED <<busy, contexts, err>>

Begin ==
  /\ stage = "idle"
  /\ stage' = "running"
  /\ busy' \in BOOLEAN
  /\ UNCHANGED <<contexts, err>>

ContextsMove ==
  /\ \/ Cancel \/ CallerEnds
     \/ ~ContextDone /\ ownErr' = Expired /\ UNCHANGED ctxErr
  /\ UNCHANGED <<stage, busy, err>>

Work ==
  /\ stage = "running"
  /\ busy' # busy
  /\ UNCHANGED <<stage, contexts, err>>

Finish ==
  /\ stage = "running"
  /\ stage' = "ended"
  /\ busy' = FALSE
  /\ err' \in {"nil", ctxErr, ownErr}
  /\ UNCHANGED contexts

LifeNext == Refuse \/ Begin \/ ContextsMove \/ Work \/ Finish

LifeSpec == LifeInit /\ [][LifeNext]_lifeVars /\ WF_lifeVars(Finish)
=============================================================================
