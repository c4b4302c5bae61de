---------------------------- MODULE CachePipeline ----------------------------
(***************************************************************************)
(* From a recorded response to the control plane: the Recorder, whose      *)
(* drain goroutine puts each record in the store and calls the push hook,  *)
(* and the CachePushClient behind that hook (CachePushClient.PushFunc,     *)
(* cachebox.Config.Push).  Both have a Stop of their own, and nothing in   *)
(* the code orders the two.                                                *)
(***************************************************************************)
EXTENDS CacheRecorder, FiniteSets

CONSTANTS
  MaxBatch,      \* CachePushConfig.MaxBatch
  NoTimer,       \* the client has no timer
  PushStoppers   \* goroutines that call CachePushClient.Stop

VARIABLES
  added, pushAccepted, batch, timer, expired, callbacks, flights, pushed,
  pushDropped, pushStopped, pushStopper, lastBatch,
  early   \* history: the client was stopped before the drain had ended

pushVars == <<added, pushAccepted, batch, timer, expired, callbacks, flights,
              pushed, pushDropped, pushStopped, pushStopper, lastBatch>>

Push == INSTANCE CachePush
  WITH Entries <- Records, Stoppers <- PushStoppers, accepted <- pushAccepted,
       dropped <- pushDropped, stopped <- pushStopped, stopper <- pushStopper

ASSUME PipelineAssumption == BufSize \in Nat /\ Push!PushConfigOK

PipelineInit == Init /\ Push!Init /\ early = FALSE

-----------------------------------------------------------------------------
(* Calls of Record, Stop of the recorder, and the drain up to the hook.    *)
RecorderStep ==
  /\ \/ \E r \in Records : RecordCheck(r) \/ RecordSend(r)
     \/ DrainReceive \/ DrainStore \/ DrainExit
     \/ \E s \in Stoppers : StopStep(s)
  /\ UNCHANGED <<pushVars, early>>

(* The hook runs in the drain goroutine and returns when add does.         *)
DrainPushes ==
  /\ DrainPush
  /\ Push!Add(inHand) \/ Push!AddRefused(inHand)
  /\ UNCHANGED early

ClientStep ==
  /\ Push!ClientStep
  /\ early' = (early \/ (drain # "exited" /\ pushStopped' # pushStopped))
  /\ UNCHANGED vars

PipelineNext == RecorderStep \/ DrainPushes \/ ClientStep

pipelineVars == <<vars, pushVars, early>>

(* The drain goroutine and those of the client run; no one has to call     *)
(* Record or either Stop.                                                  *)
PipelineSpec ==
  /\ PipelineInit
  /\ [][PipelineNext]_pipelineVars
  /\ WF_vars(DrainStep)
  /\ Push!Fairness

-----------------------------------------------------------------------------
(* What the client was given is in exactly one place, however its timer,   *)
(* its posts, the drain and its Stops interleave (cache_push.go:105-214).  *)
EntriesConserved == Push!EntriesConserved

(* A batch that waits has a timer that will still flush it                 *)
(* (cache_push.go:105-140).                                                *)
BatchHasTimer == Push!BatchHasTimer

(* A record that Record accepted is stored, and counted by the client as   *)
(* pushed or as dropped, also when it is caught in the queue by a Stop of  *)
(* the recorder.  Only a client that is stopped before the recorder has    *)
(* drained loses records without counting them (recorder.go:86-123,        *)
(* cache_push.go:105-214).                                                 *)
EveryRecordIsCounted ==
  \A r \in Records :
    caller[r] = "queued" ~> r \in pushed \cup pushDropped \/ early

(* The client never counts a record that is not in the local store, and    *)
(* the store only ever runs ahead by what the drain, the batch and the     *)
(* posts hold: RecorderStats.Recorded and CachePushStats agree in the end  *)
(* (recorder.go:116-120, cache_push.go:85-91).                             *)
StoredBeforePushed ==
  LET storedSet == {stored[i] : i \in DOMAIN stored}
  IN  /\ added \subseteq storedSet
      /\ ~pushStopped =>
           storedSet = pushed \cup pushDropped \cup batch \cup (UNION flights)
                         \cup (IF drain = "pushing" THEN {inHand} ELSE {})
=============================================================================
