------------------------ MODULE CachePipeline_proof ------------------------
(***************************************************************************)
(* Proofs about CachePipeline, for any records, any size of the channels   *)
(* and of a batch, and any number of Record and Stop calls: of the         *)
(* recorder first (CacheRecorder), which the pipeline extends, then of the *)
(* recorder with the client behind it.                                     *)
(***************************************************************************)
EXTENDS CachePipeline, SequenceTheorems, TLAPS

-----------------------------------------------------------------------------
(* The recorder. *)

(* drain leaves its loop only on a closed and empty channel, and holds a   *)
(* record between receiving it and putting it.                             *)
DrainInv ==
  /\ drain = "exited" => ch = <<>> /\ chClosed
  /\ drain = "storing" => inHand \in Records

IInv == TypeOK /\ DrainInv /\ AcceptedInOrder

(* What drain holds is a sequence of records.                              *)
LEMMA HeldIsSeq == TypeOK /\ DrainInv => Held \in Seq(Records)
<1> SUFFICES ASSUME TypeOK, DrainInv
             PROVE  Held \in Seq(Records)
  OBVIOUS
<1>1. CASE drain = "storing"
  BY <1>1 DEF DrainInv, Held
<1>2. CASE drain # "storing"
  BY <1>2, EmptySeq DEF Held
<1>3. QED
  BY <1>1, <1>2

-----------------------------------------------------------------------------
LEMMA InitIInv == Init => IInv
<1> SUFFICES ASSUME Init
             PROVE  IInv
  OBVIOUS
<1>1. TypeOK /\ DrainInv
  BY EmptySeq DEF Init, TypeOK, DrainInv
<1>2. AcceptedInOrder
  <2>1. stored \o Held = <<>>
    BY EmptySeq, ConcatEmptySeq DEF Init, Held
  <2>2. QED
    BY <2>1, EmptySeq, ConcatEmptySeq DEF Init, AcceptedInOrder
<1>3. QED
  BY <1>1, <1>2 DEF IInv

(* The channel, the drain goroutine and the callers keep their shape.      *)
LEMMA TypeStep == IInv /\ [Next]_vars => (TypeOK /\ DrainInv)'
<1> SUFFICES ASSUME IInv, [Next]_vars
             PROVE  (TypeOK /\ DrainInv)'
  OBVIOUS
<1> USE DEF IInv, TypeOK, DrainInv
<1>1. ASSUME NEW r \in Records, RecordCheck(r)
      PROVE  (TypeOK /\ DrainInv)'
  BY <1>1 DEF RecordCheck
<1>2. ASSUME NEW r \in Records, RecordSend(r)
      PROVE  (TypeOK /\ DrainInv)'
  <2>1. /\ ch' = ch \/ ch' = Append(ch, r)
        /\ accepted' = accepted \/ accepted' = Append(accepted, r)
    BY <1>2 DEF RecordSend
  <2>2. ch' \in Seq(Records) /\ accepted' \in Seq(Records)
    <3>1. /\ Append(ch, r) \in Seq(Records)
          /\ Append(accepted, r) \in Seq(Records)
      BY AppendProperties
    <3>2. QED
      BY <2>1, <3>1
  <2>3. dropped' \in SUBSET Records
    BY <1>2 DEF RecordSend
  <2>4. QED
    BY <1>2, <2>2, <2>3 DEF RecordSend
<1>3. CASE DrainReceive
  <2>1. Head(ch) \in Records /\ Tail(ch) \in Seq(Records)
    BY <1>3, HeadTailProperties DEF DrainReceive
  <2>2. QED
    BY <1>3, <2>1 DEF DrainReceive
<1>4. CASE DrainStore
  <2>1. stored' \in Seq(Records)
    BY <1>4, AppendProperties DEF DrainStore
  <2>2. QED
    BY <1>4, <2>1 DEF DrainStore
<1>5. CASE DrainPush
  BY <1>5 DEF DrainPush
<1>6. CASE DrainExit
  BY <1>6 DEF DrainExit
<1>7. ASSUME NEW s \in Stoppers, StopStep(s)
      PROVE  (TypeOK /\ DrainInv)'
  BY <1>7 DEF StopStep, StopBegin, StopClose, StopReturn
<1>8. CASE UNCHANGED vars
  BY <1>8 DEF vars
<1>9. QED
  BY <1>1, <1>2, <1>3, <1>4, <1>5, <1>6, <1>7, <1>8 DEF Next, DrainStep

(* A record moves from the tail of the accepted sequence through the       *)
(* channel and drain's hand to the end of the stored sequence, never past  *)
(* another.                                                                *)
LEMMA OrderStep == IInv /\ [Next]_vars => AcceptedInOrder'
<1> SUFFICES ASSUME IInv, [Next]_vars
             PROVE  AcceptedInOrder'
  OBVIOUS
<1>1. /\ stored \in Seq(Records) /\ Held \in Seq(Records)
      /\ ch \in Seq(Records)
      /\ accepted = (stored \o Held) \o ch
  BY HeldIsSeq DEF IInv, TypeOK, AcceptedInOrder
<1>2. stored \o Held \in Seq(Records)
  BY <1>1, ConcatProperties
<1>3. ASSUME NEW r \in Records, RecordSend(r)
      PROVE  AcceptedInOrder'
  <2>1. Held' = Held /\ stored' = stored
    BY <1>3 DEF RecordSend, Held
  <2>2. CASE UNCHANGED <<ch, accepted>>
    BY <1>1, <2>1, <2>2 DEF AcceptedInOrder
  <2>3. CASE ch' = Append(ch, r) /\ accepted' = Append(accepted, r)
    <3>1. <<r>> \in Seq(Records)
      OBVIOUS
    <3>2. ch' = ch \o <<r>> /\ accepted' = accepted \o <<r>>
      BY <1>1, <2>3, AppendIsConcat DEF IInv, TypeOK
    <3>3. ((stored \o Held) \o ch) \o <<r>> = (stored \o Held) \o (ch \o <<r>>)
      BY <1>1, <1>2, <3>1, ConcatAssociative
    <3>4. accepted' = (stored \o Held) \o (ch \o <<r>>)
      BY <1>1, <3>2, <3>3
    <3>5. QED
      BY <2>1, <3>2, <3>4 DEF AcceptedInOrder
  <2>4. QED
    BY <1>3, <2>2, <2>3 DEF RecordSend
<1>4. CASE DrainReceive
  <2>1. /\ Held = <<>> /\ Held' = <<Head(ch)>>
        /\ ch' = Tail(ch) /\ UNCHANGED <<stored, accepted>> /\ ch # <<>>
    BY <1>4 DEF DrainReceive, Held
  <2>2. /\ Head(ch) \in Records /\ Tail(ch) \in Seq(Records)
        /\ <<Head(ch)>> \in Seq(Records)
    BY <1>1, <2>1, HeadTailProperties
  <2>3. <<Head(ch)>> \o Tail(ch) = ch
    BY <1>1, <2>1
  <2>4. (stored \o <<Head(ch)>>) \o Tail(ch) = stored \o ch
    BY <1>1, <2>2, <2>3, ConcatAssociative
  <2>5. stored \o Held = stored
    BY <1>1, <2>1, ConcatEmptySeq
  <2>6. QED
    BY <1>1, <2>1, <2>4, <2>5 DEF AcceptedInOrder
<1>5. CASE DrainStore
  <2>1. /\ Held = <<inHand>> /\ Held' = <<>> /\ inHand \in Records
        /\ stored' = Append(stored, inHand) /\ UNCHANGED <<ch, accepted>>
    BY <1>5 DEF DrainStore, Held, IInv, DrainInv
  <2>2. stored' = stored \o Held
    BY <1>1, <2>1, AppendIsConcat
  <2>3. stored' \o Held' = stored \o Held
    BY <1>2, <2>1, <2>2, ConcatEmptySeq
  <2>4. QED
    BY <1>1, <2>1, <2>3 DEF AcceptedInOrder
<1>6. CASE DrainPush
  <2>1. Held' = Held /\ UNCHANGED <<stored, ch, accepted>>
    BY <1>6 DEF DrainPush, Held
  <2>2. QED
    BY <1>1, <2>1 DEF AcceptedInOrder
<1>7. CASE DrainExit
  <2>1. Held' = Held /\ UNCHANGED <<stored, ch, accepted>>
    BY <1>7 DEF DrainExit, Held
  <2>2. QED
    BY <1>1, <2>1 DEF AcceptedInOrder
<1>8. ASSUME NEW r \in Records, RecordCheck(r)
      PROVE  AcceptedInOrder'
  <2>1. Held' = Held /\ UNCHANGED <<stored, ch, accepted>>
    BY <1>8 DEF RecordCheck, Held
  <2>2. QED
    BY <1>1, <2>1 DEF AcceptedInOrder
<1>9. ASSUME NEW s \in Stoppers, StopStep(s)
      PROVE  AcceptedInOrder'
  <2>1. Held' = Held /\ UNCHANGED <<stored, ch, accepted>>
    BY <1>9 DEF StopStep, StopBegin, StopClose, StopReturn, Held
  <2>2. QED
    BY <1>1, <2>1 DEF AcceptedInOrder
<1>10. CASE UNCHANGED vars
  <2>1. Held' = Held /\ UNCHANGED <<stored, ch, accepted>>
    BY <1>10 DEF vars, Held
  <2>2. QED
    BY <1>1, <2>1 DEF AcceptedInOrder
<1>11. QED
  BY <1>3, <1>4, <1>5, <1>6, <1>7, <1>8, <1>9, <1>10 DEF Next, DrainStep

-----------------------------------------------------------------------------
(* Types, drain and the order of records are inductive together.           *)
THEOREM Inductive == Spec => []IInv
<1>1. IInv /\ [Next]_vars => IInv'
  BY TypeStep, OrderStep DEF IInv
<1>2. QED
  BY InitIInv, <1>1, PTL DEF Spec

(* Records are stored in the order in which Record accepted them, none     *)
(* lost and none twice (recorder.go:86-123).                               *)
THEOREM OrderKept == Spec => []AcceptedInOrder
<1>1. IInv => AcceptedInOrder
  BY DEF IInv
<1>2. QED
  BY Inductive, <1>1, PTL

(* The Stop that closed the channel returns only once every accepted       *)
(* record is in the store (recorder.go:129-135).                           *)
THEOREM StopIsDrained == Spec => StopDrains
<1>1. IInv /\ [Next]_vars =>
        [\A s \in Stoppers :
           stopper[s] = "waiting" /\ stopper'[s] = "returned"
           => accepted = stored]_vars
  <2> SUFFICES ASSUME IInv, [Next]_vars, NEW s \in Stoppers,
                      stopper[s] = "waiting", stopper'[s] = "returned"
               PROVE  accepted = stored
    OBVIOUS
  <2>1. drain = "exited"
    BY DEF Next, vars, DrainStep, StopStep, RecordCheck, RecordSend,
           DrainReceive, DrainStore, DrainPush, DrainExit, StopBegin,
           StopClose, StopReturn, IInv, TypeOK
  <2>2. Held = <<>> /\ ch = <<>> /\ stored \in Seq(Records)
    BY <2>1 DEF Held, IInv, DrainInv, TypeOK
  <2>3. QED
    BY <2>2, ConcatEmptySeq DEF IInv, AcceptedInOrder
<1>2. QED
  BY Inductive, <1>1, PTL DEF Spec, StopDrains

-----------------------------------------------------------------------------
(* The recorder in the pipeline. *)

(***************************************************************************)
(* The recorder is not disturbed by the client behind its hook: the        *)
(* pipeline is a recorder, and what is proved of recorders holds in it.    *)
(***************************************************************************)
LEMMA RecorderSteps == [PipelineNext]_pipelineVars => [Next]_vars
<1> SUFFICES ASSUME [PipelineNext]_pipelineVars
             PROVE  [Next]_vars
  OBVIOUS
<1>1. CASE RecorderStep
  BY <1>1 DEF RecorderStep, Next, DrainStep
<1>2. CASE DrainPushes
  BY <1>2 DEF DrainPushes, Next, DrainStep
<1>3. CASE ClientStep
  BY <1>3 DEF ClientStep
<1>4. CASE UNCHANGED pipelineVars
  BY <1>4 DEF pipelineVars
<1>5. QED
  BY <1>1, <1>2, <1>3, <1>4 DEF PipelineNext

(* With the client behind it, the recorder goes through no other states    *)
(* than without one (recorder.go:101-123, cache_push.go:96-128).           *)
THEOREM PipelineIsRecorder == PipelineSpec => Spec
<1>1. PipelineInit => Init
  BY DEF PipelineInit
<1>2. QED
  BY <1>1, RecorderSteps, PTL DEF PipelineSpec, Spec

(* Records are stored in the order in which they were accepted, none lost  *)
(* and none twice, also with a client that is called between two of them   *)
(* (recorder.go:86-123).                                                   *)
THEOREM PipelineKeepsOrder == PipelineSpec => []AcceptedInOrder
  BY PipelineIsRecorder, OrderKept, PTL

(* The Stop that closed the channel returns only once every accepted       *)
(* record is in the store, whatever the client does meanwhile              *)
(* (recorder.go:129-135).                                                  *)
THEOREM PipelineStopDrains == PipelineSpec => StopDrains
  BY PipelineIsRecorder, StopIsDrained, PTL

-----------------------------------------------------------------------------
(* The client's part of the state.  Only the Stop that swapped c.stopped   *)
(* has a batch of its own, and after it no batch is gathered; a name that  *)
(* add has not seen is neither queued nor the name of a timer.             *)
ClientInv ==
  /\ flights \subseteq SUBSET Records
  /\ batch \subseteq Records
  /\ expired \subseteq added
  /\ timer \in added \cup {NoTimer}
  /\ pushAccepted \subseteq added
  /\ ~pushStopped => lastBatch = {} /\ pushAccepted = added
  /\ pushStopped => batch = {}

(* What the drain goroutine has put in the store.                          *)
StoredSet == {stored[i] : i \in DOMAIN stored}

(* The client has been given what is stored, except for the record that    *)
(* the drain goroutine is about to give it.                                *)
HandOver ==
  /\ drain \in {"storing", "pushing"} => inHand \in Records
  /\ StoredSet = added \cup (IF drain = "pushing" THEN {inHand} ELSE {})

PInv == ClientInv /\ EntriesConserved /\ BatchHasTimer

-----------------------------------------------------------------------------
LEMMA InitPInv == PipelineInit => PInv /\ HandOver
<1> SUFFICES ASSUME PipelineInit
             PROVE  PInv /\ HandOver
  OBVIOUS
<1>1. ClientInv
  BY DEF PipelineInit, Push!Init, ClientInv
<1>2. EntriesConserved
  BY DEF PipelineInit, Push!Init, EntriesConserved, Push!EntriesConserved
<1>3. BatchHasTimer
  BY DEF PipelineInit, Push!Init, BatchHasTimer, Push!BatchHasTimer
<1>4. HandOver
  BY DEF PipelineInit, Init, Push!Init, HandOver, StoredSet
<1>5. QED
  BY <1>1, <1>2, <1>3, <1>4 DEF PInv

(* add: the record joins the batch, or the full batch leaves as a post.    *)
LEMMA AddStep ==
  ASSUME NEW e \in Records, PInv, Push!Add(e)
  PROVE  PInv'
<1> USE PipelineAssumption DEF Push!PushConfigOK
<1>1. /\ e \notin added /\ ~pushStopped
      /\ added' = added \cup {e}
      /\ pushAccepted' = pushAccepted \cup {e}
      /\ UNCHANGED <<expired, callbacks, pushed, pushDropped, pushStopped,
                     pushStopper, lastBatch>>
  BY DEF Push!Add
<1>2. CASE Push!IsFull(batch \cup {e})
  <2>1. /\ flights' = flights \cup {batch \cup {e}}
        /\ batch' = {} /\ timer' = NoTimer
    BY <1>2 DEF Push!Add, Push!Flush
  <2>2. ClientInv'
    BY <1>1, <2>1 DEF PInv, ClientInv
  <2>3. EntriesConserved'
    <3>1. UNION (flights') = (UNION flights) \cup batch \cup {e}
      BY <2>1
    <3>2. e \notin pushAccepted
      BY <1>1 DEF PInv, ClientInv
    <3>3. \A a \in flights : a \cap (batch \cup {e}) = {}
      <4>1. \A a \in flights : a \subseteq UNION flights
        OBVIOUS
      <4>2. /\ UNION flights \subseteq pushAccepted
            /\ batch \cap (UNION flights) = {}
        BY DEF PInv, EntriesConserved, Push!EntriesConserved
      <4>3. QED
        BY <3>2, <4>1, <4>2
    <3>4. \A a, b \in flights : a # b => a \cap b = {}
      BY DEF PInv, EntriesConserved, Push!EntriesConserved
    <3>5. \A a, b \in flights' : a # b => a \cap b = {}
      BY <2>1, <3>3, <3>4
    <3>6. QED
      BY <1>1, <2>1, <3>1, <3>2, <3>5
         DEF PInv, EntriesConserved, Push!EntriesConserved
  <2>4. BatchHasTimer'
    BY <1>1, <2>1 DEF PInv, BatchHasTimer, Push!BatchHasTimer
  <2>5. QED
    BY <2>2, <2>3, <2>4 DEF PInv
<1>3. CASE ~Push!IsFull(batch \cup {e})
  <2>1. /\ batch' = batch \cup {e}
        /\ timer' = IF timer = NoTimer THEN e ELSE timer
        /\ UNCHANGED flights
    BY <1>3 DEF Push!Add
  <2>2. ClientInv'
    BY <1>1, <2>1 DEF PInv, ClientInv
  <2>3. EntriesConserved'
    BY <1>1, <2>1 DEF PInv, ClientInv, EntriesConserved, Push!EntriesConserved
  <2>4. BatchHasTimer'
    BY <1>1, <2>1 DEF PInv, ClientInv, BatchHasTimer, Push!BatchHasTimer
  <2>5. QED
    BY <2>2, <2>3, <2>4 DEF PInv
<1>4. QED
  BY <1>2, <1>3

LEMMA AddRefusedStep ==
  ASSUME NEW e \in Records, PInv, Push!AddRefused(e)
  PROVE  PInv'
  BY DEF Push!AddRefused, PInv, ClientInv, EntriesConserved,
         Push!EntriesConserved, BatchHasTimer, Push!BatchHasTimer

(* The timer of a batch goes off: its callback is on the way.              *)
LEMMA TimerStep ==
  ASSUME PInv, Push!TimerExpires
  PROVE  PInv'
<1>1. /\ timer \in Records
      /\ expired' = expired \cup {timer}
      /\ callbacks' = callbacks \cup {timer}
      /\ UNCHANGED <<added, pushAccepted, batch, timer, flights, pushed,
                     pushDropped, pushStopped, pushStopper, lastBatch>>
  BY DEF Push!TimerExpires
<1>2. ClientInv'
  BY <1>1, PipelineAssumption DEF PInv, ClientInv, Push!PushConfigOK
<1>3. EntriesConserved'
  BY <1>1 DEF PInv, EntriesConserved, Push!EntriesConserved
<1>4. BatchHasTimer'
  BY <1>1 DEF PInv, BatchHasTimer, Push!BatchHasTimer
<1>5. QED
  BY <1>2, <1>3, <1>4 DEF PInv

(* The callback, on time or late: whatever batch it finds leaves whole.    *)
LEMMA CallbackStep ==
  ASSUME NEW t \in Records, PInv, Push!Callback(t)
  PROVE  PInv'
<1>1. UNCHANGED <<added, pushAccepted, expired, pushed, pushDropped,
                  pushStopped, pushStopper, lastBatch>>
  BY DEF Push!Callback
<1>2. CASE ~pushStopped /\ batch # {}
  <2>1. /\ flights' = flights \cup {batch}
        /\ batch' = {} /\ timer' = NoTimer
    BY <1>2 DEF Push!Callback, Push!Flush
  <2>2. ClientInv'
    BY <1>1, <2>1 DEF PInv, ClientInv
  <2>3. EntriesConserved'
    BY <1>1, <2>1 DEF PInv, ClientInv, EntriesConserved, Push!EntriesConserved
  <2>4. BatchHasTimer'
    BY <2>1 DEF BatchHasTimer, Push!BatchHasTimer
  <2>5. QED
    BY <2>2, <2>3, <2>4 DEF PInv
<1>3. CASE pushStopped \/ batch = {}
  <2>1. UNCHANGED <<flights, batch, timer>>
    BY <1>3 DEF Push!Callback
  <2>2. QED
    BY <1>1, <1>3, <2>1 DEF PInv, ClientInv, EntriesConserved,
       Push!EntriesConserved, BatchHasTimer, Push!BatchHasTimer
<1>4. QED
  BY <1>2, <1>3

(* An answered post is counted, as one or the other.                       *)
LEMMA PostStep ==
  ASSUME NEW b \in flights, PInv, Push!PostDone(b)
  PROVE  PInv'
<1>1. /\ flights' = flights \ {b}
      /\ UNCHANGED <<added, pushAccepted, batch, timer, expired, callbacks,
                     pushStopped, pushStopper, lastBatch>>
  BY DEF Push!PostDone
<1>2. ClientInv' /\ BatchHasTimer'
  BY <1>1 DEF PInv, ClientInv, BatchHasTimer, Push!BatchHasTimer
<1>3. /\ UNION flights = b \cup (UNION (flights'))
      /\ b \cap (UNION (flights')) = {}
  BY <1>1 DEF PInv, EntriesConserved, Push!EntriesConserved
<1>4. \/ pushed' = pushed \cup b /\ UNCHANGED pushDropped
      \/ pushDropped' = pushDropped \cup b /\ UNCHANGED pushed
  BY DEF Push!PostDone, Push!Posted
<1>5. \A x, y \in flights' : x # y => x \cap y = {}
  BY <1>1 DEF PInv, EntriesConserved, Push!EntriesConserved
<1>6. EntriesConserved'
  BY <1>1, <1>3, <1>4, <1>5
     DEF PInv, EntriesConserved, Push!EntriesConserved
<1>7. QED
  BY <1>2, <1>6 DEF PInv

(* Stop takes the batch, unless another Stop has, and counts it in the end.*)
LEMMA StopStepOfClient ==
  ASSUME NEW s \in PushStoppers, PInv,
         Push!StopBegin(s) \/ Push!StopReturn(s)
  PROVE  PInv'
<1>1. CASE Push!StopBegin(s) /\ pushStopped
  BY <1>1 DEF Push!StopBegin, PInv, ClientInv, EntriesConserved,
     Push!EntriesConserved, BatchHasTimer, Push!BatchHasTimer
<1>2. CASE Push!StopBegin(s) /\ ~pushStopped
  BY <1>2 DEF Push!StopBegin, PInv, ClientInv, EntriesConserved,
     Push!EntriesConserved, BatchHasTimer, Push!BatchHasTimer
<1>3. CASE Push!StopReturn(s)
  <2>1. /\ lastBatch' = {}
        /\ UNCHANGED <<added, pushAccepted, batch, timer, expired, callbacks,
                       flights, pushStopped>>
    BY <1>3 DEF Push!StopReturn
  <2>2. \/ pushed' = pushed \cup lastBatch /\ UNCHANGED pushDropped
        \/ pushDropped' = pushDropped \cup lastBatch /\ UNCHANGED pushed
    BY <1>3 DEF Push!StopReturn, Push!Posted
  <2>3. ClientInv' /\ BatchHasTimer'
    BY <2>1 DEF PInv, ClientInv, BatchHasTimer, Push!BatchHasTimer
  <2>4. EntriesConserved'
    BY <2>1, <2>2 DEF PInv, EntriesConserved, Push!EntriesConserved
  <2>5. QED
    BY <2>3, <2>4 DEF PInv
<1>4. QED
  BY <1>1, <1>2, <1>3

-----------------------------------------------------------------------------
LEMMA PInvUnchanged ==
  ASSUME PInv, UNCHANGED pushVars
  PROVE  PInv'
  BY DEF pushVars, PInv, ClientInv, EntriesConserved, Push!EntriesConserved,
         BatchHasTimer, Push!BatchHasTimer

LEMMA PInvStep ==
  ASSUME PInv, TypeOK, HandOver, [PipelineNext]_pipelineVars
  PROVE  PInv'
<1>1. CASE RecorderStep
  BY <1>1, PInvUnchanged DEF RecorderStep
<1>2. CASE DrainPushes
  <2>1. inHand \in Records
    BY <1>2 DEF DrainPushes, DrainPush, HandOver
  <2>2. QED
    BY <1>2, <2>1, AddStep, AddRefusedStep DEF DrainPushes
<1>3. CASE ClientStep
  BY <1>3, TimerStep, CallbackStep, PostStep, StopStepOfClient
     DEF ClientStep, Push!ClientStep
<1>4. CASE UNCHANGED pipelineVars
  BY <1>4, PInvUnchanged DEF pipelineVars
<1>5. QED
  BY <1>1, <1>2, <1>3, <1>4 DEF PipelineNext

(* The recorder stores, then hands over; the client never touches either.  *)
LEMMA HandOverStep ==
  ASSUME HandOver, TypeOK, [PipelineNext]_pipelineVars
  PROVE  HandOver'
<1>1. CASE RecorderStep
  <2>0. UNCHANGED added
    BY <1>1 DEF RecorderStep, pushVars
  <2>1. CASE DrainReceive
    <3>1. inHand' \in Records
      BY <2>1, HeadTailProperties DEF DrainReceive, TypeOK
    <3>2. QED
      BY <2>0, <2>1, <3>1 DEF DrainReceive, HandOver, StoredSet
  <2>2. CASE DrainStore
    <3>1. /\ drain = "storing" /\ drain' = "pushing"
          /\ stored' = Append(stored, inHand)
          /\ inHand' = inHand /\ inHand \in Records
      BY <2>2 DEF DrainStore, HandOver
    <3>2. StoredSet' = StoredSet \cup {inHand}
      <4>1. stored \in Seq(Records)
        BY DEF TypeOK
      <4>2. /\ DOMAIN stored = 1..Len(stored)
            /\ DOMAIN stored' = 1..(Len(stored) + 1)
            /\ \A i \in 1..Len(stored) : stored'[i] = stored[i]
            /\ stored'[Len(stored) + 1] = inHand
            /\ Len(stored) \in Nat
        BY <3>1, <4>1, AppendProperties
      <4>3. DOMAIN stored' = DOMAIN stored \cup {Len(stored) + 1}
        BY <4>2
      <4>4. QED
        BY <4>2, <4>3 DEF StoredSet
    <3>3. QED
      BY <2>0, <3>1, <3>2 DEF HandOver
  <2>3. CASE DrainExit
    BY <2>0, <2>3 DEF DrainExit, HandOver, StoredSet
  <2>4. ASSUME NEW r \in Records, RecordCheck(r) \/ RecordSend(r)
        PROVE  HandOver'
    BY <2>0, <2>4 DEF RecordCheck, RecordSend, HandOver, StoredSet
  <2>5. ASSUME NEW s \in Stoppers, StopStep(s)
        PROVE  HandOver'
    BY <2>0, <2>5
       DEF StopStep, StopBegin, StopClose, StopReturn, HandOver, StoredSet
  <2>6. QED
    BY <1>1, <2>1, <2>2, <2>3, <2>4, <2>5 DEF RecorderStep
<1>2. CASE DrainPushes
  <2>1. added' = added \cup {inHand}
    BY <1>2 DEF DrainPushes, Push!Add, Push!AddRefused
  <2>2. QED
    BY <1>2, <2>1 DEF DrainPushes, DrainPush, HandOver, StoredSet
<1>3. CASE ClientStep
  <2>1. UNCHANGED added
    BY <1>3 DEF ClientStep, Push!ClientStep, Push!TimerExpires,
       Push!Callback, Push!PostDone, Push!StopBegin, Push!StopReturn
  <2>2. QED
    BY <1>3, <2>1 DEF ClientStep, vars, HandOver, StoredSet
<1>4. CASE UNCHANGED pipelineVars
  BY <1>4 DEF pipelineVars, vars, pushVars, HandOver, StoredSet
<1>5. QED
  BY <1>1, <1>2, <1>3, <1>4 DEF PipelineNext

(* The client's account and the hand-over are inductive once the recorder's*)
(* types are.                                                              *)
THEOREM PipelineInductive == PipelineSpec => [](PInv /\ HandOver)
<1>1. PipelineSpec => []TypeOK
  <2>1. IInv => TypeOK
    BY DEF IInv
  <2>2. QED
    BY PipelineIsRecorder, Inductive, <2>1, PTL
<1>2. PInv /\ HandOver /\ TypeOK /\ [PipelineNext]_pipelineVars
        => (PInv /\ HandOver)'
  BY PInvStep, HandOverStep
<1>3. QED
  BY <1>1, <1>2, InitPInv, PTL DEF PipelineSpec

(* No entry is lost, queued twice or counted twice, whatever timer, posts, *)
(* adds and Stops do to each other (cache_push.go:105-214).                *)
THEOREM NothingLost == PipelineSpec => []EntriesConserved
<1>1. PInv => EntriesConserved
  BY DEF PInv
<1>2. QED
  BY PipelineInductive, <1>1, PTL

(* A batch never waits without a timer that will flush it                  *)
(* (cache_push.go:118-140).                                                *)
THEOREM TimerArmed == PipelineSpec => []BatchHasTimer
<1>1. PInv => BatchHasTimer
  BY DEF PInv
<1>2. QED
  BY PipelineInductive, <1>1, PTL

(* The client has only what the store has, and as long as it runs it has   *)
(* everything but the record on its way to it (recorder.go:116-120).       *)
THEOREM StoreIsAhead == PipelineSpec => []StoredBeforePushed
<1>1. PInv /\ HandOver => StoredBeforePushed
  <2> SUFFICES ASSUME PInv, HandOver
               PROVE  StoredBeforePushed
    OBVIOUS
  <2>1. added \subseteq StoredSet
    BY DEF HandOver
  <2>2. ~pushStopped =>
          added = pushed \cup pushDropped \cup batch \cup (UNION flights)
    BY DEF PInv, ClientInv, EntriesConserved, Push!EntriesConserved
  <2>3. QED
    BY <2>1, <2>2 DEF HandOver, StoredSet, StoredBeforePushed
<1>2. QED
  BY PipelineInductive, <1>1, PTL
=============================================================================
