------------------------ MODULE ManteionClient_proof ------------------------
(***************************************************************************)
(* Proofs about ManteionClient, for every number of versions, failures and *)
(* registrations, and whatever each version holds.                         *)
(***************************************************************************)
EXTENDS ManteionClient, SequenceTheorems, TLAPS

MainEarly == {"waiting", "registering", "failed", "fetching", "fetched"}
MainLate  == {"looping", "stored", "returned"}

TypeOK ==
  /\ published \in Versions
  /\ stream \in Seq(Versions)
  /\ budget \in Nat
  /\ main \in MainEarly \cup MainLate
  /\ poll \in {"none", "select", "fetching", "exited"}
  /\ fetch \in {"idle", "sent", "failed", "answered", "installed", "ok"}
  /\ asked \in Versions
  /\ answer \in Versions \cup {NotModified}
  /\ reg \in [Regs -> {"free", "sent", "failed", "answered", "rules",
                       "fault"}]
  /\ regAnswer \in [Regs -> Versions]
  /\ sse \in {"none", "connecting", "open", "pausing", "exited"}
  /\ trigger \in BOOLEAN
  /\ failures \in Nat
  /\ rules \in Versions /\ demo \in Versions /\ delay \in Versions
  /\ ruleVersion \in Versions
  /\ status \in {"disconnected", "degraded", "connected"}
  /\ polled \in BOOLEAN
  /\ cancelled \in BOOLEAN
  /\ closer \in {"none", "waiting", "drained", "closed"}
  /\ notified \in Versions /\ served \in Versions
  /\ installer \in {"start", "poll", "registration"}

(* The loops run once ConnectManteion has started them, and one goroutine  *)
(* at a time is inside fetchRules.                                         *)
LoopsInv ==
  /\ main \in MainEarly => poll = "none" /\ sse = "none" /\ notified = 0
  /\ main \in MainLate => poll # "none"
  /\ fetch # "idle" => main = "fetching" \/ poll = "fetching"

(* An event is about a version that was published.                         *)
EventsInv ==
  /\ notified <= published
  /\ \A i \in 1..Len(stream) : stream[i] <= published

(* A signal that came after the answer in hand is still in the channel.    *)
AnswerInv ==
  fetch \in {"answered", "installed", "ok"} /\ notified > served => trigger

InstallInv == fetch = "installed" => answer \in Versions

(* Close is called on the client ConnectManteion returned, and its wait    *)
(* ends when every goroutine is gone.                                      *)
CloseInv ==
  /\ closer # "none" => main = "returned" /\ cancelled
  /\ closer \in {"drained", "closed"} =>
       /\ poll = "exited" /\ sse = "exited"
       /\ \A r \in Regs : reg[r] = "free"

IInv == /\ TypeOK /\ LoopsInv /\ EventsInv /\ AnswerInv /\ InstallInv
        /\ CloseInv /\ WakeupNotLost
-----------------------------------------------------------------------------
(* Nothing runs, and every target holds what it held before.               *)
LEMMA InitIInv == Init => IInv
<1> SUFFICES ASSUME Init
             PROVE  IInv
  OBVIOUS
<1>1. stream = <<>> /\ stream \in Seq(Versions) /\ Len(stream) = 0
  BY EmptySeq DEF Init
<1>2. 0 \in Versions /\ budget \in Nat
  BY BoundsAssumption DEF Init, Versions
<1>3. TypeOK
  BY <1>1, <1>2 DEF Init, TypeOK, MainEarly, MainLate, NotModified
<1>4. LoopsInv /\ EventsInv /\ AnswerInv /\ InstallInv /\ CloseInv
  BY <1>1, <1>2 DEF Init, LoopsInv, EventsInv, AnswerInv, InstallInv,
     CloseInv, MainEarly, MainLate
<1>5. WakeupNotLost
  BY DEF Init, WakeupNotLost
<1>6. QED
  BY <1>3, <1>4, <1>5 DEF IInv

(* Every step of every goroutine keeps the invariant.  The delivery of an  *)
(* event fills the trigger channel whatever the poll loop does; the loop   *)
(* empties it only to send a poll; and a success that clears the failure   *)
(* count has an answer no older than the signals not in the channel.       *)
LEMMA Step == IInv /\ [Next]_vars => IInv'
<1> SUFFICES ASSUME IInv, [Next]_vars
             PROVE  IInv'
  OBVIOUS
<1> USE BoundsAssumption
<1> USE DEF Versions, NotModified, MainEarly, MainLate
<1> USE DEF IInv, TypeOK, LoopsInv, EventsInv, AnswerInv, InstallInv,
            CloseInv, WakeupNotLost
<1> USE DEF server, fetching, register, events, targets, installed, shown,
            shutdown
<1>1. CASE Publish
  <2>1. published + 1 \in Versions
    BY <1>1 DEF Publish
  <2>2. Append(stream, published + 1) \in Seq(Versions)
    BY <2>1, AppendProperties
  <2>3. stream' \in Seq(Versions)
    BY <1>1, <2>2 DEF Publish
  <2>4. ASSUME NEW i \in 1..Len(stream')
        PROVE  stream'[i] <= published + 1
    <3>1. CASE stream' = stream
      BY <3>1, <2>4
    <3>2. CASE stream' = Append(stream, published + 1)
      BY <3>2, <2>1, <2>4
    <3>3. QED
      BY <1>1, <3>1, <3>2 DEF Publish
  <2>5. QED
    BY <1>1, <2>1, <2>3, <2>4 DEF Publish
<1>2. CASE MainReady
  BY <1>2 DEF MainReady
<1>3. CASE MainRegister
  BY <1>3, SMTT(30)
     DEF MainRegister, ApplyRules, ApplyFault, ApplyFreeze, FetchBegin
<1>4. CASE MainFetched
  BY <1>4 DEF MainFetched
<1>5. CASE MainStartLoops
  BY <1>5 DEF MainStartLoops
<1>6. CASE MainStore
  BY <1>6 DEF MainStore
<1>7. CASE MainReturn
  BY <1>7 DEF MainReturn
<1>8. CASE FetchServe
  BY <1>8 DEF FetchServe
<1>9. CASE FetchFail
  BY <1>9 DEF FetchFail, SpendFailure
<1>10. CASE FetchInstall
  BY <1>10 DEF FetchInstall, Polled
<1>11. CASE FetchRecord
  BY <1>11 DEF FetchRecord
<1>12. CASE PollTick
  BY <1>12 DEF PollTick, FetchBegin
<1>13. CASE PollTriggered
  <2>3. /\ fetch' \in {"sent", "failed"}
        /\ poll = "select" /\ poll' = "fetching"
        /\ trigger' = FALSE
        /\ asked' = ruleVersion
        /\ UNCHANGED <<server, main, register, sse, notified, failures,
                       installed, shown, shutdown, answer, served>>
    BY <1>13 DEF PollTriggered, FetchBegin
  <2>1. TypeOK'
    <3> HIDE DEF LoopsInv, EventsInv, AnswerInv, InstallInv, CloseInv,
                 WakeupNotLost
    <3>1. UNCHANGED <<published, stream, budget, main, answer, reg, regAnswer,
                      sse, failures, rules, demo, delay, ruleVersion, status,
                      polled, cancelled, closer, notified, served, installer>>
      BY <2>3
    <3>2. /\ poll' \in {"none", "select", "fetching", "exited"}
          /\ asked' \in Versions
          /\ fetch' \in {"idle", "sent", "failed", "answered", "installed",
                         "ok"}
          /\ trigger' \in BOOLEAN
      BY <2>3
    <3>3. QED
      BY <3>1, <3>2
  <2>2. (LoopsInv /\ EventsInv /\ InstallInv /\ CloseInv)'
    BY <2>3
  <2>4. (AnswerInv /\ WakeupNotLost)'
    BY <2>3
  <2>5. QED
    BY <2>1, <2>2, <2>4
<1>14. CASE PollFailed
  <2>1. /\ reg' \in [Regs -> {"free", "sent", "failed", "answered",
                           "rules", "fault"}]
        /\ regAnswer' = regAnswer
        /\ closer \in {"none", "waiting"}
    BY <1>14 DEF PollFailed, RegSpawn
  <2>2. TypeOK'
    BY <1>14, <2>1 DEF PollFailed
  <2>3. (LoopsInv /\ EventsInv /\ InstallInv /\ CloseInv)'
    BY <1>14, <2>1 DEF PollFailed
  <2>4. (AnswerInv /\ WakeupNotLost)'
    BY <1>14, <2>1 DEF PollFailed
  <2>5. QED
    BY <2>2, <2>3, <2>4
<1>15. CASE PollSucceeded
  <2>1. /\ reg' \in [Regs -> {"free", "sent", "failed", "answered",
                           "rules", "fault"}]
        /\ regAnswer' = regAnswer
        /\ closer \in {"none", "waiting"}
    BY <1>15 DEF PollSucceeded, RegSpawn
  <2>2. TypeOK'
    BY <1>15, <2>1 DEF PollSucceeded
  <2>3. (LoopsInv /\ EventsInv /\ InstallInv /\ CloseInv)'
    BY <1>15, <2>1 DEF PollSucceeded
  <2>4. (AnswerInv /\ WakeupNotLost)'
    BY <1>15, <2>1 DEF PollSucceeded
  <2>5. QED
    BY <2>2, <2>3, <2>4
<1>16. CASE PollExit
  BY <1>16 DEF PollExit
<1>17. CASE SSEConnect
  BY <1>17 DEF SSEConnect
<1>18. CASE SSEDeliver
  BY <1>18 DEF SSEDeliver
<1>19. CASE SSEDisconnect
  BY <1>19 DEF SSEDisconnect
<1>20. CASE SSEResume
  BY <1>20 DEF SSEResume
<1>21. CASE SSEExit
  BY <1>21 DEF SSEExit
<1>22. CASE CloseCancel
  BY <1>22 DEF CloseCancel
<1>23. CASE CloseDrained
  BY <1>23 DEF CloseDrained
<1>24. CASE CloseDeregister
  BY <1>24 DEF CloseDeregister
<1>25. ASSUME NEW r \in Regs, RegServe(r)
      PROVE  IInv'
  BY <1>25 DEF RegServe
<1>26. ASSUME NEW r \in Regs, RegFail(r)
      PROVE  IInv'
  BY <1>26 DEF RegFail, SpendFailure
<1>27. ASSUME NEW r \in Regs, RegRules(r)
      PROVE  IInv'
  BY <1>27 DEF RegRules, ApplyRules
<1>28. ASSUME NEW r \in Regs, RegFault(r)
      PROVE  IInv'
  BY <1>28 DEF RegFault, ApplyFault
<1>29. ASSUME NEW r \in Regs, RegEnd(r)
      PROVE  IInv'
  BY <1>29 DEF RegEnd, ApplyFreeze
<1>30. CASE UNCHANGED vars
  BY <1>30 DEF vars
<1>31. QED
  BY <1>1, <1>2, <1>3, <1>4, <1>5, <1>6, <1>7, <1>8, <1>9, <1>10, <1>11,
     <1>12, <1>13, <1>14, <1>15, <1>16, <1>17, <1>18, <1>19, <1>20, <1>21,
     <1>22, <1>23, <1>24, <1>25, <1>26, <1>27, <1>28, <1>29, <1>30 DEF Next,
     MainStep, FetchStep, PollStep, SSEStep, CloseStep, RegStep
(* The invariant of the client's goroutines (manteion_client.go:66-263).   *)
THEOREM SpecIInv == Spec => []IInv
  BY InitIInv, Step, PTL DEF Spec

(* A rules_changed event that is delivered leads to a poll that answers    *)
(* for it: the send into the trigger channel never loses one               *)
(* (manteion_client.go:205-214, manteion.go:94-99).                        *)
THEOREM SpecWakeupNotLost == Spec => []WakeupNotLost
<1>1. IInv => WakeupNotLost
  BY DEF IInv
<1>2. QED
  BY <1>1, SpecIInv, PTL

(* A goroutine that is gone takes no step, and what is left of Close and   *)
(* manteion itself touch no target.                                        *)
LEMMA QuietStep ==
  IInv /\ [Next]_vars =>
    [ closer = "drained" \/ closer = "closed" =>
        UNCHANGED <<installed, shown>> ]_vars
<1> SUFFICES ASSUME IInv, Next, closer \in {"drained", "closed"}
             PROVE  UNCHANGED <<installed, shown>>
  OBVIOUS
<1>1. /\ main = "returned" /\ poll = "exited" /\ sse = "exited"
      /\ fetch = "idle" /\ \A r \in Regs : reg[r] = "free"
  BY DEF IInv, CloseInv, LoopsInv
<1>2. ~MainStep
  BY <1>1 DEF MainStep, MainReady, MainRegister, MainFetched,
     MainStartLoops, MainStore, MainReturn
<1>3. ~FetchStep
  BY <1>1 DEF FetchStep, FetchServe, FetchFail, FetchInstall, FetchRecord
<1>4. ~PollStep /\ ~PollExit
  BY <1>1 DEF PollStep, PollTick, PollTriggered, PollFailed, PollSucceeded,
     PollExit
<1>5. ~SSEStep
  BY <1>1 DEF SSEStep, SSEConnect, SSEDeliver, SSEDisconnect, SSEResume,
     SSEExit
<1>6. \A r \in Regs : ~RegStep(r)
  BY <1>1 DEF RegStep, RegServe, RegFail, RegRules, RegFault, RegEnd
<1>7. Publish \/ CloseStep
  BY <1>2, <1>3, <1>4, <1>5, <1>6 DEF Next
<1>8. QED
  BY <1>7 DEF Publish, CloseStep, CloseCancel, CloseDrained,
     CloseDeregister, installed, targets, shown

(* Once Close has waited, no goroutine touches the evaluator, the demo     *)
(* evaluator, the delay source, the version or the status                  *)
(* (manteion_client.go:79-82).                                             *)
THEOREM SpecNothingAfterClose == Spec => NothingAfterClose
  BY SpecIInv, QuietStep, PTL DEF Spec, NothingAfterClose
=============================================================================
