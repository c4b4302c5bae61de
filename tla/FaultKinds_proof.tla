-------------------------- MODULE FaultKinds_proof --------------------------
(***************************************************************************)
(* Proofs about the kinds of fault: about FaultKinds, for every            *)
(* configuration, rate, duration and number of workers, and, in its last   *)
(* section, about NetworkProxy, for every number of connections and of     *)
(* chunks.                                                                 *)
(***************************************************************************)
EXTENDS FaultKinds, NetworkProxy, FiniteSetTheorems, FunctionTheorems, TLAPS

(* The safety part of FairSpec.                                            *)
Spec == Init /\ [][Next]_vars

(* At most one fault was started.                                          *)
OneFault ==
  \/ NoMemory /\ NoCpu /\ NoInline
  \/ NoRated /\ NoCpu /\ NoInline
  \/ NoRated /\ NoMemory /\ NoInline
  \/ NoRated /\ NoMemory /\ NoCpu

(* Ranges of the variables that the invariants below rest on.              *)
TypesInv ==
  /\ ratedConfig \in RatedConfigs \cup {Rated!Unset}
  /\ cpuConfig \in CpuConfigs \cup {Cpu!Unset}
  /\ ratedRun \in {"idle", "writing", "failed", "running", "sent", "cleaned"}
  /\ cpuRun \in {"idle", "running", "sent"}
  /\ phase \in {"idle", "alloc", "hold", "release", "cleanup", "free", "sent"}
  /\ inlineRun \in {"idle", "running", "sent"}
  /\ clock \in Nat
  /\ DOMAIN ratedPc = Workers
  /\ DOMAIN cpuPc = CPUs

(* The bucket never gave more than its rate since it was last refilled.    *)
BucketInv ==
  /\ rate \in 1..TargetRate
  /\ lastTick \in 0..clock
  /\ capacity \in Nat /\ tokens \in 0..capacity /\ acquired \in Int
  /\ Second * (acquired + tokens)
       <= Second * Rated!BucketCapacity(TargetRate) + TargetRate * lastTick

(* The timer armed with the announcement of a phase fires no earlier than  *)
(* the phase ends.                                                         *)
Up   == IF NoCpu THEN ratedConfig.up ELSE cpuConfig.up
Down == IF NoCpu THEN ratedConfig.down ELSE cpuConfig.down
Span == IF NoCpu THEN Duration ELSE CpuDuration

AlarmInv ==
  /\ alarm \in Int
  /\ emitter = "up" => alarm >= Up
  /\ emitter = "sustain" => alarm >= Span - Down
  /\ emitter = "down" => clock >= Span - Down

(* A thrash worker's index lies in the slice it saw.                       *)
ThrashInv ==
  /\ length \in Nat
  /\ n \in [Thrashers -> Nat] /\ at \in [Thrashers -> Nat]
  /\ DOMAIN thrashPc = Thrashers /\ DOMAIN live = Thrashers
  /\ \A w \in Thrashers :
       thrashPc[w] \in {"loop", "load", "walk"} => at[w] < n[w]
  /\ \A w \in Thrashers : thrashPc[w] = "walk" => "ptr" \in live[w]

(* Nothing of a fault is at work before it starts and once its result is   *)
(* sent.                                                                   *)
RestInv ==
  /\ ratedRun # "running" =>
       ~ramp /\ \A w \in Workers : ratedPc[w] = "exited"
  /\ cpuRun # "running" => \A w \in CPUs : cpuPc[w] \in {"off", "exited"}
  /\ phase \in {"idle", "sent"} => length = 0
  /\ phase \notin {"hold", "release", "cleanup"} =>
       \A w \in Thrashers : thrashPc[w] \in {"off", "exited"}
  /\ ratedRun # "running" /\ cpuRun # "running" => emitter \in {"off", "gone"}
  /\ ratedRun \in {"idle", "writing"} /\ cpuRun = "idle" => emitter = "off"

(* The inductive invariant.                                                *)
IInv ==
  /\ OneFault /\ TypesInv /\ BucketInv /\ AlarmInv /\ ThrashInv /\ RestInv
  /\ ErrIsTheCallers

-----------------------------------------------------------------------------
(* What the steps of each kind do to what the kinds share. *)

(* The contexts: nothing, or one of them ends, or a result is sent.        *)
ContextEnds ==
  \/ Life!Cancel \/ Life!CallerEnds
  \/ ~Life!ContextDone /\ ownErr' = Life!Expired /\ UNCHANGED ctxErr

ContextsStep ==
  \/ UNCHANGED contexts
  \/ ContextEnds /\ UNCHANGED err
  \/ err' = Life!StressErr /\ UNCHANGED <<ctxErr, ownErr>>

(* What a step of an I/O or disk fault does to the contexts, the clock,    *)
(* the bucket and the announcing goroutine.                                *)
LEMMA RatedFrame ==
  ASSUME Rated!Next
  PROVE  /\ ContextsStep
         /\ \/ UNCHANGED <<clock, rate, tokens, capacity, lastTick, acquired>>
            \/ Rated!Tick \/ Rated!RampTick
            \/ \E w \in Workers : Rated!Acquire(w)
         /\ \/ UNCHANGED <<clock, phases, ratedConfig>>
            \/ Rated!Tick \/ Rated!Launch \/ Rated!AnnouncePhase
            \/ emitter' = "gone" /\ UNCHANGED <<clock, alarm, ratedConfig>>
            \/ /\ NoRated /\ ratedConfig' \in RatedConfigs
               /\ UNCHANGED <<clock, phases>>
<1> USE DEF ContextsStep, ContextEnds, contexts, phases, NoRated,
            Rated!started, Rated!times, Rated!phases, Rated!bucket,
            Rated!ramping, Rated!workers, Rated!disk, Rated!contexts,
            Rated!Cancel, Rated!CallerEnds, Rated!ContextDone, Rated!Expired,
            Rated!StressErr, Rated!Errors, Life!Cancel, Life!CallerEnds,
            Life!ContextDone, Life!Expired, Life!StressErr, Life!Errors,
            Life!contexts
<1>1. CASE \E c \in RatedConfigs : Rated!Start(c)
  BY <1>1 DEF Rated!Start
<1>2. CASE Rated!WriteFile
  BY <1>2 DEF Rated!WriteFile
<1>3. CASE Rated!WriteFileFails
  BY <1>3 DEF Rated!WriteFileFails
<1>4. CASE Rated!Launch
  BY <1>4 DEF Rated!Launch
<1>5. CASE Rated!Tick
  BY <1>5 DEF Rated!Tick
<1>6. CASE Rated!Interrupt
  BY <1>6 DEF Rated!Interrupt
<1>7. CASE Rated!AnnouncePhase
  BY <1>7 DEF Rated!AnnouncePhase
<1>8. CASE Rated!EmitterEnds
  BY <1>8 DEF Rated!EmitterEnds, Rated!Phases!EmitterExit
<1>9. CASE Rated!RampTick
  BY <1>9 DEF Rated!RampTick
<1>10. CASE Rated!RampExit
  BY <1>10 DEF Rated!RampExit
<1>11. CASE \E w \in Workers : Rated!BeginAcquire(w)
  BY <1>11 DEF Rated!BeginAcquire
<1>12. CASE \E w \in Workers : Rated!Acquire(w)
  BY <1>12 DEF Rated!Acquire
<1>13. CASE \E w \in Workers : Rated!Operate(w)
  BY <1>13 DEF Rated!Operate
<1>14. CASE \E w \in Workers : Rated!OperationFails(w)
  BY <1>14 DEF Rated!OperationFails
<1>15. CASE \E w \in Workers : Rated!WorkerExit(w)
  BY <1>15 DEF Rated!WorkerExit
<1>16. CASE Rated!SendResult
  BY <1>16 DEF Rated!SendResult
<1>17. CASE Rated!Cleanup
  BY <1>17 DEF Rated!Cleanup
<1>18. QED
  BY <1>1, <1>2, <1>3, <1>4, <1>5, <1>6, <1>7, <1>8, <1>9, <1>10, <1>11,
     <1>12, <1>13, <1>14, <1>15, <1>16, <1>17
     DEF Rated!Next, Rated!WorkerStep

(* The same of a CPU fault.                                                *)
LEMMA CpuFrame ==
  ASSUME Cpu!Next
  PROVE  /\ ContextsStep
         /\ \/ UNCHANGED <<clock, phases, cpuConfig>>
            \/ Cpu!Tick \/ Cpu!AnnouncePhase
            \/ \E c \in CpuConfigs : Cpu!Start(c)
            \/ emitter' = "gone" /\ UNCHANGED <<clock, alarm, cpuConfig>>
<1> USE DEF ContextsStep, ContextEnds, contexts, phases, NoRated, Cpu!phases,
            Cpu!workers, Cpu!contexts, Cpu!Cancel, Cpu!CallerEnds,
            Cpu!ContextDone, Cpu!Expired, Cpu!StressErr, Cpu!Errors,
            Life!Cancel, Life!CallerEnds, Life!ContextDone, Life!Expired,
            Life!StressErr, Life!Errors, Life!contexts
<1>1. CASE \E c \in CpuConfigs : Cpu!Start(c)
  BY <1>1 DEF Cpu!Start
<1>2. CASE Cpu!Tick
  BY <1>2 DEF Cpu!Tick
<1>3. CASE Cpu!Interrupt
  BY <1>3 DEF Cpu!Interrupt
<1>4. CASE Cpu!AnnouncePhase
  BY <1>4 DEF Cpu!AnnouncePhase
<1>5. CASE Cpu!EmitterEnds
  BY <1>5 DEF Cpu!EmitterEnds, Cpu!Phases!EmitterExit
<1>6. CASE \E w \in CPUs : Cpu!BeginWindow(w)
  BY <1>6 DEF Cpu!BeginWindow
<1>7. CASE \E w \in CPUs : Cpu!EndBurn(w)
  BY <1>7 DEF Cpu!EndBurn
<1>8. CASE \E w \in CPUs : Cpu!EndSleep(w)
  BY <1>8 DEF Cpu!EndSleep
<1>9. CASE \E w \in CPUs : Cpu!WorkerExit(w)
  BY <1>9 DEF Cpu!WorkerExit
<1>10. CASE Cpu!SendResult
  BY <1>10 DEF Cpu!SendResult
<1>11. QED
  BY <1>1, <1>2, <1>3, <1>4, <1>5, <1>6, <1>7, <1>8, <1>9, <1>10
     DEF Cpu!Next, Cpu!WorkerStep

(* Of a memory fault only the contexts matter to the others.               *)
LEMMA MemoryFrame ==
  ASSUME Memory!Next
  PROVE  ContextsStep
<1> USE DEF ContextsStep, ContextEnds, contexts, phases, NoRated,
            Memory!workers, Memory!contexts, Memory!Cancel,
            Memory!CallerEnds, Memory!ContextDone, Memory!Expired,
            Memory!StressErr, Memory!Errors, Life!Cancel, Life!CallerEnds,
            Life!ContextDone, Life!Expired, Life!StressErr, Life!Errors,
            Life!contexts
<1>1. CASE Memory!Start
  BY <1>1 DEF Memory!Start
<1>2. CASE Memory!Deadline
  BY <1>2 DEF Memory!Deadline
<1>3. CASE Memory!Interrupt
  BY <1>3 DEF Memory!Interrupt
<1>4. CASE Memory!Allocate
  BY <1>4 DEF Memory!Allocate
<1>5. CASE Memory!AllocationStops
  BY <1>5 DEF Memory!AllocationStops
<1>6. CASE Memory!SpawnThrashers
  BY <1>6 DEF Memory!SpawnThrashers
<1>7. CASE Memory!HoldEnds
  BY <1>7 DEF Memory!HoldEnds
<1>8. CASE Memory!ClearWord
  BY <1>8 DEF Memory!ClearWord
<1>9. CASE Memory!Truncate
  BY <1>9 DEF Memory!Truncate
<1>10. CASE Memory!ReleaseEnds
  BY <1>10 DEF Memory!ReleaseEnds
<1>11. CASE Memory!CancelThrashers
  BY <1>11 DEF Memory!CancelThrashers
<1>12. CASE Memory!ThrashersGone
  BY <1>12 DEF Memory!ThrashersGone
<1>13. CASE Memory!SendResult
  BY <1>13 DEF Memory!SendResult
<1>14. CASE \E w \in Thrashers : Memory!ThrashStart(w)
  BY <1>14 DEF Memory!ThrashStart
<1>15. CASE \E w \in Thrashers : Memory!ThrashLoop(w)
  BY <1>15 DEF Memory!ThrashLoop
<1>16. CASE \E w \in Thrashers : Memory!LoadWord(w)
  BY <1>16 DEF Memory!LoadWord
<1>17. CASE \E w \in Thrashers : Memory!TestNil(w)
  BY <1>17 DEF Memory!TestNil
<1>18. CASE \E w \in Thrashers : Memory!Walk(w)
  BY <1>18 DEF Memory!Walk
<1>19. QED
  BY <1>1, <1>2, <1>3, <1>4, <1>5, <1>6, <1>7, <1>8, <1>9, <1>10, <1>11,
     <1>12, <1>13, <1>14, <1>15, <1>16, <1>17, <1>18
     DEF Memory!Next, Memory!FaultStep, Memory!ThrashStep

-----------------------------------------------------------------------------
(* Each conjunct of the invariant in turn: the error.                      *)
LEMMA KeepsErr ==
  ASSUME IInv, Next
  PROVE  ErrIsTheCallers'
<1> USE DEF IInv, ErrIsTheCallers, ContextsStep, ContextEnds, contexts,
            Life!Cancel, Life!CallerEnds, Life!StressErr, Life!Errors
<1>1. CASE RatedStep
  <2>1. ContextsStep /\ UNCHANGED inlineRun
    BY <1>1, RatedFrame DEF RatedStep, inlineVars
  <2>2. QED
    BY <2>1
<1>2. CASE MemoryStep
  <2>1. ContextsStep /\ UNCHANGED inlineRun
    BY <1>2, MemoryFrame DEF MemoryStep, inlineVars
  <2>2. QED
    BY <2>1
<1>3. CASE CpuStep
  <2>1. ContextsStep /\ UNCHANGED inlineRun
    BY <1>3, CpuFrame DEF CpuStep, inlineVars
  <2>2. QED
    BY <2>1
<1>4. CASE InlineStep
  BY <1>4 DEF InlineStep, Inline!Next, Inline!Start, Inline!Tick,
              Inline!Interrupt, Inline!SendResult, Inline!Send
<1>5. QED
  BY <1>1, <1>2, <1>3, <1>4 DEF Next

(* One fault at most, its ranges, and rest before and after it: by kind.   *)
LEMMA RatedKeepsRest ==
  ASSUME IInv, RatedStep
  PROVE  (OneFault /\ TypesInv /\ RestInv)'
<1> USE DEF IInv, OneFault, TypesInv, RestInv, NoRated, NoMemory, NoCpu,
            NoInline, ratedVars, memoryVars, cpuVars, inlineVars, phases,
            Rated!started, Rated!times, Rated!phases, Rated!bucket,
            Rated!ramping, Rated!workers, Rated!disk, Rated!contexts
<1>0. /\ Rated!Next /\ NoCpu /\ NoMemory /\ NoInline
      /\ UNCHANGED <<cpuVars, memoryVars, inlineVars>>
  BY DEF RatedStep
<1>1. CASE \E c \in RatedConfigs : Rated!Start(c)
  BY <1>1, <1>0 DEF Rated!Start, Rated!ContextDone
<1>2. CASE Rated!WriteFile
  BY <1>2, <1>0 DEF Rated!WriteFile
<1>3. CASE Rated!WriteFileFails
  BY <1>3, <1>0 DEF Rated!WriteFileFails
<1>4. CASE Rated!Launch
  BY <1>4, <1>0 DEF Rated!Launch, Rated!Phases!SpawnEmitter
<1>5. CASE Rated!Tick
  BY <1>5, <1>0 DEF Rated!Tick
<1>6. CASE Rated!Interrupt
  BY <1>6, <1>0 DEF Rated!Interrupt
<1>7. CASE Rated!AnnouncePhase
  BY <1>7, <1>0
     DEF Rated!AnnouncePhase, Rated!Phases!EmitterStep,
         Rated!Phases!AnnounceSustain, Rated!Phases!Announce
<1>8. CASE Rated!EmitterEnds
  BY <1>8, <1>0 DEF Rated!EmitterEnds, Rated!Phases!EmitterExit
<1>9. CASE Rated!RampTick
  BY <1>9, <1>0 DEF Rated!RampTick
<1>10. CASE Rated!RampExit
  BY <1>10, <1>0 DEF Rated!RampExit
<1>11. CASE \E w \in Workers : Rated!BeginAcquire(w)
  BY <1>11, <1>0 DEF Rated!BeginAcquire, Rated!Goes, Rated!TimersOff
<1>12. CASE \E w \in Workers : Rated!Acquire(w)
  BY <1>12, <1>0 DEF Rated!Acquire, Rated!Goes, Rated!TimersOff
<1>13. CASE \E w \in Workers : Rated!Operate(w)
  BY <1>13, <1>0 DEF Rated!Operate, Rated!Goes, Rated!TimersOff
<1>14. CASE \E w \in Workers : Rated!OperationFails(w)
  BY <1>14, <1>0 DEF Rated!OperationFails, Rated!Goes, Rated!TimersOff
<1>15. CASE \E w \in Workers : Rated!WorkerExit(w)
  BY <1>15, <1>0 DEF Rated!WorkerExit, Rated!Goes, Rated!TimersOff
<1>16. CASE Rated!SendResult
  BY <1>16, <1>0 DEF Rated!SendResult, Rated!Busy, Rated!Phases!EmitterGone
<1>17. CASE Rated!Cleanup
  BY <1>17, <1>0 DEF Rated!Cleanup
<1>18. QED
  BY <1>0, <1>1, <1>2, <1>3, <1>4, <1>5, <1>6, <1>7, <1>8, <1>9, <1>10,
     <1>11, <1>12, <1>13, <1>14, <1>15, <1>16, <1>17
     DEF Rated!Next, Rated!WorkerStep

LEMMA CpuKeepsRest ==
  ASSUME IInv, CpuStep
  PROVE  (OneFault /\ TypesInv /\ RestInv)'
<1> USE DEF IInv, OneFault, TypesInv, RestInv, NoRated, NoMemory, NoCpu,
            NoInline, ratedVars, memoryVars, cpuVars, inlineVars, phases,
            Cpu!phases, Cpu!workers, Cpu!contexts
<1>0. /\ Cpu!Next /\ NoRated /\ NoMemory /\ NoInline
      /\ UNCHANGED <<ratedVars, memoryVars, inlineVars>>
  BY DEF CpuStep
<1>1. CASE \E c \in CpuConfigs : Cpu!Start(c)
  BY <1>1, <1>0 DEF Cpu!Start, Cpu!Phases!SpawnEmitter
<1>2. CASE Cpu!Tick
  BY <1>2, <1>0 DEF Cpu!Tick
<1>3. CASE Cpu!Interrupt
  BY <1>3, <1>0 DEF Cpu!Interrupt
<1>4. CASE Cpu!AnnouncePhase
  BY <1>4, <1>0
     DEF Cpu!AnnouncePhase, Cpu!Phases!EmitterStep,
         Cpu!Phases!AnnounceSustain, Cpu!Phases!Announce
<1>5. CASE Cpu!EmitterEnds
  BY <1>5, <1>0 DEF Cpu!EmitterEnds, Cpu!Phases!EmitterExit
<1>6. CASE \E w \in CPUs : Cpu!BeginWindow(w)
  BY <1>6, <1>0 DEF Cpu!BeginWindow
<1>7. CASE \E w \in CPUs : Cpu!EndBurn(w)
  BY <1>7, <1>0 DEF Cpu!EndBurn
<1>8. CASE \E w \in CPUs : Cpu!EndSleep(w)
  BY <1>8, <1>0 DEF Cpu!EndSleep
<1>9. CASE \E w \in CPUs : Cpu!WorkerExit(w)
  BY <1>9, <1>0 DEF Cpu!WorkerExit
<1>10. CASE Cpu!SendResult
  BY <1>10, <1>0 DEF Cpu!SendResult, Cpu!Busy, Cpu!Phases!EmitterGone
<1>11. QED
  BY <1>0, <1>1, <1>2, <1>3, <1>4, <1>5, <1>6, <1>7, <1>8, <1>9, <1>10
     DEF Cpu!Next, Cpu!WorkerStep

LEMMA MemoryKeepsRest ==
  ASSUME IInv, MemoryStep
  PROVE  (OneFault /\ TypesInv /\ RestInv)'
<1> USE DEF IInv, OneFault, TypesInv, RestInv, NoRated, NoMemory, NoCpu,
            NoInline, ratedVars, memoryVars, cpuVars, inlineVars, phases,
            Memory!workers, Memory!contexts
<1>0. /\ Memory!Next /\ NoRated /\ NoCpu /\ NoInline
      /\ UNCHANGED <<clock, phases, ratedVars, cpuVars, inlineVars>>
  BY DEF MemoryStep
<1>1. CASE Memory!Start
  BY <1>1, <1>0 DEF Memory!Start, Memory!ContextDone
<1>2. CASE Memory!Deadline
  BY <1>2, <1>0 DEF Memory!Deadline
<1>3. CASE Memory!Interrupt
  BY <1>3, <1>0 DEF Memory!Interrupt
<1>4. CASE Memory!Allocate
  BY <1>4, <1>0 DEF Memory!Allocate
<1>5. CASE Memory!AllocationStops
  BY <1>5, <1>0 DEF Memory!AllocationStops
<1>6. CASE Memory!SpawnThrashers
  BY <1>6, <1>0 DEF Memory!SpawnThrashers
<1>7. CASE Memory!HoldEnds
  BY <1>7, <1>0 DEF Memory!HoldEnds
<1>8. CASE Memory!ClearWord
  BY <1>8, <1>0 DEF Memory!ClearWord
<1>9. CASE Memory!Truncate
  BY <1>9, <1>0 DEF Memory!Truncate
<1>10. CASE Memory!ReleaseEnds
  BY <1>10, <1>0 DEF Memory!ReleaseEnds
<1>11. CASE Memory!CancelThrashers
  BY <1>11, <1>0 DEF Memory!CancelThrashers
<1>12. CASE Memory!ThrashersGone
  BY <1>12, <1>0 DEF Memory!ThrashersGone
<1>13. CASE Memory!SendResult
  BY <1>13, <1>0 DEF Memory!SendResult, Memory!ContextDone
<1>14. CASE \E w \in Thrashers : Memory!ThrashStart(w)
  BY <1>14, <1>0 DEF Memory!ThrashStart
<1>15. CASE \E w \in Thrashers : Memory!ThrashLoop(w)
  BY <1>15, <1>0 DEF Memory!ThrashLoop
<1>16. CASE \E w \in Thrashers : Memory!LoadWord(w)
  BY <1>16, <1>0 DEF Memory!LoadWord
<1>17. CASE \E w \in Thrashers : Memory!TestNil(w)
  BY <1>17, <1>0 DEF Memory!TestNil
<1>18. CASE \E w \in Thrashers : Memory!Walk(w)
  BY <1>18, <1>0 DEF Memory!Walk
<1>19. QED
  BY <1>0, <1>1, <1>2, <1>3, <1>4, <1>5, <1>6, <1>7, <1>8, <1>9, <1>10,
     <1>11, <1>12, <1>13, <1>14, <1>15, <1>16, <1>17, <1>18
     DEF Memory!Next, Memory!FaultStep, Memory!ThrashStep

LEMMA InlineKeepsRest ==
  ASSUME IInv, InlineStep
  PROVE  (OneFault /\ TypesInv /\ RestInv)'
<1> USE DEF IInv, OneFault, TypesInv, RestInv, NoRated, NoMemory, NoCpu,
            NoInline, ratedVars, memoryVars, cpuVars, inlineVars, phases,
            Inline!contexts
<1>0. /\ Inline!Next /\ NoRated /\ NoCpu /\ NoMemory
      /\ UNCHANGED <<phases, ratedVars, cpuVars, memoryVars>>
  BY DEF InlineStep
<1>1. CASE \E k \in Inline!Kinds : Inline!Start(k)
  BY <1>1, <1>0 DEF Inline!Start, Inline!ContextDone
<1>2. CASE Inline!Tick
  BY <1>2, <1>0 DEF Inline!Tick
<1>3. CASE Inline!Interrupt
  BY <1>3, <1>0 DEF Inline!Interrupt
<1>4. CASE Inline!SendResult
  BY <1>4, <1>0 DEF Inline!SendResult, Inline!Send
<1>5. QED
  BY <1>0, <1>1, <1>2, <1>3, <1>4 DEF Inline!Next

-----------------------------------------------------------------------------
(* The bucket. *)

(* Facts of arithmetic.                                                    *)
LEMMA DivBound ==
  ASSUME NEW a \in Int, NEW b \in Nat \ {0}
  PROVE  a \div b \in Int /\ b * (a \div b) <= a
  OBVIOUS

LEMMA DivAtMost ==
  ASSUME NEW a \in Int, NEW b \in Nat \ {0}, NEW c \in Nat, a <= b * c
  PROVE  a \div b \in Int /\ a \div b <= c
  OBVIOUS

LEMMA TimesMonotone ==
  ASSUME NEW a \in Int, NEW b \in Int, NEW c \in Nat, a <= b
  PROVE  a * c <= b * c /\ c * a <= c * b
  OBVIOUS

LEMMA RatedConstants ==
  /\ Need \in Nat \ {0} /\ TargetRate \in Nat \ {0} /\ Second \in Nat \ {0}
  /\ Interval \in Nat \ {0} /\ Duration \in Nat \ {0}
  BY Configured DEF Rated!ConfigOK

(* The times of the ramps.                                                 *)
LEMMA RampsTyped ==
  ASSUME TypesInv
  PROVE  /\ ratedConfig.up \in Nat /\ ratedConfig.down \in Nat
         /\ cpuConfig.up \in Nat /\ cpuConfig.down \in Nat
<1>1. \A c \in RatedConfigs \cup {Rated!Unset} : c.up \in Nat /\ c.down \in Nat
  BY Configured DEF Rated!ConfigOK, Rated!Config, Rated!Unset
<1>2. \A c \in CpuConfigs \cup {Cpu!Unset} : c.up \in Nat /\ c.down \in Nat
  BY Configured DEF Cpu!ConfigOK, Cpu!Config, Cpu!Unset
<1>3. QED
  BY <1>1, <1>2 DEF TypesInv

(* A bucket's capacity is a number of bytes.                               *)
LEMMA CapacityTyped ==
  ASSUME NEW r \in Nat
  PROVE  Rated!BucketCapacity(r) \in Nat
<1>1. (r * Interval) \div Second \in Int
  BY RatedConstants, DivBound
<1>2. QED
  BY <1>1, RatedConstants DEF Rated!BucketCapacity

(* The ramp controller never sets a rate above the target.                 *)
LEMMA RampRateBounded ==
  ASSUME TypesInv
  PROVE  Rated!RampRate(clock) \in 1..TargetRate
<1>1. /\ TargetRate \in Nat \ {0} /\ Duration \in Nat /\ clock \in Nat
      /\ ratedConfig.up \in Nat /\ ratedConfig.down \in Nat
  BY RatedConstants, RampsTyped DEF TypesInv
<1>2. ASSUME ratedConfig.up > 0, clock < ratedConfig.up
      PROVE  /\ (TargetRate * clock) \div ratedConfig.up \in Int
             /\ (TargetRate * clock) \div ratedConfig.up <= TargetRate
  <2>1. TargetRate * clock <= ratedConfig.up * TargetRate
    BY <1>1, <1>2, TimesMonotone
  <2>2. QED
    BY <1>1, <1>2, <2>1, DivAtMost
<1>3. ASSUME ratedConfig.down > 0, clock >= Duration - ratedConfig.down
      PROVE  LET r == (TargetRate * (Duration - clock)) \div ratedConfig.down
             IN  r \in Int /\ r <= TargetRate
  <2>1. TargetRate * (Duration - clock) \in Int
    BY <1>1
  <2>2. TargetRate * (Duration - clock) <= ratedConfig.down * TargetRate
    <3>1. CASE Duration - clock >= 0
      BY <1>1, <1>3, <3>1, TimesMonotone
    <3>2. CASE Duration - clock < 0
      BY <1>1, <3>2
    <3>3. QED
      BY <1>1, <3>1, <3>2
  <2>3. QED
    BY <1>1, <1>3, <2>1, <2>2, DivAtMost
<1>4. QED
  BY <1>1, <1>2, <1>3 DEF Rated!RampRate

(* A refill fills the bucket at most, and adds no more than what the time  *)
(* since the last one is worth at the target rate.                         *)
LEMMA RefillBounded ==
  ASSUME IInv
  PROVE  /\ Rated!Refilled \in 0..capacity
         /\ Second * (Rated!Refilled - tokens)
              <= TargetRate * (clock - lastTick)
<1> DEFINE elapsed == clock - lastTick
           gained == (rate * elapsed) \div Second
<1>1. /\ elapsed \in Nat /\ rate \in Nat /\ rate <= TargetRate
      /\ tokens \in 0..capacity /\ capacity \in Nat
      /\ TargetRate \in Nat /\ Second \in Nat \ {0}
  BY RatedConstants DEF IInv, BucketInv, TypesInv
<1> HIDE DEF elapsed
<1>2. rate * elapsed \in Nat /\ rate * elapsed <= TargetRate * elapsed
  BY <1>1, TimesMonotone
<1>3. gained \in Nat /\ Second * gained <= rate * elapsed
  BY <1>1, <1>2, DivBound
<1>4. Rated!Refilled \in 0..capacity /\ Rated!Refilled - tokens <= gained
  BY <1>1, <1>3 DEF Rated!Refilled, Rated!Smaller, elapsed
<1> HIDE DEF gained
<1>5. Second * (Rated!Refilled - tokens) <= Second * gained
  <2>1. PICK x \in Int : x = Rated!Refilled - tokens
    BY <1>1, <1>4
  <2>2. Second * x <= Second * gained
    BY <1>1, <1>3, <1>4, <2>1
  <2>3. QED
    BY <2>1, <2>2
<1>6. QED
  BY <1>1, <1>2, <1>3, <1>4, <1>5 DEF elapsed

(* Only a refill adds to what was given and what is left, and it moves     *)
(* lastTick with it; what is spent was there; the ramp controller sets a   *)
(* rate of at most the target, and cuts the tokens to the new capacity.    *)
LEMMA KeepsBucket ==
  ASSUME IInv, Next
  PROVE  BucketInv'
<1>0. /\ TargetRate \in Nat \ {0} /\ Second \in Nat \ {0} /\ Need \in Nat
      /\ BucketInv /\ clock \in Nat
      /\ Rated!BucketCapacity(TargetRate) \in Nat
  BY RatedConstants, CapacityTyped DEF IInv, TypesInv
<1>1. CASE RatedStep
  <2>1. Rated!Next
    BY <1>1 DEF RatedStep
  <2>2. CASE UNCHANGED <<clock, rate, tokens, capacity, lastTick, acquired>>
    BY <1>0, <2>2 DEF BucketInv
  <2>3. CASE Rated!Tick
    BY <1>0, <2>3 DEF BucketInv, Rated!Tick, Rated!bucket, Rated!workers
  <2>4. CASE Rated!RampTick
    <3>1. rate' \in 1..TargetRate /\ capacity' \in Nat
      BY <1>0, <2>4, RampRateBounded, CapacityTyped DEF IInv, Rated!RampTick
    <3>2. tokens' \in 0..capacity' /\ tokens' <= tokens
      BY <1>0, <2>4, <3>1 DEF BucketInv, Rated!RampTick, Rated!Smaller
    <3>3. UNCHANGED <<clock, lastTick, acquired>>
      BY <2>4 DEF Rated!RampTick, Rated!times, Rated!workers
    <3>4. Second * (acquired + tokens') <= Second * (acquired + tokens)
      <4>1. PICK a \in Int, b \in Int, c \in Int :
              a = acquired /\ b = tokens /\ c = tokens'
        BY <1>0, <3>2 DEF BucketInv
      <4>2. c <= b
        BY <3>2, <4>1
      <4>3. a + c <= a + b /\ a + c \in Int /\ a + b \in Int
        BY <4>2
      <4>4. Second * (a + c) <= Second * (a + b)
        BY <1>0, <4>3, TimesMonotone
      <4>5. QED
        BY <4>1, <4>4
    <3>5. QED
      BY <1>0, <3>1, <3>2, <3>3, <3>4 DEF BucketInv
  <2>5. CASE \E w \in Workers : Rated!Acquire(w)
    <3>1. /\ lastTick' = clock /\ UNCHANGED <<clock, rate, capacity>>
          /\ tokens' \in 0..capacity /\ acquired' \in Int
          /\ acquired' + tokens' = acquired + Rated!Refilled
      BY <1>0, <2>5, RefillBounded DEF BucketInv, Rated!Acquire, Rated!times
    <3>2. Second * (acquired + Rated!Refilled)
            <= Second * (acquired + tokens) + TargetRate * (clock - lastTick)
      <4>1. PICK x \in Int : x = Rated!Refilled
        BY RefillBounded
      <4>2. Second * (x - tokens) <= TargetRate * (clock - lastTick)
        BY <4>1, RefillBounded
      <4>3. Second * (acquired + x)
              = Second * (acquired + tokens) + Second * (x - tokens)
        BY <1>0 DEF BucketInv
      <4>4. QED
        BY <1>0, <4>1, <4>2, <4>3 DEF BucketInv
    <3>3. QED
      BY <1>0, <3>1, <3>2 DEF BucketInv
  <2>6. QED
    BY <2>1, <2>2, <2>3, <2>4, <2>5, RatedFrame
<1>2. CASE MemoryStep
  BY <1>0, <1>2 DEF MemoryStep, BucketInv, ratedVars
<1>3. CASE CpuStep
  <2>1. UNCHANGED ratedVars /\ (clock' = clock \/ clock' = clock + 1)
    BY <1>3, CpuFrame DEF CpuStep, Cpu!Tick, Cpu!AnnouncePhase, Cpu!Start
  <2>2. QED
    BY <1>0, <2>1 DEF BucketInv, ratedVars
<1>4. CASE InlineStep
  <2>1. UNCHANGED ratedVars /\ (clock' = clock \/ clock' = clock + 1)
    BY <1>4 DEF InlineStep, Inline!Next, Inline!Start, Inline!Tick,
                Inline!Interrupt, Inline!SendResult, Inline!Send
  <2>2. QED
    BY <1>0, <2>1 DEF BucketInv, ratedVars
<1>5. QED
  BY <1>1, <1>2, <1>3, <1>4 DEF Next

-----------------------------------------------------------------------------
(* The announcements. *)

(* A step of the announcing goroutine, of either kind: it arms the timer   *)
(* of a phase with what is left of the fault until the phase ends.         *)
AnnounceStep ==
  \/ emitter = "spawned" /\ Up > 0 /\ emitter' = "up" /\ alarm' = clock + Up
  \/ /\ \/ emitter = "spawned" /\ Up = 0
        \/ emitter = "up" /\ clock >= alarm
     /\ emitter' = "sustain"
     /\ alarm' = clock + Span - Down - Up
  \/ emitter = "sustain" /\ clock >= alarm /\ emitter' = "down"
     /\ alarm' = clock + Down
  \/ emitter' = "gone" /\ UNCHANGED alarm

(* Steps of anybody else leave the announcement alone, or are those of the *)
(* clock, the launch and the end of the goroutine.                         *)
AnnounceFrame ==
  \/ UNCHANGED <<emitter, alarm>> /\ (clock' = clock \/ clock' = clock + 1)
  \/ AnnounceStep /\ UNCHANGED clock
  \/ emitter' \in {"spawned", "gone"} /\ UNCHANGED <<alarm, clock>>

(* The clock may pass the alarm, never the announcement of the next phase. *)
LEMMA KeepsAlarm ==
  ASSUME IInv, Next
  PROVE  AlarmInv'
<1>0. /\ AlarmInv /\ clock \in Nat /\ Span \in Nat
      /\ Up \in Nat /\ Down \in Nat
  <2>1. Duration \in Nat /\ CpuDuration \in Nat
    BY RatedConstants, Configured DEF Cpu!ConfigOK
  <2>2. QED
    BY <2>1, RampsTyped DEF IInv, TypesInv, Up, Down, Span
<1>1. ASSUME AnnounceFrame,
             \/ UNCHANGED <<Up, Down, Span>>
             \/ emitter' \in {"off", "spawned", "gone"}
      PROVE  AlarmInv'
  <2>1. CASE emitter' \in {"off", "spawned", "gone"}
    BY <1>0, <1>1, <2>1 DEF AlarmInv, AnnounceFrame, AnnounceStep
  <2>2. CASE /\ emitter' \notin {"off", "spawned", "gone"}
             /\ UNCHANGED <<Up, Down, Span>>
    BY <1>0, <1>1, <2>2 DEF AlarmInv, AnnounceFrame, AnnounceStep
  <2>3. QED
    BY <1>1, <2>1, <2>2
<1>2. CASE RatedStep
  <2>1. Rated!Next /\ NoCpu /\ NoCpu'
    BY <1>2 DEF RatedStep, NoCpu, cpuVars
  <2>2. Up = ratedConfig.up /\ Down = ratedConfig.down /\ Span = Duration
    BY <2>1 DEF Up, Down, Span
  <2>3. ratedConfig' = ratedConfig => UNCHANGED <<Up, Down, Span>>
    BY <2>1 DEF Up, Down, Span
  <2>4. CASE UNCHANGED <<clock, phases, ratedConfig>>
    BY <1>1, <2>3, <2>4 DEF AnnounceFrame, phases
  <2>5. CASE Rated!Tick
    BY <1>1, <2>3, <2>5
       DEF AnnounceFrame, Rated!Tick, Rated!started, Rated!phases
  <2>6. CASE Rated!Launch
    BY <1>1, <2>3, <2>6
       DEF AnnounceFrame, Rated!Launch, Rated!Phases!SpawnEmitter
  <2>7. CASE Rated!AnnouncePhase
    <3>1. UNCHANGED <<clock, ratedConfig>>
      BY <2>7 DEF Rated!AnnouncePhase, Rated!started
    <3>2. AnnounceStep
      BY <1>0, <2>2, <2>7
         DEF AnnounceStep, Rated!AnnouncePhase, Rated!Phases!EmitterStep,
             Rated!Phases!AnnounceSustain, Rated!Phases!Announce,
             Rated!Phases!SustainTime
    <3>3. QED
      BY <1>1, <2>3, <3>1, <3>2 DEF AnnounceFrame
  <2>8. CASE emitter' = "gone" /\ UNCHANGED <<clock, alarm, ratedConfig>>
    BY <1>1, <2>8 DEF AnnounceFrame
  <2>9. CASE NoRated /\ UNCHANGED <<clock, phases>>
    <3>1. emitter' = "off"
      BY <2>1, <2>9 DEF IInv, RestInv, NoRated, NoCpu, phases
    <3>2. QED
      BY <1>1, <2>9, <3>1 DEF AnnounceFrame, phases
  <2>10. QED
    BY <2>1, <2>4, <2>5, <2>6, <2>7, <2>8, <2>9, RatedFrame
<1>3. CASE CpuStep
  <2>1. Cpu!Next /\ NoRated /\ UNCHANGED ratedVars
    BY <1>3 DEF CpuStep
  <2>2. CASE cpuRun = "idle"
    <3>1. emitter = "off"
      BY <2>1, <2>2 DEF IInv, RestInv, NoRated
    <3>2. emitter' \in {"off", "spawned", "gone"} /\ AnnounceFrame
      BY <2>1, <2>2, <3>1, CpuFrame
         DEF AnnounceFrame, phases, Cpu!Tick, Cpu!Start, Cpu!AnnouncePhase,
             Cpu!Phases!SpawnEmitter, Cpu!Phases!EmitterStep
    <3>3. QED
      BY <1>1, <3>2
  <2>3. CASE cpuRun # "idle"
    <3>1. cpuRun' # "idle"
      BY <2>1, <2>3 DEF Cpu!Next, Cpu!Start, Cpu!Tick, Cpu!Interrupt,
         Cpu!AnnouncePhase, Cpu!EmitterEnds, Cpu!WorkerStep, Cpu!BeginWindow,
         Cpu!EndBurn, Cpu!EndSleep, Cpu!WorkerExit, Cpu!SendResult
    <3>2. Up = cpuConfig.up /\ Down = cpuConfig.down /\ Span = CpuDuration
      BY <2>3 DEF Up, Down, Span, NoCpu
    <3>3. cpuConfig' = cpuConfig => UNCHANGED <<Up, Down, Span>>
      BY <2>3, <3>1 DEF Up, Down, Span, NoCpu
    <3>4. CASE UNCHANGED <<clock, phases, cpuConfig>>
      BY <1>1, <3>3, <3>4 DEF AnnounceFrame, phases
    <3>5. CASE Cpu!Tick
      BY <1>1, <3>3, <3>5 DEF AnnounceFrame, Cpu!Tick, Cpu!phases
    <3>6. CASE Cpu!AnnouncePhase
      <4>1. UNCHANGED <<clock, cpuConfig>>
        BY <3>6 DEF Cpu!AnnouncePhase
      <4>2. AnnounceStep
        BY <1>0, <3>2, <3>6
           DEF AnnounceStep, Cpu!AnnouncePhase, Cpu!Phases!EmitterStep,
               Cpu!Phases!AnnounceSustain, Cpu!Phases!Announce,
               Cpu!Phases!SustainTime
      <4>3. QED
        BY <1>1, <3>3, <4>1, <4>2 DEF AnnounceFrame
    <3>7. CASE emitter' = "gone" /\ UNCHANGED <<clock, alarm, cpuConfig>>
      BY <1>1, <3>7 DEF AnnounceFrame
    <3>8. QED
      BY <2>1, <2>3, <3>4, <3>5, <3>6, <3>7, CpuFrame DEF Cpu!Start
  <2>4. QED
    BY <2>2, <2>3
<1>4. CASE MemoryStep
  BY <1>1, <1>4
     DEF MemoryStep, AnnounceFrame, phases, ratedVars, cpuVars, Up, Down, Span,
         NoCpu
<1>5. CASE InlineStep
  <2>1. clock' = clock \/ clock' = clock + 1
    BY <1>5 DEF InlineStep, Inline!Next, Inline!Start, Inline!Tick,
                Inline!Interrupt, Inline!SendResult, Inline!Send
  <2>2. QED
    BY <1>1, <1>5, <2>1
       DEF InlineStep, AnnounceFrame, phases, ratedVars, cpuVars, Up, Down,
           Span, NoCpu
<1>6. QED
  BY <1>2, <1>3, <1>4, <1>5 DEF Next

-----------------------------------------------------------------------------
(* The thrash workers. *)

(* The index of a worker is below the length it read, which no step of the *)
(* release changes, and it walks only what was no nil pointer when it read *)
(* it.                                                                     *)
LEMMA KeepsThrash ==
  ASSUME IInv, Next
  PROVE  ThrashInv'
<1> USE DEF ThrashInv, Memory!workers
<1>0. ThrashInv /\ NumChunks \in Nat
  BY Configured DEF IInv, Memory!ConfigOK
<1>1. CASE UNCHANGED memoryVars
  BY <1>0, <1>1 DEF memoryVars
<1>2. CASE MemoryStep
  <2>0. Memory!Next
    BY <1>2 DEF MemoryStep
  <2>1. CASE UNCHANGED <<thrashPc, n, at, live>> /\ length' \in Nat
    BY <1>0, <2>1
  <2>2. CASE Memory!SpawnThrashers
    BY <1>0, <2>2 DEF Memory!SpawnThrashers
  <2>3. CASE \E w \in Thrashers : Memory!ThrashStart(w)
    BY <1>0, <2>3 DEF Memory!ThrashStart
  <2>4. CASE \E w \in Thrashers : Memory!ThrashLoop(w)
    BY <1>0, <2>4 DEF Memory!ThrashLoop
  <2>5. CASE \E w \in Thrashers : Memory!LoadWord(w)
    BY <1>0, <2>5 DEF Memory!LoadWord
  <2>6. CASE \E w \in Thrashers : Memory!TestNil(w)
    BY <1>0, <2>6 DEF Memory!TestNil, Memory!NextSlot, Memory!IsNil
  <2>7. CASE \E w \in Thrashers : Memory!Walk(w)
    BY <1>0, <2>7 DEF Memory!Walk, Memory!NextSlot
  <2>8. QED
    BY <1>0, <2>0, <2>1, <2>2, <2>3, <2>4, <2>5, <2>6, <2>7
       DEF Memory!Next, Memory!FaultStep, Memory!ThrashStep, Memory!Start,
           Memory!Deadline, Memory!Interrupt, Memory!Allocate,
           Memory!AllocationStops, Memory!HoldEnds, Memory!ClearWord,
           Memory!Truncate, Memory!ReleaseEnds, Memory!CancelThrashers,
           Memory!ThrashersGone, Memory!SendResult
<1>3. QED
  BY <1>1, <1>2 DEF Next, RatedStep, CpuStep, InlineStep

-----------------------------------------------------------------------------
(* The invariant. *)

LEMMA InitIInv ==
  ASSUME Init
  PROVE  IInv
<1>1. /\ OneFault /\ TypesInv /\ RestInv /\ ErrIsTheCallers
  BY DEF Init, Rated!Init, Memory!Init, Cpu!Init, Inline!Init, OneFault,
         TypesInv, RestInv, ErrIsTheCallers, NoRated, NoMemory, NoCpu,
         NoInline, Rated!Phases!EmitterInit, Rated!ContextInit
<1>2. BucketInv
  BY RatedConstants, CapacityTyped
     DEF Init, Rated!Init, BucketInv
<1>3. AlarmInv
  BY DEF Init, Rated!Init, AlarmInv, Rated!Phases!EmitterInit
<1>4. ThrashInv
  BY DEF Init, Memory!Init, ThrashInv
<1>5. QED
  BY <1>1, <1>2, <1>3, <1>4 DEF IInv

LEMMA KeepsIInv ==
  ASSUME IInv, [Next]_vars
  PROVE  IInv'
<1>1. CASE Next
  <2>1. (OneFault /\ TypesInv /\ RestInv)'
    BY <1>1, RatedKeepsRest, MemoryKeepsRest, CpuKeepsRest, InlineKeepsRest
       DEF Next
  <2>2. BucketInv' /\ AlarmInv' /\ ThrashInv' /\ ErrIsTheCallers'
    BY <1>1, KeepsBucket, KeepsAlarm, KeepsThrash, KeepsErr
  <2>3. QED
    BY <2>1, <2>2 DEF IInv
<1>2. CASE UNCHANGED vars
  <2>1. UNCHANGED <<contexts, clock, phases, ratedVars, memoryVars, cpuVars,
                    inlineVars>>
    BY <1>2 DEF vars
  <2> USE <2>1 DEF contexts, phases, ratedVars, memoryVars, cpuVars, inlineVars
  <2>2. (OneFault /\ TypesInv)'
    BY DEF IInv, OneFault, TypesInv, NoRated, NoMemory, NoCpu, NoInline
  <2>3. RestInv'
    BY DEF IInv, RestInv
  <2>4. BucketInv'
    BY DEF IInv, BucketInv
  <2>5. AlarmInv'
    BY DEF IInv, AlarmInv, Up, Down, Span, NoCpu
  <2>6. ThrashInv'
    BY DEF IInv, ThrashInv
  <2>7. ErrIsTheCallers'
    BY DEF IInv, ErrIsTheCallers
  <2>8. QED
    BY <2>2, <2>3, <2>4, <2>5, <2>6, <2>7 DEF IInv
<1>3. QED
  BY <1>1, <1>2

(* The invariant holds in every behaviour of a fault.                      *)
THEOREM SpecIInv == Spec => []IInv
<1>1. Init => IInv
  BY InitIInv
<1>2. IInv /\ [Next]_vars => IInv'
  BY KeepsIInv
<1>3. QED
  BY <1>1, <1>2, PTL DEF Spec

(* For every rate, ramp and number of workers, an I/O or disk fault never  *)
(* gets more than its rate, apart from the full bucket it starts with, nor *)
(* spends a token it does not have (io/stress.go:303-349).                 *)
THEOREM SpecNeverAboveRate == Spec => []NeverAboveRate
<1>1. IInv => NeverAboveRate
  <2> SUFFICES ASSUME IInv PROVE NeverAboveRate
    OBVIOUS
  <2>1. /\ TargetRate \in Nat /\ lastTick \in Nat /\ clock \in Nat
        /\ lastTick <= clock /\ Second \in Nat
        /\ Rated!BucketCapacity(TargetRate) \in Nat
        /\ acquired \in Int /\ tokens \in Int
    BY RatedConstants, CapacityTyped DEF IInv, TypesInv, BucketInv
  <2>2. TargetRate * lastTick <= TargetRate * clock
    BY <2>1, TimesMonotone
  <2>3. QED
    BY <2>1, <2>2 DEF IInv, BucketInv, NeverAboveRate, Rated!NeverAboveRate
<1>2. QED
  BY <1>1, SpecIInv, PTL

(* A thrash worker never walks a chunk with a length but no pointer, nor   *)
(* past the slice it saw, for every number of chunks and of workers        *)
(* (memory/stress.go:234-238).                                             *)
THEOREM SpecWalksWholeChunks == Spec => []WalksWholeChunks
<1>1. IInv => WalksWholeChunks
  BY DEF IInv, ThrashInv, WalksWholeChunks, Memory!WalksWholeChunks
<1>2. QED
  BY <1>1, SpecIInv, PTL

(* The ramp-down is never announced while the load is still that of the    *)
(* plateau, for every duration and ramp (cpu/stress.go:134-177).           *)
THEOREM SpecRampDownNotAnnouncedEarly == Spec => []RampDownNotAnnouncedEarly
<1>1. IInv => RampDownNotAnnouncedEarly
  BY DEF IInv, AlarmInv, Down, Span, RampDownNotAnnouncedEarly
<1>2. QED
  BY <1>1, SpecIInv, PTL

(* An error of a resource fault is that of the context of its caller,      *)
(* which has ended; its own deadline, or a Stop through its handle, is     *)
(* never reported (cpu/stress.go:121, io/stress.go:156,                    *)
(* memory/stress.go:195).                                                  *)
THEOREM SpecErrIsTheCallers == Spec => []ErrIsTheCallers
<1>1. IInv => ErrIsTheCallers
  BY DEF IInv
<1>2. QED
  BY <1>1, SpecIInv, PTL

-----------------------------------------------------------------------------
(* The refinement. *)

(* The stage of a fault of each kind, from where its goroutines stand.     *)
StageOf(r, c, p, i) ==
  CASE r = "failed" -> "refused"
    [] {r, c, p, i} \cap {"sent", "cleaned"} # {} -> "ended"
    [] {r, p, c, i} \subseteq {"idle", "writing"} -> "idle"
    [] OTHER -> "running"

RatedStage(r) ==
  IF r = "failed" THEN "refused"
  ELSE IF r \in {"sent", "cleaned"} THEN "ended"
  ELSE IF r \in {"idle", "writing"} THEN "idle" ELSE "running"

OtherStage(r) ==
  IF r = "sent" THEN "ended" ELSE IF r = "idle" THEN "idle" ELSE "running"

LEMMA StageByKind ==
  ASSUME NEW r
  PROVE  /\ StageOf(r, "idle", "idle", "idle") = RatedStage(r)
         /\ r \notin {"failed", "writing", "cleaned"} =>
              /\ StageOf("idle", r, "idle", "idle") = OtherStage(r)
              /\ StageOf("idle", "idle", r, "idle") = OtherStage(r)
              /\ StageOf("idle", "idle", "idle", r) = OtherStage(r)
  BY DEF StageOf, RatedStage, OtherStage

(* What a step may do to what FaultLife sees.                              *)
LifeCases ==
  \/ UNCHANGED <<Stage, Busy, contexts>>
  \/ UNCHANGED <<Stage, Busy, err>> /\ ContextEnds
  \/ Stage = "running" /\ UNCHANGED <<Stage, contexts>>
  \/ Stage = "idle" /\ Stage' = "refused" /\ UNCHANGED <<Busy, contexts>>
  \/ Stage = "idle" /\ Stage' = "running" /\ UNCHANGED contexts
  \/ /\ Stage = "running" /\ Stage' = "ended" /\ ~Busy'
     /\ err' \in {"nil", ctxErr, ownErr} /\ UNCHANGED <<ctxErr, ownErr>>

(* Such a step is one of FaultLife, or a stutter.                          *)
LEMMA LifeStep ==
  ASSUME LifeCases
  PROVE  [Life!LifeNext]_(Life!lifeVars)
<1> USE DEF Life!lifeVars, Life!contexts, contexts
<1>0. Busy \in BOOLEAN /\ Busy' \in BOOLEAN
  BY DEF Busy, Rated!Busy, Memory!Busy, Cpu!Busy
<1>1. CASE UNCHANGED <<Stage, Busy, contexts>>
  BY <1>1
<1>2. CASE UNCHANGED <<Stage, Busy, err>> /\ ContextEnds
  BY <1>2 DEF ContextEnds, Life!LifeNext, Life!ContextsMove
<1>3. CASE Stage = "running" /\ UNCHANGED <<Stage, contexts>>
  BY <1>0, <1>3 DEF Life!LifeNext, Life!Work
<1>4. CASE Stage = "idle" /\ Stage' = "refused" /\ UNCHANGED <<Busy, contexts>>
  BY <1>4 DEF Life!LifeNext, Life!Refuse
<1>5. CASE Stage = "idle" /\ Stage' = "running" /\ UNCHANGED contexts
  BY <1>0, <1>5 DEF Life!LifeNext, Life!Begin
<1>6. CASE /\ Stage = "running" /\ Stage' = "ended" /\ ~Busy'
           /\ err' \in {"nil", ctxErr, ownErr} /\ UNCHANGED <<ctxErr, ownErr>>
  BY <1>0, <1>6 DEF Life!LifeNext, Life!Finish
<1>7. QED
  BY <1>1, <1>2, <1>3, <1>4, <1>5, <1>6 DEF LifeCases

(* Steps of each kind are such steps.                                      *)
LEMMA RatedLife ==
  ASSUME IInv, RatedStep
  PROVE  LifeCases
<1>0. /\ Rated!Next /\ phase = "idle" /\ cpuRun = "idle" /\ inlineRun = "idle"
      /\ UNCHANGED <<memoryVars, cpuVars, inlineVars>>
  BY DEF RatedStep, NoMemory, NoCpu, NoInline
<1>1. Stage = RatedStage(ratedRun) /\ Stage' = RatedStage(ratedRun')
  BY <1>0, StageByKind
     DEF Stage, StageOf, memoryVars, cpuVars, inlineVars
<1>2. UNCHANGED <<ramp, emitter, ratedPc>> => UNCHANGED Busy
  BY <1>0 DEF Busy, Rated!Busy, Memory!Busy, Cpu!Busy,
              Rated!Phases!EmitterGone, Cpu!Phases!EmitterGone,
              memoryVars, cpuVars
<1> USE DEF Rated!started, Rated!times, Rated!contexts, Rated!ramping,
            Rated!workers, Rated!phases, contexts
<1>3. CASE (\E c \in RatedConfigs : Rated!Start(c)) \/ Rated!WriteFile
  BY <1>1, <1>2, <1>3
     DEF Rated!Start, Rated!WriteFile, LifeCases, RatedStage
<1>4. CASE Rated!WriteFileFails
  BY <1>1, <1>2, <1>4 DEF Rated!WriteFileFails, LifeCases, RatedStage
<1>5. CASE Rated!Launch
  BY <1>1, <1>5 DEF Rated!Launch, LifeCases, RatedStage
<1>6. CASE Rated!Tick
  BY <1>1, <1>2, <1>6
     DEF Rated!Tick, LifeCases, ContextEnds, Rated!Expired, Rated!ContextDone,
         Life!Expired, Life!ContextDone
<1>7. CASE Rated!Interrupt
  BY <1>1, <1>2, <1>7
     DEF Rated!Interrupt, LifeCases, ContextEnds, Rated!Cancel,
         Rated!CallerEnds, Rated!ContextDone, Rated!Errors,
         Life!Cancel, Life!CallerEnds, Life!ContextDone, Life!Errors
<1>8. CASE ratedRun = "running" /\ UNCHANGED <<ratedRun, contexts>>
  BY <1>1, <1>8 DEF LifeCases, RatedStage
<1>9. CASE Rated!SendResult
  <2>1. ratedRun = "running" /\ ratedRun' = "sent"
    BY <1>9 DEF Rated!SendResult
  <2>2. ~Busy'
    <3>1. UNCHANGED Busy /\ ~Rated!Busy
      BY <1>2, <1>9 DEF Rated!SendResult
    <3>2. length = 0 /\ \A w \in Thrashers : thrashPc[w] \in {"off", "exited"}
      BY <1>0 DEF IInv, RestInv
    <3>3. \A w \in CPUs : cpuPc[w] \in {"off", "exited"}
      BY <1>0 DEF IInv, RestInv
    <3>4. ~Busy
      BY <3>1, <3>2, <3>3
         DEF Busy, Rated!Busy, Memory!Busy, Cpu!Busy,
             Rated!Phases!EmitterGone, Cpu!Phases!EmitterGone
    <3>5. QED
      BY <3>1, <3>4
  <2>3. /\ err' \in {"nil", ctxErr, ownErr}
        /\ UNCHANGED <<ctxErr, ownErr>>
    BY <1>9 DEF Rated!SendResult, Rated!StressErr
  <2>4. QED
    BY <1>1, <2>1, <2>2, <2>3 DEF LifeCases, RatedStage
<1>10. CASE Rated!Cleanup
  BY <1>1, <1>2, <1>10 DEF Rated!Cleanup, LifeCases, RatedStage
<1>11. CASE Rated!AnnouncePhase \/ Rated!EmitterEnds
  <2>1. emitter \notin {"off", "gone"} /\ UNCHANGED <<ratedRun, contexts>>
    BY <1>11 DEF Rated!AnnouncePhase, Rated!EmitterEnds,
                 Rated!Phases!EmitterStep, Rated!Phases!EmitterExit
  <2>2. ratedRun = "running"
    BY <1>0, <2>1 DEF IInv, RestInv
  <2>3. QED
    BY <1>8, <2>1, <2>2
<1>12. CASE Rated!RampTick \/ Rated!RampExit
  BY <1>8, <1>12 DEF Rated!RampTick, Rated!RampExit
<1>13. CASE \E w \in Workers : Rated!WorkerStep(w) \/ Rated!WorkerExit(w)
  <2>1. PICK w \in Workers : Rated!WorkerStep(w) \/ Rated!WorkerExit(w)
    BY <1>13
  <2>2. ratedPc[w] # "exited" /\ UNCHANGED <<ratedRun, contexts>>
    BY <2>1 DEF Rated!WorkerStep, Rated!BeginAcquire, Rated!Acquire,
                Rated!Operate, Rated!OperationFails, Rated!WorkerExit
  <2>3. ratedRun = "running"
    BY <2>2 DEF IInv, RestInv
  <2>4. QED
    BY <1>8, <2>2, <2>3
<1>14. QED
  BY <1>0, <1>3, <1>4, <1>5, <1>6, <1>7, <1>9, <1>10, <1>11, <1>12, <1>13
     DEF Rated!Next

LEMMA MemoryLife ==
  ASSUME IInv, MemoryStep
  PROVE  LifeCases
<1>0. /\ Memory!Next /\ ratedRun = "idle" /\ cpuRun = "idle"
      /\ inlineRun = "idle"
      /\ UNCHANGED <<clock, phases, ratedVars, cpuVars, inlineVars>>
  BY DEF MemoryStep, NoRated, NoCpu, NoInline
<1>1. /\ Stage = OtherStage(phase)
      /\ phase' # "idle" => Stage' = OtherStage(phase')
  <2>1. phase \notin {"failed", "writing", "cleaned"}
    BY DEF IInv, TypesInv
  <2>2. phase' \notin {"failed", "writing", "cleaned"}
    BY MemoryKeepsRest DEF TypesInv
  <2>3. QED
    BY <1>0, <2>1, <2>2, StageByKind
       DEF Stage, StageOf, ratedVars, cpuVars, inlineVars
<1>2. UNCHANGED <<length, thrashPc>> => UNCHANGED Busy
  BY <1>0 DEF Busy, Rated!Busy, Memory!Busy, Cpu!Busy,
              Rated!Phases!EmitterGone, Cpu!Phases!EmitterGone,
              phases, ratedVars, cpuVars
<1> USE DEF Memory!contexts, Memory!workers, contexts
<1>3. CASE Memory!Start
  BY <1>1, <1>3 DEF Memory!Start, LifeCases, OtherStage
<1>4. CASE Memory!Deadline
  <2>1. phase' # "idle" /\ UNCHANGED phase
    BY <1>4 DEF Memory!Deadline, Memory!Active
  <2>2. QED
    BY <1>1, <1>2, <1>4, <2>1
       DEF Memory!Deadline, LifeCases, ContextEnds, Memory!Expired,
           Memory!ContextDone, Life!Expired, Life!ContextDone
<1>5. CASE Memory!Interrupt \/ Memory!CancelThrashers
  <2>1. phase' # "idle" /\ UNCHANGED phase
    BY <1>5 DEF Memory!Interrupt, Memory!Active, Memory!CancelThrashers
  <2>2. QED
    BY <1>1, <1>2, <1>5, <2>1
       DEF Memory!Interrupt, Memory!CancelThrashers, LifeCases, ContextEnds,
           Memory!Cancel, Memory!CallerEnds, Memory!ContextDone,
           Memory!Errors, Life!Cancel, Life!CallerEnds, Life!ContextDone,
           Life!Errors
<1>6. CASE /\ phase \notin {"idle", "sent"} /\ phase' \notin {"idle", "sent"}
           /\ UNCHANGED contexts
  BY <1>1, <1>6 DEF LifeCases, OtherStage
<1>7. CASE \/ Memory!Allocate \/ Memory!AllocationStops
           \/ Memory!SpawnThrashers \/ Memory!HoldEnds \/ Memory!ClearWord
           \/ Memory!Truncate \/ Memory!ReleaseEnds \/ Memory!ThrashersGone
  BY <1>6, <1>7
     DEF Memory!Allocate, Memory!AllocationStops, Memory!SpawnThrashers,
         Memory!HoldEnds, Memory!ClearWord, Memory!Truncate,
         Memory!ReleaseEnds, Memory!ThrashersGone
<1>8. CASE Memory!SendResult
  <2>1. phase = "free" /\ phase' = "sent" /\ length' = 0 /\ UNCHANGED thrashPc
    BY <1>8 DEF Memory!SendResult
  <2>2. ~Busy'
    <3>1. \A w \in Thrashers : thrashPc[w] \in {"off", "exited"}
      BY <2>1 DEF IInv, RestInv
    <3>2. /\ emitter = "off" /\ ~ramp
          /\ \A w \in Workers : ratedPc[w] = "exited"
          /\ \A w \in CPUs : cpuPc[w] \in {"off", "exited"}
      BY <1>0 DEF IInv, RestInv
    <3>3. QED
      BY <1>0, <2>1, <3>1, <3>2
         DEF Busy, Rated!Busy, Memory!Busy, Cpu!Busy, phases, ratedVars,
             cpuVars, Rated!Phases!EmitterGone, Cpu!Phases!EmitterGone
  <2>3. /\ err' \in {"nil", ctxErr, ownErr}
        /\ UNCHANGED <<ctxErr, ownErr>>
    BY <1>8 DEF Memory!SendResult, Memory!StressErr
  <2>4. QED
    BY <1>1, <2>1, <2>2, <2>3 DEF LifeCases, OtherStage
<1>9. CASE \E w \in Thrashers : Memory!ThrashStep(w)
  <2>1. PICK w \in Thrashers : Memory!ThrashStep(w)
    BY <1>9
  <2>2. /\ thrashPc[w] \notin {"off", "exited"}
        /\ UNCHANGED <<phase, contexts>>
    BY <2>1 DEF Memory!ThrashStep, Memory!ThrashStart, Memory!ThrashLoop,
                Memory!LoadWord, Memory!TestNil, Memory!Walk
  <2>3. phase \in {"hold", "release", "cleanup"}
    BY <2>2 DEF IInv, RestInv
  <2>4. QED
    BY <1>6, <2>2, <2>3
<1>10. QED
  BY <1>0, <1>3, <1>4, <1>5, <1>7, <1>8, <1>9
     DEF Memory!Next, Memory!FaultStep

LEMMA CpuLife ==
  ASSUME IInv, CpuStep
  PROVE  LifeCases
<1>0. /\ Cpu!Next /\ ratedRun = "idle" /\ phase = "idle" /\ inlineRun = "idle"
      /\ UNCHANGED <<ratedVars, memoryVars, inlineVars>>
  BY DEF CpuStep, NoRated, NoMemory, NoInline
<1>1. /\ Stage = OtherStage(cpuRun)
      /\ Stage' = OtherStage(cpuRun')
  <2>1. cpuRun \notin {"failed", "writing", "cleaned"}
    BY DEF IInv, TypesInv
  <2>2. cpuRun' \notin {"failed", "writing", "cleaned"}
    BY CpuKeepsRest DEF TypesInv
  <2>3. QED
    BY <1>0, <2>1, <2>2, StageByKind
       DEF Stage, StageOf, ratedVars, memoryVars, inlineVars
<1>2. UNCHANGED <<emitter, cpuPc>> => UNCHANGED Busy
  BY <1>0 DEF Busy, Rated!Busy, Memory!Busy, Cpu!Busy,
              Rated!Phases!EmitterGone, Cpu!Phases!EmitterGone,
              ratedVars, memoryVars
<1> USE DEF Cpu!contexts, Cpu!workers, Cpu!phases, contexts
<1>3. CASE \E c \in CpuConfigs : Cpu!Start(c)
  BY <1>1, <1>3 DEF Cpu!Start, LifeCases, OtherStage
<1>4. CASE Cpu!Tick
  BY <1>1, <1>2, <1>4
     DEF Cpu!Tick, LifeCases, ContextEnds, Cpu!Expired, Cpu!ContextDone,
         Life!Expired, Life!ContextDone
<1>5. CASE Cpu!Interrupt
  BY <1>1, <1>2, <1>5
     DEF Cpu!Interrupt, LifeCases, ContextEnds, Cpu!Cancel, Cpu!CallerEnds,
         Cpu!ContextDone, Cpu!Errors, Life!Cancel, Life!CallerEnds,
         Life!ContextDone, Life!Errors
<1>6. CASE cpuRun = "running" /\ UNCHANGED <<cpuRun, contexts>>
  BY <1>1, <1>6 DEF LifeCases, OtherStage
<1>7. CASE Cpu!SendResult
  <2>1. cpuRun = "running" /\ cpuRun' = "sent"
    BY <1>7 DEF Cpu!SendResult
  <2>2. ~Busy'
    <3>1. UNCHANGED Busy /\ ~Cpu!Busy
      BY <1>2, <1>7 DEF Cpu!SendResult
    <3>2. length = 0 /\ \A w \in Thrashers : thrashPc[w] \in {"off", "exited"}
      BY <1>0 DEF IInv, RestInv
    <3>3. ~ramp /\ \A w \in Workers : ratedPc[w] = "exited"
      BY <1>0 DEF IInv, RestInv
    <3>4. ~Busy
      BY <3>1, <3>2, <3>3
         DEF Busy, Rated!Busy, Memory!Busy, Cpu!Busy,
             Rated!Phases!EmitterGone, Cpu!Phases!EmitterGone
    <3>5. QED
      BY <3>1, <3>4
  <2>3. /\ err' \in {"nil", ctxErr, ownErr}
        /\ UNCHANGED <<ctxErr, ownErr>>
    BY <1>7 DEF Cpu!SendResult, Cpu!StressErr
  <2>4. QED
    BY <1>1, <2>1, <2>2, <2>3 DEF LifeCases, OtherStage
<1>8. CASE Cpu!AnnouncePhase \/ Cpu!EmitterEnds
  <2>1. emitter \notin {"off", "gone"} /\ UNCHANGED <<cpuRun, contexts>>
    BY <1>8 DEF Cpu!AnnouncePhase, Cpu!EmitterEnds,
                Cpu!Phases!EmitterStep, Cpu!Phases!EmitterExit
  <2>2. cpuRun = "running"
    BY <1>0, <2>1 DEF IInv, RestInv
  <2>3. QED
    BY <1>6, <2>1, <2>2
<1>9. CASE \E w \in CPUs : Cpu!WorkerStep(w) \/ Cpu!WorkerExit(w)
  <2>1. PICK w \in CPUs : Cpu!WorkerStep(w) \/ Cpu!WorkerExit(w)
    BY <1>9
  <2>2. /\ cpuPc[w] \notin {"off", "exited"}
        /\ UNCHANGED <<cpuRun, contexts>>
    BY <2>1 DEF Cpu!WorkerStep, Cpu!BeginWindow, Cpu!EndBurn, Cpu!EndSleep,
                Cpu!WorkerExit
  <2>3. cpuRun = "running"
    BY <2>2 DEF IInv, RestInv
  <2>4. QED
    BY <1>6, <2>2, <2>3
<1>10. QED
  BY <1>0, <1>3, <1>4, <1>5, <1>7, <1>8, <1>9 DEF Cpu!Next

LEMMA InlineLife ==
  ASSUME IInv, InlineStep
  PROVE  LifeCases
<1>0. /\ Inline!Next /\ ratedRun = "idle" /\ phase = "idle" /\ cpuRun = "idle"
      /\ UNCHANGED <<phases, ratedVars, memoryVars, cpuVars>>
  BY DEF InlineStep, NoRated, NoMemory, NoCpu
<1>1. /\ Stage = OtherStage(inlineRun)
      /\ Stage' = OtherStage(inlineRun')
  <2>1. inlineRun \notin {"failed", "writing", "cleaned"}
    BY DEF IInv, TypesInv
  <2>2. inlineRun' \notin {"failed", "writing", "cleaned"}
    BY InlineKeepsRest DEF TypesInv
  <2>3. QED
    BY <1>0, <2>1, <2>2, StageByKind
       DEF Stage, StageOf, ratedVars, memoryVars, cpuVars
<1>2. ~Busy /\ ~Busy'
  <2>1. /\ emitter = "off" /\ ~ramp /\ length = 0
        /\ \A w \in Workers : ratedPc[w] = "exited"
        /\ \A w \in Thrashers : thrashPc[w] \in {"off", "exited"}
        /\ \A w \in CPUs : cpuPc[w] \in {"off", "exited"}
    BY <1>0 DEF IInv, RestInv
  <2>2. QED
    BY <1>0, <2>1
       DEF Busy, Rated!Busy, Memory!Busy, Cpu!Busy, phases, ratedVars,
           memoryVars, cpuVars, Rated!Phases!EmitterGone,
           Cpu!Phases!EmitterGone
<1>3. UNCHANGED Busy
  BY <1>2 DEF Busy, Rated!Busy, Memory!Busy, Cpu!Busy
<1> USE DEF Inline!contexts, contexts
<1>4. CASE \E k \in Inline!Kinds : Inline!Start(k)
  BY <1>1, <1>4 DEF Inline!Start, LifeCases, OtherStage
<1>5. CASE Inline!Tick
  BY <1>1, <1>3, <1>5
     DEF Inline!Tick, LifeCases, ContextEnds, Inline!Expired,
         Inline!ContextDone, Life!Expired, Life!ContextDone
<1>6. CASE Inline!Interrupt
  BY <1>1, <1>3, <1>6
     DEF Inline!Interrupt, LifeCases, ContextEnds, Inline!Cancel,
         Inline!CallerEnds, Inline!ContextDone, Inline!Errors, Life!Cancel,
         Life!CallerEnds, Life!ContextDone, Life!Errors
<1>7. CASE Inline!SendResult
  BY <1>1, <1>2, <1>7
     DEF Inline!SendResult, Inline!Send, LifeCases, OtherStage
<1>8. QED
  BY <1>0, <1>4, <1>5, <1>6, <1>7 DEF Inline!Next

(* The safety part of FaultLife: LifeSpec without its fairness.            *)
LifeSafe == Life!LifeInit /\ [][Life!LifeNext]_(Life!lifeVars)

(* Whatever its kind, a fault refuses or runs, yields one result, yields   *)
(* it when nothing of the fault is at work any more, and reports no error  *)
(* but that of a context that ended (internal/fault/fault.go:42-93). That  *)
(* it ends is checked on instances.                                        *)
THEOREM SpecImplementsLifeSafe == Spec => LifeSafe
<1>1. Init => Life!LifeInit
  <2> SUFFICES ASSUME Init PROVE Life!LifeInit
    OBVIOUS
  <2>1. Stage = "idle"
    BY StageByKind
       DEF Init, Rated!Init, Memory!Init, Cpu!Init, Inline!Init, Stage,
           StageOf, RatedStage
  <2>2. Busy = FALSE
    BY DEF Init, Rated!Init, Memory!Init, Cpu!Init, Busy, Rated!Busy,
           Memory!Busy, Cpu!Busy, Rated!Phases!EmitterInit,
           Rated!Phases!EmitterGone, Cpu!Phases!EmitterGone
  <2>3. Life!ContextInit
    BY DEF Init, Inline!Init, Inline!ContextInit, Life!ContextInit
  <2>4. QED
    BY <2>1, <2>2, <2>3 DEF Life!LifeInit
<1>2. IInv /\ [Next]_vars => [Life!LifeNext]_(Life!lifeVars)
  <2> SUFFICES ASSUME IInv, [Next]_vars
               PROVE  [Life!LifeNext]_(Life!lifeVars)
    OBVIOUS
  <2>1. CASE Next
    BY <2>1, RatedLife, MemoryLife, CpuLife, InlineLife, LifeStep DEF Next
  <2>2. CASE UNCHANGED vars
    <3>1. UNCHANGED <<contexts, phases, ratedVars, memoryVars, cpuVars,
                      inlineVars>>
      BY <2>2 DEF vars
    <3>2. UNCHANGED Stage
      BY <3>1 DEF Stage, ratedVars, memoryVars, cpuVars, inlineVars
    <3>3. UNCHANGED Busy
      BY <3>1 DEF Busy, Rated!Busy, Memory!Busy, Cpu!Busy, phases, ratedVars,
                  memoryVars, cpuVars, Rated!Phases!EmitterGone,
                  Cpu!Phases!EmitterGone
    <3>4. QED
      BY <3>1, <3>2, <3>3 DEF Life!lifeVars, Life!contexts, contexts
  <2>3. QED
    BY <2>1, <2>2
<1>3. QED
  BY <1>1, <1>2, SpecIInv, PTL DEF Spec, LifeSafe

-----------------------------------------------------------------------------
(* A lone worker keeps pace. *)

(* There is no ramp: the rate is constant.                                 *)
Steady == ratedConfig.up + ratedConfig.down = 0

bucket == <<tokens, rate, capacity, lastTick>>

Waited(w) == (lastTick - since[w]) * TargetRate

(* At a constant rate the bucket is that of the target rate, and a worker  *)
(* that waits alone has had, for every token it is still to get, no less   *)
(* than half of what its wait was worth.                                   *)
PaceInv ==
  /\ tokens \in Nat /\ capacity \in Nat
  /\ ratedRun \in {"idle", "writing"} \/ Steady =>
       rate = TargetRate /\ capacity = Rated!BucketCapacity(TargetRate)
  /\ wake \in [Workers -> Nat] /\ since \in [Workers -> Nat]
  /\ \A w \in Workers : ratedPc[w] # "exited" => w \in ratedConfig.workers
  /\ \A w \in Workers :
       /\ ratedPc[w] = "acquiring" => since[w] <= clock
       /\ Rated!SteadyAndAlone =>
            /\ ratedPc[w] = "acquiring" => lastTick <= since[w]
            /\ ratedPc[w] = "waiting" =>
                 /\ since[w] <= lastTick /\ wake[w] = lastTick + Interval
                 /\ Waited(w) < 2 * Second * (tokens + 1)

LEMMA DivAbove ==
  ASSUME NEW a \in Int, NEW b \in Nat \ {0}
  PROVE  a < b * ((a \div b) + 1)
  OBVIOUS

(* A refill that is worth a token loses less than half of its time.        *)
LEMMA WaitBounded ==
  ASSUME NEW d \in Int, NEW e \in Nat, NEW g \in Nat, NEW t \in Nat,
         NEW r \in Nat \ {0}, NEW s \in Nat \ {0},
         s <= r * e, r * e < s * (g + 1), d * r < 2 * s * (t + 1)
  PROVE  (d + e) * r < 2 * s * (t + g + 1)
<1>1. g >= 1
  <2>1. CASE g = 0
    BY <2>1
  <2>2. QED
    BY <2>1
<1>2. s * (g + 1) <= 2 * s * g
  <2>1. g + 1 <= 2 * g
    BY <1>1
  <2>2. s * (g + 1) <= s * (2 * g)
    BY <2>1, TimesMonotone
  <2>3. QED
    BY <2>2
<1>3. (d + e) * r = d * r + r * e
  OBVIOUS
<1>4. 2 * s * (t + g + 1) = 2 * s * (t + 1) + 2 * s * g
  OBVIOUS
<1>5. QED
  BY <1>2, <1>3, <1>4

(* So does the first one, whatever it is worth.                            *)
LEMMA FirstWaitBounded ==
  ASSUME NEW d \in Int, NEW e \in Nat, NEW g \in Nat, NEW t \in Nat,
         NEW r \in Nat \ {0}, NEW s \in Nat \ {0},
         d <= e, r * e < s * (g + 1)
  PROVE  d * r < 2 * s * (t + g + 1)
<1>1. d * r <= e * r
  BY TimesMonotone
<1>2. s * (g + 1) <= s * (2 * (t + g + 1))
  <2>1. g + 1 <= 2 * (t + g + 1)
    OBVIOUS
  <2>2. QED
    BY <2>1, TimesMonotone
<1>3. QED
  BY <1>1, <1>2

(* At a constant rate, the only worker of the configuration is the only    *)
(* one to take from the bucket.                                            *)
LEMMA OnlyWorker ==
  ASSUME TypesInv, Rated!SteadyAndAlone,
         NEW v \in ratedConfig.workers, NEW w \in ratedConfig.workers
  PROVE  v = w
<1>1. IsFiniteSet(Workers) /\ ratedConfig.workers \subseteq Workers
  <2>1. \A c \in RatedConfigs \cup {Rated!Unset} : c.workers \subseteq Workers
    BY Configured DEF Rated!ConfigOK, Rated!Config, Rated!Unset
  <2>2. IsFiniteSet(Workers)
    BY Configured DEF Rated!ConfigOK, Rated!IsFiniteSet, IsFiniteSet
  <2>3. QED
    BY <2>1, <2>2 DEF TypesInv
<1>2. IsFiniteSet(ratedConfig.workers)
  BY <1>1, FS_Subset
<1>3. PICK u : ratedConfig.workers = {u}
  <2>1. Cardinality(ratedConfig.workers) = 1
    BY DEF Rated!SteadyAndAlone, Rated!Cardinality, Cardinality
  <2>2. QED
    BY <1>2, <2>1, FS_Singleton
<1>4. QED
  BY <1>3

LEMMA CapacityEnough ==
  Rated!BucketCapacity(TargetRate) \in Nat
  /\ Rated!BucketCapacity(TargetRate) >= Need
<1>1. (TargetRate * Interval) \div Second \in Int
  BY RatedConstants, DivBound
<1>2. QED
  BY <1>1, RatedConstants DEF Rated!BucketCapacity

LEMMA RefilledTyped ==
  ASSUME IInv, PaceInv
  PROVE  Rated!Refilled \in Nat
<1>1. /\ clock - lastTick \in Nat /\ rate \in Nat /\ tokens \in Nat
      /\ capacity \in Nat /\ Second \in Nat \ {0}
  BY RatedConstants DEF IInv, BucketInv, TypesInv, PaceInv
<1>2. rate * (clock - lastTick) \in Nat
  BY <1>1
<1>3. (rate * (clock - lastTick)) \div Second \in Nat
  BY <1>1, <1>2
<1>4. QED
  BY <1>1, <1>3 DEF Rated!Refilled, Rated!Smaller

(* What an acquire that fails at a constant rate leaves behind.            *)
LEMMA FailedAcquire ==
  ASSUME IInv, PaceInv, Second <= TargetRate * Interval,
         Rated!SteadyAndAlone, NEW w \in Workers, Rated!Acquire(w),
         Rated!Refilled < Need
  PROVE  (clock - since[w]) * TargetRate < 2 * Second * (Rated!Refilled + 1)
<1> DEFINE e == clock - lastTick
           g == (TargetRate * e) \div Second
<1>1. /\ TargetRate \in Nat \ {0} /\ Second \in Nat \ {0} /\ Need \in Nat
      /\ Interval \in Nat /\ clock \in Nat /\ lastTick \in Nat
      /\ lastTick <= clock /\ tokens \in Nat /\ since[w] \in Nat
  BY RatedConstants DEF IInv, BucketInv, TypesInv, PaceInv
<1>2. e \in Nat
  BY <1>1
<1>3. rate = TargetRate /\ capacity >= Need /\ capacity \in Nat
  BY CapacityEnough DEF PaceInv, Steady, Rated!SteadyAndAlone
<1> HIDE DEF e
<1>4. TargetRate * e \in Nat
  BY <1>1, <1>2
<1>5. g \in Nat /\ TargetRate * e < Second * (g + 1)
  BY <1>1, <1>4, DivAbove
<1>6. Rated!Refilled = tokens + g
  BY <1>1, <1>3, <1>5 DEF Rated!Refilled, Rated!Smaller, e
<1> HIDE DEF g
<1>7. CASE ratedPc[w] = "acquiring"
  <2>1. clock - since[w] <= e /\ clock - since[w] \in Int
    BY <1>1, <1>7 DEF PaceInv, e
  <2>2. (clock - since[w]) * TargetRate < 2 * Second * (tokens + g + 1)
    BY <1>1, <1>2, <1>5, <2>1, FirstWaitBounded
  <2>3. QED
    BY <1>6, <2>2
<1>8. CASE ratedPc[w] = "waiting" /\ clock >= wake[w]
  <2>1. /\ wake[w] = lastTick + Interval
        /\ (lastTick - since[w]) * TargetRate < 2 * Second * (tokens + 1)
    BY <1>8 DEF PaceInv, Waited
  <2>2. Interval <= e
    BY <1>1, <1>8, <2>1 DEF e
  <2>3. Second <= TargetRate * e
    <3>1. TargetRate * Interval <= TargetRate * e
      BY <1>1, <1>2, <2>2, TimesMonotone
    <3>2. QED
      BY <1>1, <1>4, <3>1
  <2>4. PICK d \in Int : d = lastTick - since[w]
    BY <1>1
  <2>5. (d + e) * TargetRate < 2 * Second * (tokens + g + 1)
    BY <1>1, <1>2, <1>5, <2>1, <2>3, <2>4, WaitBounded
  <2>6. clock - since[w] = d + e
    BY <1>1, <2>4 DEF e
  <2>7. QED
    BY <1>6, <2>5, <2>6
<1>9. QED
  BY <1>7, <1>8 DEF Rated!Acquire

(* Every step keeps it: only the lone worker takes from the bucket, and    *)
(* only an acquire of its moves lastTick.                                  *)
LEMMA KeepsPace ==
  ASSUME IInv, PaceInv, Second <= TargetRate * Interval, Next
  PROVE  PaceInv'
<1>0. /\ clock \in Nat /\ Interval \in Nat
      /\ TargetRate \in Nat \ {0} /\ Second \in Nat \ {0} /\ Need \in Nat
  BY RatedConstants DEF IInv, TypesInv
<1> USE DEF Steady, Waited, Rated!SteadyAndAlone, Rated!started,
            Rated!bucket, 
            Rated!workers, Rated!ramping, Rated!times, Rated!phases
<1>1. CASE UNCHANGED ratedVars /\ (clock' = clock \/ clock' = clock + 1)
  BY <1>0, <1>1 DEF PaceInv, ratedVars
<1>2. CASE RatedStep
  <2>0. Rated!Next
    BY <1>2 DEF RatedStep
  <2>1. CASE \E c \in RatedConfigs : Rated!Start(c)
    <3>1. \A w \in Workers : ratedPc'[w] = "exited"
      BY <2>1 DEF Rated!Start, IInv, RestInv
    <3>2. QED
      BY <2>1, <3>1 DEF Rated!Start, PaceInv
  <2>2. CASE Rated!WriteFile \/ Rated!WriteFileFails
    BY <2>2 DEF Rated!WriteFile, Rated!WriteFileFails, PaceInv
  <2>3. CASE Rated!Launch
    BY <2>3 DEF Rated!Launch, PaceInv
  <2>4. CASE Rated!Tick
    BY <1>0, <2>4 DEF Rated!Tick, PaceInv
  <2>5. CASE \/ Rated!Interrupt \/ Rated!AnnouncePhase \/ Rated!EmitterEnds
             \/ Rated!RampExit \/ Rated!SendResult \/ Rated!Cleanup
    BY <2>5 DEF Rated!Interrupt, Rated!AnnouncePhase, Rated!EmitterEnds,
                Rated!RampExit, Rated!SendResult, Rated!Cleanup, PaceInv
  <2>6. CASE Rated!RampTick
    <3>1. /\ ~Steady /\ ratedRun = "running" /\ rate' \in Nat
          /\ tokens' = Rated!Smaller(tokens, capacity')
          /\ capacity' = Rated!BucketCapacity(rate')
          /\ UNCHANGED <<ratedConfig, ratedRun, ratedPc, wake, since,
                         lastTick, clock>>
      <4>1. ratedConfig.up \in Nat /\ ratedConfig.down \in Nat
        BY RampsTyped DEF IInv
      <4>2. rate' \in Nat
        BY <1>0, <2>6, RampRateBounded DEF Rated!RampTick, IInv
      <4>3. QED
        BY <2>6, <4>1, <4>2 DEF Rated!RampTick
    <3>2. tokens' \in Nat /\ capacity' \in Nat
      BY <3>1, CapacityTyped DEF PaceInv, Rated!Smaller
    <3>3. QED
      BY <3>1, <3>2 DEF PaceInv
  <2>7. CASE \E w \in Workers : Rated!WorkerExit(w)
    <3>1. PICK w \in Workers : Rated!WorkerExit(w)
      BY <2>7
    <3>2. /\ UNCHANGED <<ratedConfig, ratedRun, clock, bucket>>
          /\ ratedPc' = [ratedPc EXCEPT ![w] = "exited"]
          /\ wake' = [wake EXCEPT ![w] = 0]
          /\ since' = [since EXCEPT ![w] = 0]
      BY <3>1 DEF Rated!WorkerExit, Rated!Goes, Rated!TimersOff, bucket
    <3>3. DOMAIN ratedPc = Workers
      BY DEF IInv, TypesInv
    <3>4. QED
      BY <3>2, <3>3 DEF PaceInv, bucket
  <2>8. CASE \E w \in Workers : Rated!BeginAcquire(w)
    <3>1. PICK w \in Workers : Rated!BeginAcquire(w)
      BY <2>8
    <3>2. since' \in [Workers -> Nat] /\ since'[w] = clock
      BY <1>0, <3>1 DEF Rated!BeginAcquire, PaceInv
    <3>3. DOMAIN ratedPc = Workers /\ lastTick <= clock
      BY DEF IInv, TypesInv, BucketInv
    <3>4. QED
      BY <1>0, <3>1, <3>2, <3>3 DEF Rated!BeginAcquire, PaceInv, Rated!Goes
  <2>9. CASE \E w \in Workers : Rated!Acquire(w)
    <3>1. PICK w \in Workers : Rated!Acquire(w)
      BY <2>9
    <3>2. /\ UNCHANGED <<ratedConfig, ratedRun, clock, rate, capacity>>
          /\ lastTick' = clock /\ ratedPc[w] \in {"acquiring", "waiting"}
      BY <3>1 DEF Rated!Acquire
    <3>3. Rated!SteadyAndAlone =>
            \A v \in Workers : v # w => ratedPc[v] = "exited"
      BY <3>2, OnlyWorker DEF PaceInv, IInv
    <3>4. DOMAIN ratedPc = Workers /\ Rated!Refilled \in Nat
      BY RefilledTyped DEF IInv, TypesInv
    <3>5. CASE Rated!Refilled >= Need
      <4>1. /\ tokens' \in Nat
            /\ ratedPc' = [ratedPc EXCEPT ![w] = "io"]
            /\ wake' = [wake EXCEPT ![w] = 0]
            /\ since' = [since EXCEPT ![w] = 0]
        BY <1>0, <3>1, <3>4, <3>5
           DEF Rated!Acquire, Rated!Goes, Rated!TimersOff
      <4>2. QED
        BY <3>2, <3>3, <3>4, <4>1 DEF PaceInv
    <3>6. CASE ~(Rated!Refilled >= Need)
      <4>1. /\ tokens' = Rated!Refilled
            /\ ratedPc' = [ratedPc EXCEPT ![w] = "waiting"]
            /\ wake' = [wake EXCEPT ![w] = clock + Interval]
            /\ since' = since
        BY <3>1, <3>6 DEF Rated!Acquire, Rated!Goes
      <4>2. wake' \in [Workers -> Nat] /\ wake'[w] = clock + Interval
        BY <1>0, <4>1 DEF PaceInv
      <4>3. Rated!SteadyAndAlone =>
              (clock - since[w]) * TargetRate < 2 * Second * (tokens' + 1)
        BY <1>0, <3>1, <3>4, <3>6, <4>1, FailedAcquire
      <4>4. Rated!SteadyAndAlone => since[w] <= clock
        BY <1>0, <3>2 DEF PaceInv, IInv, BucketInv
      <4>5. QED
        BY <3>2, <3>3, <3>4, <4>1, <4>2, <4>3, <4>4 DEF PaceInv
    <3>7. QED
      BY <3>5, <3>6
  <2>10. CASE \E w \in Workers : Rated!Operate(w) \/ Rated!OperationFails(w)
    BY <2>10 DEF Rated!Operate, Rated!OperationFails, PaceInv, Rated!Goes,
                 Rated!TimersOff, IInv, TypesInv
  <2>11. QED
    BY <2>0, <2>1, <2>2, <2>3, <2>4, <2>5, <2>6, <2>7, <2>8, <2>9, <2>10
       DEF Rated!Next, Rated!WorkerStep
<1>3. QED
  <2>1. CASE CpuStep
    BY <1>1, <2>1, CpuFrame
       DEF CpuStep, Cpu!Tick, Cpu!AnnouncePhase, Cpu!Start
  <2>2. CASE MemoryStep
    BY <1>1, <2>2 DEF MemoryStep
  <2>3. CASE InlineStep
    BY <1>1, <2>3 DEF InlineStep, Inline!Next, Inline!Start, Inline!Tick,
                      Inline!Interrupt, Inline!SendResult, Inline!Send
  <2>4. QED
    BY <1>2, <2>1, <2>2, <2>3 DEF Next

LEMMA InitPace ==
  ASSUME Init
  PROVE  PaceInv
<1>1. tokens \in Nat /\ capacity \in Nat
  BY CapacityEnough DEF Init, Rated!Init
<1>2. QED
  BY <1>1 DEF Init, Rated!Init, PaceInv

(* A lone worker at a constant rate never waits for twice the time its     *)
(* bytes take: truncation, late timers and the cap on the bucket cost at   *)
(* most half of the rate (io/stress.go:295-337). The rate must be worth a  *)
(* token in the interval between two refills: the code moves lastTick with *)
(* a refill whose worth is truncated to nothing, and at a rate below that  *)
(* an acquire may wait for ever.                                           *)
THEOREM SpecAcquireKeepsPace ==
  ASSUME Second <= TargetRate * Interval
  PROVE  Spec => AcquireKeepsPace
<1> DEFINE P ==
      \A w \in Workers :
        Rated!SteadyAndAlone /\ ratedPc[w] = "waiting" /\ wake'[w] > wake[w]
        => (clock - since[w]) * TargetRate < 2 * Second * Need
<1>1. Init => PaceInv
  BY InitPace
<1>2. IInv /\ PaceInv /\ [Next]_vars => PaceInv'
  <2> SUFFICES ASSUME IInv, PaceInv, [Next]_vars PROVE PaceInv'
    OBVIOUS
  <2>1. CASE UNCHANGED vars
    BY <2>1
       DEF PaceInv, vars, ratedVars, Steady, Waited, Rated!SteadyAndAlone
  <2>2. QED
    BY <2>1, KeepsPace
<1>3. IInv /\ PaceInv /\ [Next]_vars => [P]_(Rated!vars)
  <2> SUFFICES ASSUME IInv, PaceInv, [Next]_vars,
                      NEW w \in Workers, Rated!SteadyAndAlone,
                      ratedPc[w] = "waiting", wake'[w] > wake[w]
               PROVE  (clock - since[w]) * TargetRate < 2 * Second * Need
    OBVIOUS
  <2>1. wake \in [Workers -> Nat]
    BY DEF PaceInv
  <2>2. Rated!Acquire(w) /\ Rated!Refilled < Need
    <3>1. ratedRun # "idle" /\ wake' # wake
      BY <2>1 DEF IInv, RestInv
    <3>2. Rated!Next
      BY <3>1 DEF Next, RatedStep, MemoryStep, CpuStep, InlineStep, NoRated,
                  vars, ratedVars
    <3>3. CASE \E v \in Workers : Rated!Acquire(v)
      <4>1. PICK v \in Workers : Rated!Acquire(v)
        BY <3>3
      <4>2. \/ wake' = [wake EXCEPT ![v] = 0]
            \/ /\ wake' = [wake EXCEPT ![v] = clock + Interval]
               /\ ~(Rated!Refilled >= Need)
        BY <4>1 DEF Rated!Acquire, Rated!TimersOff
      <4>3. v = w /\ ~(Rated!Refilled >= Need)
        BY <2>1, <4>2
      <4>4. QED
        BY <4>1, <4>3, RefilledTyped, RatedConstants
    <3>4. CASE \E v \in Workers :
                 Rated!WorkerExit(v) \/ Rated!OperationFails(v)
      <4>1. PICK v \in Workers : wake' = [wake EXCEPT ![v] = 0]
        BY <3>4 DEF Rated!WorkerExit, Rated!OperationFails, Rated!TimersOff
      <4>2. QED
        BY <2>1, <4>1
    <3>5. QED
      BY <3>1, <3>2, <3>3, <3>4
         DEF Rated!Next, Rated!Start, Rated!WriteFile, Rated!WriteFileFails,
             Rated!Launch, Rated!Tick, Rated!Interrupt, Rated!AnnouncePhase,
             Rated!EmitterEnds, Rated!RampTick, Rated!RampExit,
             Rated!WorkerStep, Rated!BeginAcquire, Rated!Operate,
             Rated!SendResult, Rated!Cleanup, Rated!workers
  <2>3. (clock - since[w]) * TargetRate < 2 * Second * (Rated!Refilled + 1)
    BY <2>2, FailedAcquire
  <2>4. Second * (Rated!Refilled + 1) <= Second * Need
    BY <2>2, RatedConstants, RefilledTyped, TimesMonotone
  <2>5. (clock - since[w]) * TargetRate \in Int
    BY RatedConstants DEF IInv, TypesInv, PaceInv
  <2>6. Second * (Rated!Refilled + 1) \in Int /\ Second * Need \in Int
    BY RatedConstants, RefilledTyped
  <2>7. 2 * Second * (Rated!Refilled + 1) = 2 * (Second * (Rated!Refilled + 1))
        /\ 2 * Second * Need = 2 * (Second * Need)
    BY RatedConstants, RefilledTyped
  <2>8. QED
    BY <2>3, <2>4, <2>5, <2>6, <2>7
<1>4. QED
  BY <1>1, <1>2, <1>3, SpecIInv, PTL
     DEF Spec, AcquireKeepsPace, Rated!AcquireKeepsPace

-----------------------------------------------------------------------------
(* The share of the machine. *)

(* The elements of a set of pairs that begin with w.                       *)
Slice(B, w) == {p \in B : p[1] = w}

(* A set of pairs is no larger than its longest slice, as often as there   *)
(* are first elements.                                                     *)
LEMMA PairsBounded ==
  ASSUME NEW A, IsFiniteSet(A), NEW B \in SUBSET (A \X Nat), IsFiniteSet(B),
         NEW M \in Nat, \A w \in A : Cardinality(Slice(B, w)) <= M
  PROVE  Cardinality(B) <= Cardinality(A) * M
<1> DEFINE Numbers(w, h) ==
             /\ h \in [Slice(B, w) -> 1..M]
             /\ \A p, q \in Slice(B, w) : h[p] = h[q] => p = q
           g == [w \in A |-> CHOOSE h : Numbers(w, h)]
           f == [p \in B |-> <<p[1], g[p[1]][p]>>]
<1>1. \A w \in A : Numbers(w, g[w])
  <2> SUFFICES ASSUME NEW w \in A PROVE \E h : Numbers(w, h)
    OBVIOUS
  <2> DEFINE S == Slice(B, w)
             k == Cardinality(S)
  <2>1. IsFiniteSet(S)
    BY FS_Subset DEF Slice
  <2> HIDE DEF S
  <2>2. k \in Nat /\ ExistsBijection(S, 1..k)
    BY <2>1, FS_CardinalityType, Fun_ExistsBijSymmetric
  <2>3. PICK h \in Bijection(S, 1..k) : TRUE
    BY <2>2 DEF ExistsBijection
  <2>4. k <= M
    BY DEF S
  <2> HIDE DEF k
  <2>5. h \in [S -> 1..M] /\ \A p, q \in S : h[p] = h[q] => p = q
    BY <2>2, <2>3, <2>4 DEF Bijection, Injection, Surjection, IsInjective
  <2>6. QED
    BY <2>5 DEF S
<1> HIDE DEF g
<1>2. \A p \in B : p[1] \in A /\ p \in Slice(B, p[1])
  BY DEF Slice
<1>3. f \in [B -> A \X (1..M)]
  <2>1. \A p \in B : g[p[1]][p] \in 1..M
    BY <1>1, <1>2
  <2>2. QED
    BY <1>2, <2>1
<1>4. ASSUME NEW p \in B, NEW q \in B, f[p] = f[q]
      PROVE  p = q
  <2>1. p[1] = q[1] /\ g[p[1]][p] = g[q[1]][q]
    BY <1>4
  <2>2. QED
    BY <1>1, <1>2, <2>1
<1>5. f \in Injection(B, A \X (1..M))
  BY <1>3, <1>4 DEF Injection, IsInjective
<1>6. IsFiniteSet(1..M) /\ Cardinality(1..M) = M
  <2>1. 1 \in Int /\ M \in Int /\ (1 > M => M = 0) /\ M - 1 + 1 = M
    OBVIOUS
  <2>2. /\ IsFiniteSet(1..M)
        /\ Cardinality(1..M) = IF 1 > M THEN 0 ELSE M - 1 + 1
    BY <2>1, FS_Interval
  <2>3. QED
    BY <2>1, <2>2
<1>7. IsFiniteSet(A \X (1..M)) /\ Cardinality(A \X (1..M)) = Cardinality(A) * M
  BY <1>6, FS_Product
<1>8. QED
  BY <1>5, <1>7, FS_Injection

(* Cardinalities, of this module and of CpuStress.                         *)
LEMMA CpuCounts ==
  /\ \A S : Cpu!Cardinality(S) = Cardinality(S)
  /\ IsFiniteSet(CPUs) /\ Cardinality(CPUs) \in Nat \ {0}
<1>1. \A S : Cpu!Cardinality(S) = Cardinality(S)
  BY DEF Cpu!Cardinality, Cardinality
<1>2. IsFiniteSet(CPUs) /\ CPUs # {}
  BY Configured DEF Cpu!ConfigOK, Cpu!IsFiniteSet, IsFiniteSet
<1>3. QED
  BY <1>1, <1>2, FS_CardinalityType, FS_EmptySet

LEMMA CpuConstants ==
  /\ Full \in Nat \ {0} /\ Window \in Nat \ {0} /\ CpuDuration \in Nat \ {0}
  BY Configured DEF Cpu!ConfigOK

EachLoad == Cpu!PerWorkerLoad
Spawned  == Cpu!NumWorkers(cpuConfig.units)

(* The loads of the workers together are that of the fault.                *)
LEMMA LoadsOf ==
  ASSUME NEW u \in Nat \ {0}
  PROVE  LET nw == Cpu!NumWorkers(u)
             p  == Cpu!Smaller(u \div nw, Full)
         IN  /\ nw \in Nat \ {0} /\ p \in Nat /\ p <= Full
             /\ nw * p <= u
<1> DEFINE nw == Cpu!NumWorkers(u)
           p  == Cpu!Smaller(u \div nw, Full)
<1>1. (u + Full - 1) \div Full \in Nat \ {0}
  <2>1. Full * 1 <= u + Full - 1 /\ u + Full - 1 \in Nat
    BY CpuConstants
  <2>2. QED
    BY <2>1, CpuConstants
<1>2. nw \in Nat \ {0}
  BY <1>1, CpuCounts DEF Cpu!NumWorkers, Cpu!CeilDiv, Cpu!Smaller
<1> HIDE DEF nw
<1>3. u \div nw \in Nat /\ nw * (u \div nw) <= u
  BY <1>2, DivBound
<1>4. p \in Nat /\ p <= Full /\ p <= u \div nw
  BY <1>3, CpuConstants DEF Cpu!Smaller
<1>5. nw * p <= nw * (u \div nw)
  BY <1>2, <1>3, <1>4, TimesMonotone
<1>6. nw * p <= u
  BY <1>2, <1>3, <1>4, <1>5
<1>7. QED
  BY <1>2, <1>4, <1>6 DEF nw

LEMMA Loads ==
  ASSUME TypesInv
  PROVE  /\ EachLoad \in Nat /\ EachLoad <= Full /\ Spawned \in Nat \ {0}
         /\ cpuConfig.units \in Nat \ {0}
         /\ Spawned * EachLoad <= cpuConfig.units
<1>1. cpuConfig.units \in Nat \ {0}
  <2>1. \A c \in CpuConfigs \cup {Cpu!Unset} : c.units \in Nat \ {0}
    BY Configured, CpuConstants DEF Cpu!ConfigOK, Cpu!Config, Cpu!Unset
  <2>2. QED
    BY <2>1 DEF TypesInv
<1>2. QED
  BY <1>1, LoadsOf DEF EachLoad, Spawned, Cpu!PerWorkerLoad

(* An integer quotient.                                                    *)
LEMMA DivBetween ==
  ASSUME NEW a \in Nat, NEW b \in Nat \ {0}, NEW c \in Nat, a <= b * c
  PROVE  a \div b \in Nat /\ a \div b <= c
  OBVIOUS

(* A worker never plans to burn more than its share of a window.           *)
LEMMA BurnBounded ==
  ASSUME TypesInv, clock <= CpuDuration
  PROVE  Cpu!BurnTime \in Nat /\ Full * Cpu!BurnTime <= Window * EachLoad
<1>0. /\ cpuConfig.up \in Nat /\ cpuConfig.down \in Nat /\ clock \in Nat
      /\ clock <= CpuDuration /\ CpuDuration \in Nat
      /\ EachLoad \in Nat /\ Full \in Nat \ {0} /\ Window \in Nat
  BY RampsTyped, Loads, CpuConstants DEF TypesInv
<1>1. ASSUME cpuConfig.up > 0, clock < cpuConfig.up
      PROVE  /\ (EachLoad * clock) \div cpuConfig.up \in Nat
             /\ (EachLoad * clock) \div cpuConfig.up <= EachLoad
  <2>1. /\ EachLoad * clock <= cpuConfig.up * EachLoad
        /\ EachLoad * clock \in Nat
    BY <1>0, <1>1, TimesMonotone
  <2>2. QED
    BY <1>0, <1>1, <2>1, DivBetween
<1>2. ASSUME cpuConfig.down > 0, clock >= CpuDuration - cpuConfig.down
      PROVE  /\ (EachLoad * (CpuDuration - clock)) \div cpuConfig.down
                   \in Nat
             /\ (EachLoad * (CpuDuration - clock)) \div cpuConfig.down
                   <= EachLoad
  <2>1. /\ EachLoad * (CpuDuration - clock) <= cpuConfig.down * EachLoad
        /\ EachLoad * (CpuDuration - clock) \in Nat
    BY <1>0, <1>2, TimesMonotone
  <2>2. QED
    BY <1>0, <1>2, <2>1, DivBetween
<1>3. Cpu!Load \in Nat /\ Cpu!Load <= EachLoad
  BY <1>0, <1>1, <1>2 DEF Cpu!Load, EachLoad
<1>4. Window * Cpu!Load <= Window * EachLoad /\ Window * Cpu!Load \in Nat
  BY <1>0, <1>3, TimesMonotone
<1>5. QED
  BY <1>0, <1>4, DivBound DEF Cpu!BurnTime

(* Burning first and sleeping then is at most a quarter of a window ahead. *)
LEMMA Quarter ==
  ASSUME NEW f \in Nat \ {0}, NEW p \in Nat, p <= f, NEW w \in Nat,
         NEW x \in Int, f * x <= w * p
  PROVE  4 * (f - p) * x <= f * w
<1>1. PICK q \in Nat : q = f - p
  OBVIOUS
<1>2. 4 * (q * p) <= f * f
  <2>1. f = q + p
    BY <1>1
  <2>2. (q - p) * (q - p) >= 0
    BY <1>1
  <2>3. (q - p) * (q - p) = q * q + p * p - 2 * (q * p)
    BY <1>1
  <2>4. (q + p) * (q + p) = q * q + p * p + 2 * (q * p)
    BY <1>1
  <2>5. QED
    BY <1>1, <2>1, <2>2, <2>3, <2>4
<1>3. (4 * q) * (f * x) <= (4 * q) * (w * p)
  BY <1>1, TimesMonotone
<1>4. (4 * q) * (w * p) = w * (4 * (q * p))
  BY <1>1
<1>5. w * (4 * (q * p)) <= w * (f * f)
  BY <1>1, <1>2, TimesMonotone
<1>6. f * (4 * q * x) <= f * (f * w)
  <2>1. (4 * q) * (f * x) = f * (4 * q * x)
    BY <1>1
  <2>2. w * (f * f) = f * (f * w)
    OBVIOUS
  <2>3. QED
    BY <1>1, <1>3, <1>4, <1>5, <2>1, <2>2
<1>7. PICK y \in Int, z \in Int : y = 4 * q * x /\ z = f * w
  BY <1>1
<1>8. f * y <= f * z
  BY <1>6, <1>7
<1>9. y <= z
  BY <1>7, <1>8
<1>10. QED
  BY <1>1, <1>7, <1>9

(* Where a worker is within its window, with k units of time burned: at    *)
(* the top of the loop it is within its load; in a burn it was when the    *)
(* window began; and in a sleep it will be again when the sleep ends.      *)
Active == {w \in CPUs : cpuPc[w] # "off"}

Burn(w)  == Window - rest[w]
Begun(w) == until[w] - Burn(w)

Within(w, k) ==
  /\ cpuPc[w] = "top" => Full * k <= EachLoad * clock
  /\ cpuPc[w] = "burn" =>
       Full * k <= EachLoad * Begun(w)
                     + Full * (Cpu!Smaller(clock, until[w]) - Begun(w))
  /\ cpuPc[w] = "sleep" =>
       Full * k <= EachLoad * (until[w] - Window) + Full * Burn(w)
  /\ cpuPc[w] = "exited" =>
       4 * (Full * k) <= 4 * (EachLoad * clock) + Full * Window

(* B is when which worker burned.                                          *)
History(B) ==
  /\ IsFiniteSet(B) /\ Cardinality(B) = burned
  /\ \A p \in B : p[2] < clock
  /\ \A w \in Active : Within(w, Cardinality(Slice(B, w)))

(* A worker plans to burn no more than its load's part of a window, and    *)
(* one that sleeps has burned.                                             *)
WindowInv ==
  /\ until \in [CPUs -> Int] /\ rest \in [CPUs -> Int]
  /\ cpuPc \in [CPUs -> {"off", "top", "burn", "sleep", "exited"}]
  /\ NoRated /\ NoCpu /\ NoInline => clock = 0
  /\ ~NoCpu => clock <= CpuDuration /\ Cardinality(Active) = Spawned
  /\ NoCpu => Active = {} /\ burned = 0
  /\ \A w \in CPUs :
       cpuPc[w] \in {"burn", "sleep"} => Full * Burn(w) <= Window * EachLoad
  /\ \A w \in CPUs : cpuPc[w] = "sleep" => until[w] - rest[w] <= clock

(* Every unit of time burned was burned by one of the workers at one tick: *)
(* the history B is not kept by the code, it is the witness that the count *)
(* is the sum over the workers.                                            *)
ShareInv == WindowInv /\ \E B \in SUBSET (Active \X Nat) : History(B)

-----------------------------------------------------------------------------
(* The turns of a window, in numbers: f is Full, p the load of a worker,   *)
(* l the length of a window, c the clock, u the end of a burn or a sleep,  *)
(* b the time to burn, k the time burned.                                  *)

LEMMA TopToBurn ==
  ASSUME NEW f \in Nat, NEW p \in Nat, p <= f, NEW c \in Nat, NEW d \in Nat,
         c <= d, NEW b \in Nat, NEW u \in Int, NEW m \in Int, NEW k \in Nat,
         u = IF c + b < d THEN c + b ELSE d,
         m = IF c < u THEN c ELSE u,
         f * k <= p * c
  PROVE  f * k <= p * (u - b) + f * (m - (u - b))
<1>0. u <= c + b /\ c <= u
  <2>1. CASE c + b < d
    BY <2>1
  <2>2. CASE ~(c + b < d)
    BY <2>2
  <2>3. QED
    BY <2>1, <2>2
<1>1. PICK x \in Nat : x = c - (u - b)
  BY <1>0
<1>2. m = c /\ u - b = c - x
  BY <1>0, <1>1
<1>3. p * x <= f * x
  BY <1>1, TimesMonotone
<1>4. p * (c - x) + f * (c - (c - x)) = p * c - p * x + f * x
  <2>1. p * (c - x) = p * c - p * x
    BY <1>1
  <2>2. c - (c - x) = x
    BY <1>1
  <2>3. QED
    BY <2>1, <2>2
<1>5. QED
  BY <1>2, <1>3, <1>4

LEMMA BurnToSleep ==
  ASSUME NEW f \in Nat, NEW p \in Nat, NEW c \in Nat, NEW l \in Nat,
         NEW r \in Int, NEW u \in Int, NEW k \in Nat, c >= u,
         f * k <= p * (u - (l - r)) + f * (u - (u - (l - r)))
  PROVE  f * k <= p * ((c + r) - l) + f * (l - r)
<1>1. p * (u - (l - r)) <= p * ((c + r) - l)
  BY TimesMonotone
<1>2. u - (u - (l - r)) = l - r
  OBVIOUS
<1>3. QED
  BY <1>1, <1>2

LEMMA BurnToTop ==
  ASSUME NEW f \in Nat, NEW p \in Nat, NEW c \in Nat, NEW l \in Nat,
         NEW r \in Int, NEW u \in Int, NEW k \in Nat, c >= u, r <= 0,
         f * (l - r) <= l * p,
         f * k <= p * (u - (l - r)) + f * (u - (u - (l - r)))
  PROVE  f * k <= p * c
<1>1. u - (u - (l - r)) = l - r
  OBVIOUS
<1>2. p * (u - (l - r)) + l * p = p * (u + r)
  OBVIOUS
<1>3. p * (u + r) <= p * c
  BY TimesMonotone
<1>4. QED
  BY <1>1, <1>2, <1>3

LEMMA SleepToTop ==
  ASSUME NEW f \in Nat, NEW p \in Nat, NEW c \in Nat, NEW l \in Nat,
         NEW b \in Int, NEW u \in Int, NEW k \in Nat, c >= u,
         f * b <= l * p, f * k <= p * (u - l) + f * b
  PROVE  f * k <= p * c
<1>1. p * (u - l) + l * p = p * u
  OBVIOUS
<1>2. p * u <= p * c
  BY TimesMonotone
<1>3. QED
  BY <1>1, <1>2

(* Whenever it leaves.                                                     *)
LEMMA Ahead ==
  ASSUME NEW f \in Nat \ {0}, NEW p \in Nat, p <= f, NEW c \in Nat,
         NEW l \in Nat, NEW s \in Int, NEW x \in Int, NEW k \in Nat,
         s + x <= c, f * x <= l * p, f * k <= p * s + f * x
  PROVE  4 * (f * k) <= 4 * (p * c) + f * l
<1>1. 4 * (f - p) * x <= f * l
  BY Quarter
<1>2. p * (s + x) <= p * c
  BY TimesMonotone
<1>3. 4 * (p * s + f * x) = 4 * (p * (s + x)) + 4 * (f - p) * x
  OBVIOUS
<1>4. PICK a1 \in Int, a2 \in Int, a3 \in Int, a4 \in Int, a5 \in Int :
        /\ a1 = f * k /\ a2 = p * s + f * x /\ a3 = p * (s + x)
        /\ a4 = 4 * (f - p) * x /\ a5 = p * c
  OBVIOUS
<1>5. QED
  BY <1>1, <1>2, <1>3, <1>4

-----------------------------------------------------------------------------
(* What a worker burned is a finite set.                                   *)
LEMMA SliceTyped ==
  ASSUME NEW B, IsFiniteSet(B), NEW w
  PROVE  IsFiniteSet(Slice(B, w)) /\ Cardinality(Slice(B, w)) \in Nat
<1>1. Slice(B, w) \subseteq B
  BY DEF Slice
<1>2. IsFiniteSet(Slice(B, w))
  BY <1>1, FS_Subset
<1>3. QED
  BY <1>2, FS_CardinalityType

(* A step without time leaves the history as it is.                        *)
LEMMA KeepsHistory ==
  ASSUME ShareInv, UNCHANGED <<burned, clock, Active>>,
         \A w \in Active, k \in Nat : Within(w, k) => Within(w, k)'
  PROVE  \E B \in SUBSET (Active' \X Nat) : History(B)'
<1>1. PICK B \in SUBSET (Active \X Nat) : History(B)
  BY DEF ShareInv
<1>2. \A w \in Active : Cardinality(Slice(B, w)) \in Nat
  BY <1>1, SliceTyped DEF History
<1>3. \A w \in Active' : Within(w, Cardinality(Slice(B, w)))'
  BY <1>1, <1>2 DEF History
<1>4. History(B)'
  BY <1>1, <1>3 DEF History
<1>5. QED
  BY <1>1, <1>4

LEMMA CpuFacts ==
  ASSUME IInv, ShareInv
  PROVE  /\ Full \in Nat \ {0} /\ Window \in Nat /\ CpuDuration \in Nat
         /\ clock \in Nat /\ EachLoad \in Nat /\ EachLoad <= Full
         /\ until \in [CPUs -> Int] /\ rest \in [CPUs -> Int]
         /\ cpuPc \in [CPUs -> {"off", "top", "burn", "sleep", "exited"}]
  BY CpuConstants, Loads DEF IInv, TypesInv, ShareInv, WindowInv

(* Wherever it is within its window, a worker is at most a quarter of it   *)
(* ahead of its load.                                                      *)
LEMMA WithinBound ==
  ASSUME IInv, ShareInv, NEW w \in Active, NEW k \in Nat, Within(w, k)
  PROVE  4 * (Full * k) <= 4 * (EachLoad * clock) + Full * Window
<1>0. /\ Full \in Nat \ {0} /\ Window \in Nat /\ CpuDuration \in Nat
      /\ clock \in Nat /\ EachLoad \in Nat /\ EachLoad <= Full
      /\ until \in [CPUs -> Int] /\ rest \in [CPUs -> Int]
      /\ cpuPc \in [CPUs -> {"off", "top", "burn", "sleep", "exited"}]
  BY CpuFacts
<1>1. w \in CPUs
  BY DEF Active
<1>2. PICK u \in Int, b \in Int : u = until[w] /\ b = Burn(w)
  BY <1>0, <1>1 DEF Burn
<1>3. cpuPc[w] \in {"burn", "sleep"} => Full * b <= Window * EachLoad
  BY <1>1, <1>2 DEF ShareInv, WindowInv
<1>4. CASE cpuPc[w] = "top"
  <2>1. Full * k <= EachLoad * clock
    BY <1>4 DEF Within
  <2>2. PICK x \in Int, y \in Int, z \in Nat :
          x = Full * k /\ y = EachLoad * clock /\ z = Full * Window
    BY <1>0
  <2>3. QED
    BY <2>1, <2>2
<1>5. CASE cpuPc[w] = "burn"
  <2>1. PICK m \in Int : m = Cpu!Smaller(clock, u)
    BY <1>0 DEF Cpu!Smaller
  <2>2. m <= clock /\ m <= u
    BY <1>0, <2>1 DEF Cpu!Smaller
  <2>3. PICK s \in Int, x \in Int : s = u - b /\ x = m - s
    OBVIOUS
  <2>4. s + x <= clock /\ x <= b
    BY <1>0, <2>2, <2>3
  <2>5. Full * x <= Full * b
    BY <1>0, <2>4, TimesMonotone
  <2>6. Full * x <= Window * EachLoad
    <3>1. PICK y \in Int, z \in Int, v \in Int :
            y = Full * x /\ z = Full * b /\ v = Window * EachLoad
      BY <1>0
    <3>2. QED
      BY <1>3, <1>5, <2>5, <3>1
  <2>7. Full * k <= EachLoad * s + Full * x
    BY <1>2, <1>5, <2>1, <2>3 DEF Within, Begun
  <2>8. QED
    BY <1>0, <2>4, <2>6, <2>7, Ahead
<1>6. CASE cpuPc[w] = "sleep"
  <2>1. PICK s \in Int : s = u - Window
    BY <1>0
  <2>2. s + b <= clock
    <3>1. u - rest[w] <= clock /\ b = Window - rest[w] /\ rest[w] \in Int
      BY <1>0, <1>1, <1>2, <1>6 DEF ShareInv, WindowInv, Burn
    <3>2. QED
      BY <1>0, <2>1, <3>1
  <2>3. Full * k <= EachLoad * s + Full * b
    BY <1>2, <1>6, <2>1 DEF Within
  <2>4. QED
    BY <1>0, <1>3, <1>6, <2>2, <2>3, Ahead
<1>7. CASE cpuPc[w] = "exited"
  BY <1>7 DEF Within
<1>8. QED
  BY <1>0, <1>1, <1>4, <1>5, <1>6, <1>7 DEF Active

(* A turn of one worker touches no other's.                                *)
LEMMA TurnKeepsShare ==
  ASSUME IInv, ShareInv, NEW w \in CPUs,
         Cpu!WorkerStep(w) \/ Cpu!WorkerExit(w),
         CpuStep
  PROVE  ShareInv'
<1>0. /\ Full \in Nat \ {0} /\ Window \in Nat /\ CpuDuration \in Nat
      /\ clock \in Nat /\ EachLoad \in Nat /\ EachLoad <= Full
      /\ until \in [CPUs -> Int] /\ rest \in [CPUs -> Int]
      /\ cpuPc \in [CPUs -> {"off", "top", "burn", "sleep", "exited"}]
  BY CpuFacts
<1>1. /\ UNCHANGED <<cpuConfig, cpuRun, clock, burned, ratedRun, inlineRun>>
      /\ cpuRun = "running"
  <2>1. /\ UNCHANGED <<cpuConfig, cpuRun, clock, burned>>
        /\ cpuPc[w] \notin {"off", "exited"}
    BY DEF Cpu!WorkerStep, Cpu!BeginWindow, Cpu!EndBurn, Cpu!EndSleep,
           Cpu!WorkerExit
  <2>2. QED
    BY <2>1 DEF IInv, RestInv, CpuStep, ratedVars, inlineVars
<1>2. UNCHANGED <<EachLoad, Spawned, NoRated, NoCpu, NoInline>>
  BY <1>1 DEF EachLoad, Cpu!PerWorkerLoad, Spawned, NoRated, NoCpu, NoInline
<1>3. clock <= CpuDuration
  BY <1>1 DEF ShareInv, WindowInv, NoCpu
<1>4. /\ cpuPc[w] # "off" /\ cpuPc'[w] # "off"
      /\ \A v \in CPUs \ {w} : UNCHANGED <<cpuPc[v], until[v], rest[v]>>
      /\ until' \in [CPUs -> Int] /\ rest' \in [CPUs -> Int]
      /\ cpuPc' \in [CPUs -> {"off", "top", "burn", "sleep", "exited"}]
  BY <1>0, <1>3, BurnBounded
     DEF Cpu!WorkerStep, Cpu!BeginWindow, Cpu!EndBurn, Cpu!EndSleep,
         Cpu!WorkerExit, IInv, Cpu!Smaller
<1>5. UNCHANGED Active
  BY <1>4 DEF Active
<1>6. ASSUME /\ cpuPc[w] \in {"burn", "sleep"} =>
                  Full * Burn(w) <= Window * EachLoad
             /\ cpuPc[w] = "sleep" => until[w] - rest[w] <= clock
      PROVE  /\ cpuPc'[w] \in {"burn", "sleep"} =>
                  Full * Burn(w)' <= Window * EachLoad
             /\ cpuPc'[w] = "sleep" => until'[w] - rest'[w] <= clock
             /\ \A k \in Nat : Within(w, k) => Within(w, k)'
  <2>1. CASE Cpu!BeginWindow(w)
    <3>1. PICK b \in Nat : b = Cpu!BurnTime /\ Full * b <= Window * EachLoad
      BY <1>3, BurnBounded DEF IInv
    <3>2. PICK u \in Int : u = until'[w]
      BY <1>4
    <3>3. /\ cpuPc[w] = "top" /\ cpuPc'[w] = "burn" /\ rest'[w] = Window - b
          /\ u = IF clock + b < CpuDuration THEN clock + b ELSE CpuDuration
      BY <1>0, <2>1, <3>1, <3>2 DEF Cpu!BeginWindow, Cpu!Smaller
    <3>4. Burn(w)' = b /\ Begun(w)' = u - b
      BY <1>0, <3>2, <3>3 DEF Burn, Begun
    <3>5. PICK m \in Int : m = IF clock < u THEN clock ELSE u
      BY <1>0
    <3>6. ASSUME NEW k \in Nat, Full * k <= EachLoad * clock
          PROVE  Full * k <= EachLoad * (u - b) + Full * (m - (u - b))
      BY <1>0, <1>3, <3>3, <3>5, <3>6, TopToBurn
    <3>7. Cpu!Smaller(clock, until[w])' = m
      BY <1>1, <3>2, <3>5 DEF Cpu!Smaller
    <3>8. \A k \in Nat : Within(w, k) => Within(w, k)'
      BY <1>2, <3>3, <3>4, <3>6, <3>7 DEF Within
    <3>9. QED
      BY <3>1, <3>3, <3>4, <3>8
  <2>2. CASE Cpu!EndBurn(w)
    <3>1. PICK u \in Int, r \in Int : u = until[w] /\ r = rest[w]
      BY <1>0
    <3>2. /\ cpuPc[w] = "burn" /\ clock >= u
          /\ cpuPc'[w] = IF r > 0 THEN "sleep" ELSE "top"
          /\ until'[w] = clock + r /\ rest'[w] = r
      BY <1>0, <2>2, <3>1 DEF Cpu!EndBurn
    <3>3. /\ Burn(w) = Window - r /\ Begun(w) = u - (Window - r)
          /\ Burn(w)' = Window - r
          /\ Cpu!Smaller(clock, until[w]) = u
      BY <1>0, <3>1, <3>2 DEF Burn, Begun, Cpu!Smaller
    <3>4. Full * (Window - r) <= Window * EachLoad
      BY <1>6, <3>2, <3>3
    <3>5. ASSUME NEW k \in Nat, Within(w, k)
          PROVE  Within(w, k)'
      <4>1. Full * k <= EachLoad * (u - (Window - r))
                          + Full * (u - (u - (Window - r)))
        BY <3>2, <3>3, <3>5 DEF Within
      <4>2. CASE r > 0
        <5>1. Full * k <= EachLoad * ((clock + r) - Window)
                            + Full * (Window - r)
          BY <1>0, <3>2, <4>1, BurnToSleep
        <5>2. QED
          BY <1>2, <3>2, <3>3, <4>2, <5>1 DEF Within
      <4>3. CASE ~(r > 0)
        <5>1. Full * k <= EachLoad * clock
          BY <1>0, <3>2, <3>4, <4>1, <4>3, BurnToTop
        <5>2. QED
          BY <1>1, <1>2, <3>2, <4>3, <5>1 DEF Within
      <4>4. QED
        BY <4>2, <4>3
    <3>6. QED
      BY <1>0, <3>2, <3>3, <3>4, <3>5
  <2>3. CASE Cpu!EndSleep(w)
    <3>1. PICK u \in Int, b \in Int : u = until[w] /\ b = Burn(w)
      BY <1>0 DEF Burn
    <3>2. cpuPc[w] = "sleep" /\ clock >= u /\ cpuPc'[w] = "top"
      BY <1>0, <2>3, <3>1 DEF Cpu!EndSleep
    <3>3. ASSUME NEW k \in Nat, Within(w, k)
          PROVE  Within(w, k)'
      <4>1. Full * k <= EachLoad * (u - Window) + Full * b
        BY <3>1, <3>2, <3>3 DEF Within
      <4>2. Full * b <= Window * EachLoad
        BY <1>6, <3>1, <3>2
      <4>3. Full * k <= EachLoad * clock
        BY <1>0, <3>2, <4>1, <4>2, SleepToTop
      <4>4. QED
        BY <1>1, <1>2, <3>2, <4>3 DEF Within
    <3>4. QED
      BY <3>2, <3>3
  <2>4. CASE Cpu!WorkerExit(w)
    <3>1. cpuPc[w] \in {"top", "burn", "sleep"} /\ cpuPc'[w] = "exited"
      BY <1>0, <2>4 DEF Cpu!WorkerExit
    <3>2. ASSUME NEW k \in Nat, Within(w, k)
          PROVE  4 * (Full * k) <= 4 * (EachLoad * clock) + Full * Window
      <4>1. w \in Active
        BY <1>4 DEF Active
      <4>2. QED
        BY <3>2, <4>1, WithinBound
    <3>3. QED
      BY <1>1, <1>2, <3>1, <3>2 DEF Within
  <2>5. QED
    BY <2>1, <2>2, <2>3, <2>4 DEF Cpu!WorkerStep
<1>7. \A v \in CPUs \ {w}, k \in Nat : Within(v, k) => Within(v, k)'
  BY <1>1, <1>2, <1>4 DEF Within, Begun, Burn
<1>8. WindowInv'
  BY <1>0, <1>1, <1>2, <1>3, <1>4, <1>5, <1>6 DEF ShareInv, WindowInv, Burn
<1>9. \E B \in SUBSET (Active' \X Nat) : History(B)'
  BY <1>1, <1>5, <1>6, <1>7, KeepsHistory DEF ShareInv, WindowInv, Active
<1>10. QED
  BY <1>8, <1>9 DEF ShareInv

-----------------------------------------------------------------------------
(* A tick.                                                                 *)
LEMMA TickKeepsShare ==
  ASSUME IInv, ShareInv, CpuStep, Cpu!Tick
  PROVE  ShareInv'
<1> DEFINE burning == {w \in CPUs : Cpu!Burning(w)}
<1>0. /\ Full \in Nat \ {0} /\ Window \in Nat /\ CpuDuration \in Nat
      /\ clock \in Nat /\ EachLoad \in Nat /\ EachLoad <= Full
      /\ until \in [CPUs -> Int] /\ rest \in [CPUs -> Int]
      /\ cpuPc \in [CPUs -> {"off", "top", "burn", "sleep", "exited"}]
  BY CpuFacts
<1>1. /\ UNCHANGED <<cpuConfig, cpuRun, ratedRun, inlineRun, cpuPc, until,
                     rest>>
      /\ clock' = clock + 1 /\ clock < CpuDuration /\ cpuRun = "running"
      /\ burned' = burned + Cardinality(burning)
  BY CpuCounts DEF Cpu!Tick, Cpu!workers, CpuStep, ratedVars, inlineVars
<1>2. UNCHANGED <<EachLoad, Spawned, NoRated, NoCpu, NoInline, Active>>
  BY <1>1 DEF EachLoad, Cpu!PerWorkerLoad, Spawned, NoRated, NoCpu, NoInline,
              Active
<1>3. WindowInv'
  BY <1>0, <1>1, <1>2 DEF ShareInv, WindowInv, Burn, NoCpu
<1>4. PICK B \in SUBSET (Active \X Nat) : History(B)
  BY DEF ShareInv
<1> DEFINE more == burning \X {clock}
<1>C. PICK C : C = B \cup more
  OBVIOUS
<1>5. burning \subseteq Active /\ burning \subseteq CPUs
  BY DEF Active, Cpu!Burning
<1>6. IsFiniteSet(burning) /\ IsFiniteSet({clock}) /\ Cardinality({clock}) = 1
  BY <1>5, CpuCounts, FS_Subset, FS_Singleton
<1>7. IsFiniteSet(more) /\ Cardinality(more) = Cardinality(burning)
  <2>1. Cardinality(burning) \in Nat
    BY <1>6, FS_CardinalityType
  <2>2. Cardinality(more) = Cardinality(burning) * Cardinality({clock})
    BY <1>6, FS_Product
  <2>3. QED
    BY <1>6, <2>1, <2>2, FS_Product
<1>8. B \cap more = {}
  <2>1. \A p \in B : p[2] < clock /\ p[2] \in Nat
    BY <1>4 DEF History
  <2>2. \A p \in more : p[2] = clock
    OBVIOUS
  <2>3. QED
    BY <1>0, <2>1, <2>2
<1>9. IsFiniteSet(C) /\ Cardinality(C) = burned'
  <2>1. /\ IsFiniteSet(C)
        /\ Cardinality(C) = Cardinality(B) + Cardinality(more)
                              - Cardinality(B \cap more)
    BY <1>C, <1>4, <1>7, FS_Union DEF History
  <2>2. Cardinality(B \cap more) = 0 /\ Cardinality(B) \in Nat
        /\ Cardinality(more) \in Nat
    BY <1>4, <1>7, <1>8, FS_EmptySet, FS_CardinalityType DEF History
  <2>3. QED
    BY <1>1, <1>4, <1>7, <2>1, <2>2 DEF History
<1>10. C \in SUBSET (Active' \X Nat)
  BY <1>C, <1>0, <1>2, <1>5
<1>11. \A p \in C : p[2] < clock'
  <2>1. \A p \in B : p[2] < clock /\ p[2] \in Nat
    BY <1>4 DEF History
  <2>2. \A p \in more : p[2] = clock
    OBVIOUS
  <2>3. QED
    BY <1>C, <1>0, <1>1, <2>1, <2>2
<1> HIDE DEF more
<1>12. ASSUME NEW w \in Active
       PROVE  Within(w, Cardinality(Slice(C, w)))'
  <2> DEFINE k == Cardinality(Slice(B, w))
             j == Cardinality(Slice(C, w))
  <2>1. IsFiniteSet(Slice(B, w)) /\ k \in Nat /\ Within(w, k)
    BY <1>4, SliceTyped DEF History
  <2>2. CASE w \in burning
    <3>1. Slice(C, w) = Slice(B, w) \cup {<<w, clock>>}
      BY <1>C, <2>2 DEF Slice, more
    <3>2. <<w, clock>> \notin Slice(B, w)
      BY <1>0, <1>4 DEF History, Slice
    <3>3. j = k + 1
      BY <2>1, <3>1, <3>2, FS_AddElement
    <3>4. PICK u \in Int, s \in Int : u = until[w] /\ s = Begun(w)
      BY <1>0, <1>5, <2>2 DEF Begun, Burn
    <3>5. cpuPc[w] = "burn" /\ clock < u
      BY <2>2, <3>4 DEF Cpu!Burning
    <3>6. Full * k <= EachLoad * s + Full * (clock - s)
      BY <1>0, <2>1, <3>4, <3>5 DEF Within, Cpu!Smaller
    <3>7. Full * (k + 1) <= EachLoad * s + Full * ((clock + 1) - s)
      <4>1. Full * (k + 1) = Full * k + Full
        BY <1>0, <2>1
      <4>2. Full * ((clock + 1) - s) = Full * (clock - s) + Full
        BY <1>0
      <4>3. PICK a \in Int, b \in Int, c \in Int :
              a = Full * k /\ b = EachLoad * s /\ c = Full * (clock - s)
        BY <1>0, <2>1
      <4>4. QED
        BY <1>0, <3>6, <4>1, <4>2, <4>3
    <3>8. Cpu!Smaller(clock, until[w])' = clock + 1 /\ Begun(w)' = s
      BY <1>0, <1>1, <3>4, <3>5 DEF Cpu!Smaller, Begun, Burn
    <3> HIDE DEF k, j
    <3>9. QED
      BY <1>1, <1>2, <3>3, <3>5, <3>7, <3>8 DEF Within, j
  <2>3. CASE w \notin burning
    <3>1. Slice(C, w) = Slice(B, w)
      BY <1>C, <2>3 DEF Slice, more
    <3>2. Within(w, k)'
      <4>1. EachLoad * clock <= EachLoad * (clock + 1)
        BY <1>0, TimesMonotone
      <4>2. PICK a \in Nat, b \in Int, c \in Int, d \in Nat :
              /\ a = Full * k /\ b = EachLoad * clock
              /\ c = EachLoad * (clock + 1) /\ d = Full * Window
        BY <1>0, <2>1
      <4>3. cpuPc[w] = "burn" =>
              Cpu!Smaller(clock, until[w])' = Cpu!Smaller(clock, until[w])
        BY <1>0, <1>1, <1>5, <2>3 DEF Cpu!Smaller, Cpu!Burning, Active
      <4>4. Begun(w)' = Begun(w) /\ Burn(w)' = Burn(w)
        BY <1>1 DEF Begun, Burn
      <4> HIDE DEF k
      <4>5. cpuPc[w] = "top" => a <= c
        BY <2>1, <4>1, <4>2 DEF Within
      <4>6. cpuPc[w] = "exited" => 4 * a <= 4 * c + d
        BY <2>1, <4>1, <4>2 DEF Within
      <4>7. QED
        BY <1>1, <1>2, <2>1, <4>2, <4>3, <4>4, <4>5, <4>6 DEF Within
    <3>3. QED
      BY <3>1, <3>2
  <2>4. QED
    BY <2>2, <2>3
<1>13. History(C)'
  BY <1>2, <1>9, <1>11, <1>12 DEF History
<1>14. QED
  BY <1>3, <1>10, <1>13 DEF ShareInv

(* Start spawns the workers of its configuration, who have burned nothing. *)
LEMMA StartKeepsShare ==
  ASSUME IInv, ShareInv, CpuStep, NEW c \in CpuConfigs, Cpu!Start(c)
  PROVE  ShareInv'
<1>1. /\ cpuRun = "idle" /\ cpuRun' = "running" /\ cpuConfig' = c
      /\ clock = 0 /\ clock' = 0 /\ Active = {} /\ burned = 0 /\ burned' = 0
      /\ UNCHANGED <<until, rest>>
  BY DEF Cpu!Start, CpuStep, ShareInv, WindowInv, NoCpu
<1>2. PICK ws \in SUBSET CPUs :
        /\ Cardinality(ws) = Cpu!NumWorkers(c.units)
        /\ cpuPc' = [w \in CPUs |-> IF w \in ws THEN "top" ELSE "off"]
  BY CpuCounts DEF Cpu!Start
<1>3. Active' = ws
  BY <1>2 DEF Active
<1>4. EachLoad' \in Nat
  <2>1. c.units \in Nat \ {0}
    BY Configured DEF Cpu!ConfigOK, Cpu!Config
  <2>2. QED
    BY <1>1, <2>1, LoadsOf DEF EachLoad, Cpu!PerWorkerLoad
<1>5. WindowInv'
  <2>1. Spawned' = Cpu!NumWorkers(c.units)
    BY <1>1 DEF Spawned
  <2>2. /\ CpuDuration \in Nat
        /\ until \in [CPUs -> Int] /\ rest \in [CPUs -> Int]
    BY CpuFacts
  <2>3. /\ cpuPc' \in [CPUs -> {"off", "top", "burn", "sleep", "exited"}]
        /\ \A w \in CPUs : cpuPc'[w] \notin {"burn", "sleep"}
    BY <1>2
  <2>4. QED
    BY <1>1, <1>2, <1>3, <2>1, <2>2, <2>3 DEF WindowInv, NoCpu
<1>6. History({})'
  <2>1. \A w : Slice({}, w) = {}
    BY DEF Slice
  <2>2. \A w \in Active' : Within(w, 0)'
    <3>1. PICK e \in Nat : e = EachLoad'
      BY <1>4
    <3>2. Full * 0 <= e * 0
      BY CpuConstants
    <3>3. \A w \in Active' : cpuPc'[w] = "top"
      BY <1>2, <1>3
    <3>4. QED
      BY <1>1, <3>1, <3>2, <3>3 DEF Within
  <2>3. QED
    BY <1>1, <2>1, <2>2, FS_EmptySet DEF History
<1>7. QED
  BY <1>5, <1>6 DEF ShareInv

(* What other kinds of faults do to an idle one.                           *)
LEMMA OthersKeepShare ==
  ASSUME IInv, ShareInv, Next, ~CpuStep
  PROVE  ShareInv'
<1>1. /\ NoCpu /\ UNCHANGED cpuVars
      /\ RatedStep \/ MemoryStep \/ InlineStep
  BY DEF Next, RatedStep, MemoryStep, InlineStep
<1>2. Active = {} /\ burned = 0 /\ UNCHANGED <<Active, burned, NoCpu>>
  BY <1>1 DEF ShareInv, WindowInv, Active, cpuVars, NoCpu
<1>3. UNCHANGED EachLoad
  BY <1>1 DEF EachLoad, Cpu!PerWorkerLoad, cpuVars
<1>4. NoRated' /\ NoCpu' /\ NoInline' => clock' = 0
  <2>1. CASE RatedStep
    <3>1. Rated!Next /\ cpuRun = "idle"
      BY <2>1 DEF RatedStep, NoCpu
    <3>2. CASE \/ \E c \in RatedConfigs : Rated!Start(c)
               \/ Rated!WriteFile \/ Rated!WriteFileFails \/ Rated!Launch
               \/ Rated!Tick \/ Rated!RampTick \/ Rated!RampExit
               \/ Rated!SendResult \/ Rated!Cleanup
      BY <3>2 DEF Rated!Start, Rated!WriteFile, Rated!WriteFileFails,
                  Rated!Launch, Rated!Tick, Rated!RampTick, Rated!RampExit,
                  Rated!SendResult, Rated!Cleanup, Rated!started, NoRated
    <3>3. CASE Rated!Interrupt
      BY <3>3 DEF Rated!Interrupt, Rated!started, NoRated
    <3>4. CASE Rated!AnnouncePhase \/ Rated!EmitterEnds
      <4>1. emitter \notin {"off", "gone"} /\ UNCHANGED ratedRun
        BY <3>4 DEF Rated!AnnouncePhase, Rated!EmitterEnds, Rated!started,
                    Rated!Phases!EmitterStep, Rated!Phases!EmitterExit
      <4>2. QED
        BY <3>1, <4>1 DEF IInv, RestInv, NoRated
    <3>5. CASE \E w \in Workers : Rated!WorkerStep(w) \/ Rated!WorkerExit(w)
      <4>1. PICK w \in Workers : ratedPc[w] # "exited" /\ UNCHANGED ratedRun
        BY <3>5 DEF Rated!WorkerStep, Rated!BeginAcquire, Rated!Acquire,
                    Rated!Operate, Rated!OperationFails, Rated!WorkerExit,
                    Rated!started
      <4>2. QED
        BY <4>1 DEF IInv, RestInv, NoRated
    <3>6. QED
      BY <3>1, <3>2, <3>3, <3>4, <3>5 DEF Rated!Next
  <2>2. CASE MemoryStep
    BY <2>2 DEF MemoryStep, ShareInv, WindowInv, NoInline, inlineVars, NoRated,
                NoCpu, ratedVars, cpuVars
  <2>3. CASE InlineStep
    <3>1. ~NoInline'
      BY <2>3 DEF InlineStep, Inline!Next, Inline!Start, Inline!Tick,
                  Inline!Interrupt, Inline!SendResult, Inline!Send, NoInline
    <3>2. QED
      BY <3>1
  <2>4. QED
    BY <1>1, <2>1, <2>2, <2>3
<1>5. WindowInv'
  BY <1>1, <1>2, <1>3, <1>4 DEF ShareInv, WindowInv, cpuVars, Burn, Active,
     NoCpu
<1>6. History({})'
  BY <1>2, FS_EmptySet DEF History
<1>7. QED
  BY <1>5, <1>6 DEF ShareInv

(* Every step keeps it.                                                    *)
LEMMA KeepsShare ==
  ASSUME IInv, ShareInv, Next
  PROVE  ShareInv'
<1>1. CASE ~CpuStep
  BY <1>1, OthersKeepShare
<1>2. CASE CpuStep
  <2>0. Cpu!Next
    BY <1>2 DEF CpuStep
  <2>1. CASE \E c \in CpuConfigs : Cpu!Start(c)
    BY <1>2, <2>1, StartKeepsShare
  <2>2. CASE Cpu!Tick
    BY <1>2, <2>2, TickKeepsShare
  <2>3. CASE \E w \in CPUs : Cpu!WorkerStep(w) \/ Cpu!WorkerExit(w)
    BY <1>2, <2>3, TurnKeepsShare
  <2>4. CASE \/ Cpu!Interrupt \/ Cpu!AnnouncePhase \/ Cpu!EmitterEnds
             \/ Cpu!SendResult
    <3>1. /\ UNCHANGED <<cpuConfig, clock, burned, cpuPc, until, rest,
                         ratedRun, inlineRun>>
          /\ cpuRun = "idle" <=> cpuRun' = "idle"
      <4>1. CASE Cpu!Interrupt \/ Cpu!SendResult
        BY <1>2, <4>1 DEF Cpu!Interrupt, Cpu!SendResult, Cpu!workers, CpuStep,
                          ratedVars, inlineVars
      <4>2. CASE Cpu!AnnouncePhase \/ Cpu!EmitterEnds
        BY <1>2, <4>2 DEF Cpu!AnnouncePhase, Cpu!EmitterEnds, Cpu!workers,
                          CpuStep, ratedVars, inlineVars
      <4>3. QED
        BY <2>4, <4>1, <4>2
    <3>2. UNCHANGED <<EachLoad, Spawned, Active, NoRated, NoCpu, NoInline>>
      BY <3>1 DEF EachLoad, Cpu!PerWorkerLoad, Spawned, Active, NoRated,
                  NoCpu, NoInline
    <3>3. WindowInv'
      BY <3>1, <3>2 DEF ShareInv, WindowInv, Burn
    <3>4. \A w \in Active, k \in Nat : Within(w, k) => Within(w, k)'
      BY <3>1, <3>2 DEF Within, Begun, Burn
    <3>5. QED
      BY <3>1, <3>2, <3>3, <3>4, KeepsHistory DEF ShareInv
  <2>5. QED
    BY <2>0, <2>1, <2>2, <2>3, <2>4 DEF Cpu!Next
<1>3. QED
  BY <1>1, <1>2

LEMMA InitShare ==
  ASSUME Init
  PROVE  ShareInv
<1>1. /\ cpuPc = [w \in CPUs |-> "off"] /\ burned = 0 /\ clock = 0
      /\ until = [w \in CPUs |-> 0] /\ rest = [w \in CPUs |-> 0]
      /\ NoCpu
  BY DEF Init, Cpu!Init, NoCpu
<1>2. Active = {}
  BY <1>1 DEF Active
<1>3. WindowInv
  BY <1>1, <1>2 DEF WindowInv
<1>4. History({})
  BY <1>1, <1>2, FS_EmptySet DEF History
<1>5. QED
  BY <1>3, <1>4 DEF ShareInv

LEMMA ShareImpliesWithin ==
  ASSUME IInv, ShareInv
  PROVE  CpuWithinShare
<1> DEFINE u == cpuConfig.units
           bound == 4 * (EachLoad * clock) + Full * Window
           M == bound \div (4 * Full)
<1>0. /\ Full \in Nat \ {0} /\ Window \in Nat /\ clock \in Nat
      /\ EachLoad \in Nat /\ Spawned \in Nat \ {0} /\ u \in Nat \ {0}
      /\ Spawned * EachLoad <= u
  BY CpuFacts, Loads DEF IInv
<1>1. /\ EachLoad * clock \in Nat /\ Full * Window \in Nat
      /\ 4 * Full \in Nat \ {0} /\ bound \in Nat
  BY <1>0
<1>2. (4 * Full) * burned <= Spawned * bound /\ burned \in Nat
  <2>1. CASE NoCpu
    <3>1. burned = 0
      BY <2>1 DEF ShareInv, WindowInv
    <3>2. Spawned * bound \in Nat
      BY <1>0, <1>1
    <3>3. QED
      BY <1>1, <3>1, <3>2
  <2>2. CASE ~NoCpu
    <3>1. PICK B \in SUBSET (Active \X Nat) : History(B)
      BY DEF ShareInv
    <3>2. IsFiniteSet(Active) /\ Cardinality(Active) = Spawned
      BY <2>2, CpuCounts, FS_Subset DEF ShareInv, WindowInv, Active
    <3> HIDE DEF bound
    <3>3. M \in Nat /\ (4 * Full) * M <= bound
      BY <1>1, DivBound
    <3>4. ASSUME NEW w \in Active
          PROVE  Cardinality(Slice(B, w)) <= M
      <4>1. PICK k \in Nat : k = Cardinality(Slice(B, w))
        BY <3>1, SliceTyped DEF History
      <4>2. 4 * (Full * k) <= bound
        BY <3>1, <4>1, WithinBound DEF History, bound
      <4>3. (4 * Full) * k <= bound
        BY <1>0, <4>1, <4>2
      <4>4. k <= M
        BY <1>1, <4>1, <4>3
      <4>5. QED
        BY <4>1, <4>4
    <3> HIDE DEF M
    <3>5. burned <= Spawned * M /\ burned \in Nat
      BY <3>1, <3>2, <3>3, <3>4, PairsBounded, FS_CardinalityType DEF History
    <3>6. (4 * Full) * burned <= (4 * Full) * (Spawned * M)
      BY <1>0, <1>1, <3>3, <3>5, TimesMonotone
    <3>7. Spawned * ((4 * Full) * M) <= Spawned * bound
      BY <1>0, <1>1, <3>3, TimesMonotone
    <3>8. (4 * Full) * (Spawned * M) = Spawned * ((4 * Full) * M)
      BY <1>0, <3>3
    <3>9. QED
      BY <1>0, <1>1, <3>3, <3>5, <3>6, <3>7, <3>8
  <2>3. QED
    BY <2>1, <2>2
<1>3. Spawned * bound
        = 4 * ((Spawned * EachLoad) * clock) + Spawned * (Full * Window)
  BY <1>0
<1>4. (Spawned * EachLoad) * clock <= u * clock
  BY <1>0, TimesMonotone
<1> HIDE DEF u, bound
<1>5. (4 * Full) * burned <= 4 * (u * clock) + Spawned * (Full * Window)
  <2>1. PICK a \in Int, b \in Int, c \in Int, d \in Int :
          /\ a = (4 * Full) * burned /\ b = (Spawned * EachLoad) * clock
          /\ c = u * clock /\ d = Spawned * (Full * Window)
    BY <1>0, <1>2
  <2>2. QED
    BY <1>2, <1>3, <1>4, <2>1
<1>6. /\ (4 * Full) * burned = 4 * Full * burned
      /\ 4 * (u * clock) = 4 * u * clock
      /\ Spawned * (Full * Window) = Spawned * Full * Window
  BY <1>0, <1>2
<1>7. QED
  BY <1>5, <1>6 DEF CpuWithinShare, Cpu!CpuWithinShare, Spawned, u

(* The workers together never burn more than the share of the machine the  *)
(* fault was given by more than a quarter of a window each, for every      *)
(* number of CPUs, load, window, ramp and duration (cpu/stress.go:68-82,   *)
(* 180-229).                                                               *)
THEOREM SpecCpuWithinShare == Spec => []CpuWithinShare
<1>1. Init => ShareInv
  BY InitShare
<1>2. IInv /\ ShareInv /\ [Next]_vars => ShareInv'
  <2> SUFFICES ASSUME IInv, ShareInv, [Next]_vars PROVE ShareInv'
    OBVIOUS
  <2>1. CASE UNCHANGED vars
    <3>1. UNCHANGED <<cpuVars, clock, ratedRun, inlineRun>>
      BY <2>1 DEF vars, ratedVars, inlineVars
    <3>2. UNCHANGED <<EachLoad, Spawned, Active, NoRated, NoCpu, NoInline>>
      BY <3>1 DEF EachLoad, Cpu!PerWorkerLoad, Spawned, Active, NoRated,
                  NoCpu, NoInline, cpuVars
    <3>3. WindowInv'
      BY <3>1, <3>2 DEF ShareInv, WindowInv, Burn, cpuVars
    <3>4. \A w \in Active, k \in Nat : Within(w, k) => Within(w, k)'
      BY <3>1, <3>2 DEF Within, Begun, Burn, cpuVars
    <3>5. QED
      BY <3>1, <3>2, <3>3, <3>4, KeepsHistory DEF ShareInv, cpuVars
  <2>2. QED
    BY <2>1, KeepsShare
<1>3. IInv /\ ShareInv => CpuWithinShare
  BY ShareImpliesWithin
<1>4. QED
  BY <1>1, <1>2, <1>3, SpecIInv, PTL DEF Spec

-----------------------------------------------------------------------------
(* The network proxy (NetworkProxy). *)

Workings == {"off", "top", "reading", "holding", "writing", "ended"}

FaultTyped ==
  /\ toxic \in [Direction -> ToxicKinds]
  /\ cancelled \in BOOLEAN
  /\ run \in {"accepting", "draining", "applying", "applied", "sent"}
  /\ listening \in BOOLEAN
  /\ remote \in {"clean", "applied"}
  /\ conn \in [Conns -> {"none", "accepted", "held", "dialing", "dialed",
                         "piping", "done"}]
  /\ affected \in SUBSET Conns
  /\ linger0 \in SUBSET Conns

StreamsTyped ==
  /\ worker \in [Conns -> [Direction -> Workings]]
  /\ sent \in [Conns -> [Direction -> Nat]]
  /\ eof \in [Conns -> [Direction -> BOOLEAN]]
  /\ stalled \in [Conns -> [Direction -> BOOLEAN]]
  /\ taken \in [Conns -> [Direction -> Nat]]
  /\ delivered \in [Conns -> [Direction -> Nat]]
  /\ fin \in [Conns -> [Direction -> BOOLEAN]]

(* A worker holds or writes the one chunk that it has read and not yet     *)
(* written, and the end of a stream is passed on when its worker has       *)
(* ended.                                                                  *)
StreamOK(c, d) ==
  /\ sent[c][d] <= MaxChunks
  /\ taken[c][d] <= sent[c][d] /\ delivered[c][d] <= taken[c][d]
  /\ worker[c][d] \in {"off", "top", "reading"} =>
       delivered[c][d] = taken[c][d]
  /\ worker[c][d] \in {"holding", "writing"} =>
       taken[c][d] = delivered[c][d] + 1
  /\ fin[c][d] => worker[c][d] = "ended"
  /\ conn[c] \notin {"piping", "done"} => worker[c][d] = "off"
  /\ fin[c][d] /\ ~cancelled /\ c \notin linger0 =>
       eof[c][d] /\ delivered[c][d] = sent[c][d]

NetworkInv ==
  /\ FaultTyped /\ StreamsTyped
  /\ \A c \in Conns, d \in Direction : StreamOK(c, d)

(* A step of one stream leaves the others alone.                           *)
Others(c, d) ==
  \A b \in Conns, e \in Direction :
    b # c \/ e # d =>
      UNCHANGED <<worker[b][e], sent[b][e], eof[b][e], stalled[b][e],
                  taken[b][e], delivered[b][e], fin[b][e]>>

LEMMA OneStream ==
  ASSUME NetworkInv, NEW c \in Conns, NEW d \in Direction,
         UNCHANGED <<toxic, cancelled, run, listening, remote, conn,
                     affected>>,
         linger0 \subseteq linger0', linger0' \subseteq Conns,
         StreamsTyped', Others(c, d), StreamOK(c, d)'
  PROVE  NetworkInv'
<1>1. FaultTyped'
  BY DEF NetworkInv, FaultTyped
<1>2. ASSUME NEW b \in Conns, NEW e \in Direction, b # c \/ e # d
      PROVE  StreamOK(b, e)'
  BY <1>2 DEF NetworkInv, StreamOK, Others
<1>3. QED
  BY <1>1, <1>2 DEF NetworkInv

(* A step of a stream worker or of its peers.                              *)
LEMMA WorkerKeeps ==
  ASSUME NetworkInv, NEW c \in Conns, NEW d \in Direction,
         WorkerStep(c, d) \/ PeerStep(c, d)
  PROVE  NetworkInv'
<1>0. FaultTyped /\ StreamsTyped /\ StreamOK(c, d) /\ d \in Direction
  BY DEF NetworkInv, Direction
<1> USE DEF streams, peers, Moves, EndStream
<1>1. CASE EnterRead(c, d)
  <2>1. StreamsTyped' /\ Others(c, d) /\ StreamOK(c, d)'
    BY <1>0, <1>1
       DEF EnterRead, StreamsTyped, Others, StreamOK, Workings
  <2>2. QED
    BY <1>0, <1>1, <2>1, OneStream DEF EnterRead, FaultTyped
<1>2. CASE Read(c, d)
  <2>1. StreamsTyped' /\ Others(c, d) /\ StreamOK(c, d)'
    BY <1>0, <1>2 DEF Read, StreamsTyped, Others, StreamOK, Workings
  <2>2. QED
    BY <1>0, <1>2, <2>1, OneStream DEF Read, FaultTyped
<1>3. CASE Forward(c, d)
  <2>1. StreamsTyped' /\ Others(c, d) /\ StreamOK(c, d)'
    BY <1>0, <1>3
       DEF Forward, StreamsTyped, Others, StreamOK, Workings
  <2>2. QED
    BY <1>0, <1>3, <2>1, OneStream DEF Forward, FaultTyped
<1>4. CASE ReadEOF(c, d)
  <2>1. StreamsTyped' /\ Others(c, d) /\ StreamOK(c, d)'
    BY <1>0, <1>4
       DEF ReadEOF, StreamsTyped, Others, StreamOK, Workings
  <2>2. QED
    BY <1>0, <1>4, <2>1, OneStream DEF ReadEOF, FaultTyped
<1>5. CASE PipeResets(c, d)
  <2>1. StreamsTyped' /\ Others(c, d) /\ StreamOK(c, d)'
    BY <1>0, <1>5 DEF PipeResets, StreamsTyped, Others, StreamOK, Workings,
       FaultTyped
  <2>2. QED
    BY <1>0, <1>5, <2>1, OneStream DEF PipeResets, FaultTyped
<1>6. CASE PipeCancelled(c, d)
  <2>1. StreamsTyped' /\ Others(c, d) /\ StreamOK(c, d)'
    BY <1>0, <1>6
       DEF PipeCancelled, StreamsTyped, Others, StreamOK, Workings
  <2>2. QED
    BY <1>0, <1>6, <2>1, OneStream DEF PipeCancelled, FaultTyped
<1>7. CASE PeerSends(c, d)
  <2>1. StreamsTyped' /\ Others(c, d) /\ StreamOK(c, d)'
    BY <1>0, <1>7, ConstantsAssumption
       DEF PeerSends, StreamsTyped, Others, StreamOK
  <2>2. QED
    BY <1>0, <1>7, <2>1, OneStream DEF PeerSends, FaultTyped
<1>8. CASE PeerCloses(c, d)
  <2>1. StreamsTyped' /\ Others(c, d) /\ StreamOK(c, d)'
    BY <1>0, <1>8 DEF PeerCloses, StreamsTyped, Others, StreamOK
  <2>2. QED
    BY <1>0, <1>8, <2>1, OneStream DEF PeerCloses, FaultTyped
<1>9. CASE PeerStalls(c, d)
  <2>1. StreamsTyped' /\ Others(c, d) /\ StreamOK(c, d)'
    BY <1>0, <1>9 DEF PeerStalls, StreamsTyped, Others, StreamOK
  <2>2. QED
    BY <1>0, <1>9, <2>1, OneStream DEF PeerStalls, FaultTyped
<1>10. CASE BeginWrite(c, d)
  <2>1. StreamsTyped' /\ Others(c, d) /\ StreamOK(c, d)'
    BY <1>0, <1>10
       DEF BeginWrite, StreamsTyped, Others, StreamOK, Workings
  <2>2. QED
    BY <1>0, <1>10, <2>1, OneStream DEF BeginWrite, FaultTyped
<1>11. QED
  BY <1>1, <1>2, <1>3, <1>4, <1>5, <1>6, <1>7, <1>8, <1>9, <1>10
     DEF WorkerStep, PeerStep

(* A step of the fault or of the handler of a connection.                  *)
LEMMA FaultKeeps ==
  ASSUME NetworkInv,
         \/ Cancel \/ FaultStep \/ AcceptFails
         \/ \E c \in Conns : Accept(c) \/ HandlerStep(c)
  PROVE  NetworkInv'
<1>0. /\ FaultTyped /\ StreamsTyped
      /\ \A c \in Conns, d \in Direction : StreamOK(c, d)
  BY DEF NetworkInv
<1> USE DEF streams, peers
(* The streams are left alone.                                             *)
<1>1. ASSUME UNCHANGED <<sent, eof, stalled, worker, taken, delivered, fin>>,
             FaultTyped', cancelled => cancelled', linger0 \subseteq linger0',
             \A c \in Conns : \/ conn'[c] = conn[c] \/ conn'[c] = "done"
                              \/ conn[c] \notin {"piping", "done"}
      PROVE  NetworkInv'
  <2>1. StreamsTyped'
    BY <1>0, <1>1 DEF StreamsTyped
  <2>2. ASSUME NEW c \in Conns, NEW d \in Direction
        PROVE  StreamOK(c, d)'
    BY <1>0, <1>1, <2>2 DEF StreamOK
  <2>3. QED
    BY <1>1, <2>1, <2>2 DEF NetworkInv
<1>2. CASE Cancel \/ FaultStep \/ AcceptFails
  <2>1. /\ UNCHANGED <<sent, eof, stalled, worker, taken, delivered, fin, conn,
                       linger0>>
        /\ FaultTyped' /\ (cancelled => cancelled')
    BY <1>0, <1>2
       DEF Cancel, FaultStep, AcceptFails,
           CloseListener, SendResult, ExternalApply,
           ExternalRemove, FaultTyped
  <2>2. QED
    BY <1>1, <2>1
<1>3. ASSUME NEW c \in Conns,
             \/ Accept(c) \/ PreDial(c)
             \/ ReleaseHeld(c) \/ Dial(c)
             \/ HijackReset(c) \/ FinishConn(c)
      PROVE  NetworkInv'
  <2>1. /\ UNCHANGED <<sent, eof, stalled, worker, taken, delivered, fin,
                       cancelled>>
        /\ FaultTyped' /\ linger0 \subseteq linger0'
        /\ \A b \in Conns \ {c} : conn'[b] = conn[b]
        /\ conn'[c] = "done" \/ conn[c] \notin {"piping", "done"}
    BY <1>0, <1>3
       DEF Accept, PreDial, ReleaseHeld,
           Dial, HijackReset, FinishConn, FaultTyped
  <2>2. QED
    BY <1>1, <2>1
<1>4. ASSUME NEW c \in Conns, StartPipes(c)
      PROVE  NetworkInv'
  <2>1. FaultTyped' /\ StreamsTyped'
    BY <1>0, <1>4
       DEF StartPipes, FaultTyped, StreamsTyped, Workings, Direction
  <2>2. ASSUME NEW b \in Conns, NEW d \in Direction
        PROVE  StreamOK(b, d)'
    <3>1. /\ conn[c] = "dialed" /\ conn'[c] = "piping"
          /\ b # c => worker'[b] = worker[b] /\ conn'[b] = conn[b]
          /\ worker'[c][d] = "top"
          /\ UNCHANGED <<sent, eof, stalled, taken, delivered, fin, cancelled,
                         linger0>>
      BY <1>0, <1>4
         DEF StartPipes, FaultTyped, StreamsTyped, Direction
    <3>2. QED
      BY <1>0, <3>1 DEF StreamOK
  <2>3. QED
    BY <2>1, <2>2 DEF NetworkInv
<1>5. QED
  BY <1>2, <1>3, <1>4 DEF HandlerStep

(* The invariant holds in every behaviour of the proxy.                    *)
LEMMA NetworkSafe == ProxySpec => []NetworkInv
<1>1. ProxyInit => NetworkInv
  <2> SUFFICES ASSUME ProxyInit PROVE NetworkInv
    OBVIOUS
  <2>1. FaultTyped
    BY DEF ProxyInit, FaultTyped, Direction
  <2>2. StreamsTyped
    BY DEF ProxyInit, EachStream, StreamsTyped, Direction,
           Workings
  <2>3. \A c \in Conns, d \in Direction : StreamOK(c, d)
    BY ConstantsAssumption DEF ProxyInit, EachStream, StreamOK, Direction
  <2>4. QED
    BY <2>1, <2>2, <2>3 DEF NetworkInv
<1>2. NetworkInv /\ [ProxyNext]_proxyVars => NetworkInv'
  <2> SUFFICES ASSUME NetworkInv, [ProxyNext]_proxyVars
               PROVE  NetworkInv'
    OBVIOUS
  <2>1. CASE UNCHANGED proxyVars
    BY <2>1 DEF proxyVars, NetworkInv, FaultTyped, StreamsTyped, StreamOK
  <2>2. CASE ProxyNext
    BY <2>2, WorkerKeeps, FaultKeeps DEF ProxyNext, Direction
  <2>3. QED
    BY <2>1, <2>2
<1>3. QED
  BY <1>1, <1>2, PTL DEF ProxySpec

(* Whatever the number of connections and of chunks, a stream worker has   *)
(* read no more than was sent and written no more than it read, through    *)
(* every reset and cancellation (network/conn.go:57-73).                   *)
THEOREM NetworkTypeOK == ProxySpec => []TypeOK
<1>1. NetworkInv => TypeOK
  <2> SUFFICES ASSUME NetworkInv PROVE TypeOK
    OBVIOUS
  <2>1. \A c \in Conns, d \in Direction :
          /\ sent[c][d] \in 0..MaxChunks /\ taken[c][d] \in 0..sent[c][d]
          /\ delivered[c][d] \in 0..taken[c][d]
    BY DEF NetworkInv, StreamsTyped, StreamOK
  <2>2. sent \in [Conns -> [Direction -> 0..MaxChunks]]
    BY <2>1 DEF NetworkInv, StreamsTyped
  <2>3. QED
    BY <2>1, <2>2 DEF NetworkInv, FaultTyped, StreamsTyped, TypeOK,
       Streams, Direction, Workings
<1>2. QED
  BY <1>1, NetworkSafe, PTL

(* While the fault lasts, the end of a stream is passed on only behind all *)
(* of its data, for every number of connections, of chunks, and all toxics *)
(* (network/conn.go:57-73, network/loss.go:65).                            *)
THEOREM NetworkFinBehindTheData == ProxySpec => []FinBehindTheData
<1>1. NetworkInv => FinBehindTheData
  BY DEF NetworkInv, StreamOK, FinBehindTheData, Direction
<1>2. QED
  BY <1>1, NetworkSafe, PTL
=============================================================================
