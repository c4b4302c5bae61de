---------------------------- MODULE RatedStress ----------------------------
(***************************************************************************)
(* The two rate-controlled resource faults, io.Stress and disk.Stress      *)
(* (internal/fault/resource/io/stress.go and disk/stress.go): the phase    *)
(* that writes files, the workers that share a token bucket, the ramp      *)
(* controller that changes its rate, the goroutine that announces the      *)
(* phases, and the end of the fault.                                       *)
(*                                                                         *)
(* Time is a clock that goroutines read; a step may come arbitrarily late. *)
(* The bucket's arithmetic is the code's: integers, rate * elapsed divided *)
(* by the length of a second.                                              *)
(***************************************************************************)
EXTENDS Integers, FiniteSets, FaultContext

CONSTANTS
  Workers,     \* names for workers
  Need,        \* bytes per operation: FileSize or ChunkSize
  TargetRate,  \* ReadRate or WriteRate, bytes per second
  Second,      \* clock units in a second
  Interval,    \* RefillInterval, in clock units
  Duration,
  Configs      \* the configurations a fault may be started with

(* workers   the read workers, or the one write worker                     *)
(* up, down  RampUp and RampDown                                           *)
(* files     the files io.Stress writes in Start; disk.Stress creates one  *)
(* maxDisk   MaxDiskUsage; 0 for io.Stress                                 *)
(* emit      SetEventEmitter was called                                    *)
Config ==
  [workers : SUBSET Workers \ {{}}, up : Nat, down : Nat, files : Nat \ {0},
   maxDisk : Nat, emit : BOOLEAN]

ConfigOK ==
  /\ IsFiniteSet(Workers)
  /\ {Need, TargetRate, Second, Interval, Duration} \subseteq Nat \ {0}
  /\ Configs \subseteq Config
  /\ \A c \in Configs : c.up + c.down < Duration

VARIABLES
  config,    \* the configuration of this fault
  run,       \* where Start and then the fault's goroutine stand
  files,     \* files made by Start and not yet removed
  clock,     \* time since the workers started
  tokens, rate, capacity, lastTick,   \* the bucket
  ramp,      \* the ramp controller runs
  nextRamp,  \* when its ticker fires again
  emitter, alarm,  \* the phase events
  pc,        \* where each worker stands
  wake,      \* when its retry timer fires
  since,     \* when its acquire began
  acquired,  \* bytes acquired by all workers
  fileLen,   \* disk.Stress: the write position
  occupied   \* disk.Stress: the space its temporary file takes

bucket == <<tokens, rate, capacity, lastTick>>
disk   == <<fileLen, occupied>>
workers == <<pc, wake, since, acquired>>
ramping == <<ramp, nextRamp>>
phases == <<emitter, alarm>>
started == <<config, run, files>>
times == <<clock, contexts, err, phases>>
vars == <<started, times, bucket, ramping, workers, disk>>

Phases == INSTANCE PhaseEvents

Unset == [workers |-> {}, up |-> 0, down |-> 0, files |-> 0, maxDisk |-> 0,
          emit |-> FALSE]

(* 2x the refill of one interval, but at least one operation.              *)
BucketCapacity(r) ==
  LET scaled  == (r * Interval) \div Second
      perTick == IF scaled < 1 THEN 1 ELSE scaled
  IN  IF perTick * 2 < Need THEN Need ELSE perTick * 2

Init ==
  /\ config = Unset /\ run = "idle" /\ files = 0
  /\ clock = 0 /\ ContextInit /\ Phases!EmitterInit
  /\ tokens = BucketCapacity(TargetRate) /\ rate = TargetRate
  /\ capacity = BucketCapacity(TargetRate) /\ lastTick = 0
  /\ ramp = FALSE /\ nextRamp = Interval
  /\ pc = [w \in Workers |-> "exited"]
  /\ wake = [w \in Workers |-> 0] /\ since = [w \in Workers |-> 0]
  /\ acquired = 0 /\ fileLen = 0 /\ occupied = 0

-----------------------------------------------------------------------------
(* Start: the files are written, or the one file of disk.Stress created,   *)
(* before the handle exists; a failure removes what there is.              *)
Start(c) ==
  /\ run = "idle"
  /\ config' = c
  /\ run' = "writing"
  /\ UNCHANGED <<files, times, bucket, ramping, workers, disk>>

WriteFile ==
  /\ run = "writing"
  /\ files < config.files
  /\ files' = files + 1
  /\ UNCHANGED <<config, run, times, bucket, ramping, workers, disk>>

(* A slip: what was written so far stays.                                  *)
WriteFileFailsUntidily ==
  /\ run = "writing"
  /\ files < config.files
  /\ run' = "failed"
  /\ UNCHANGED <<config, files, times, bucket, ramping, workers, disk>>

WriteFileFails ==
  /\ run = "writing"
  /\ files < config.files
  /\ run' = "failed"
  /\ files' = 0
  /\ UNCHANGED <<config, times, bucket, ramping, workers, disk>>

(* The handle is returned and the goroutines are started.                  *)
Launch ==
  /\ run = "writing"
  /\ files = config.files
  /\ run' = "running"
  /\ pc' = [w \in Workers |->
              IF w \in config.workers THEN "ready" ELSE "exited"]
  /\ ramp' = TRUE
  /\ Phases!SpawnEmitter(config.emit, config.up, config.down)
  /\ UNCHANGED <<config, files, clock, contexts, err, bucket, nextRamp, wake,
                 since, acquired, disk>>

-----------------------------------------------------------------------------
Tick ==
  /\ run = "running"
  /\ clock < Duration
  /\ clock' = clock + 1
  /\ ownErr' = IF clock' = Duration THEN Expired ELSE ownErr
  /\ UNCHANGED <<started, ctxErr, err, phases, bucket, ramping, workers, disk>>

(* Handle.Stop, or the end of the caller's context.                        *)
Interrupt ==
  /\ \/ run = "running" /\ Cancel
     \/ run \in {"writing", "running"} /\ CallerEnds
  /\ UNCHANGED <<started, clock, err, phases, bucket, ramping, workers, disk>>

AnnouncePhase ==
  /\ Phases!EmitterStep(config.up, config.down)
  /\ UNCHANGED <<started, clock, contexts, err, bucket, ramping, workers, disk>>

EmitterEnds ==
  /\ Phases!EmitterExit
  /\ UNCHANGED <<started, clock, contexts, err, bucket, ramping, workers, disk>>

-----------------------------------------------------------------------------
(* The token bucket. *)

Smaller(a, b) == IF a < b THEN a ELSE b

(* A slip: a fraction of a token counts as one.                            *)
RefilledRoundedUp ==
  Smaller(capacity,
          tokens + (rate * (clock - lastTick) + Second - 1) \div Second)

(* A slip: dividing before multiplying.                                    *)
RefilledPerSecond ==
  Smaller(capacity, tokens + rate * ((clock - lastTick) \div Second))

(* refill: lastTick moves even when the elapsed time is worth no token.    *)
Refilled ==
  Smaller(capacity, tokens + (rate * (clock - lastTick)) \div Second)

(* The rate of the ramp controller at time t, never below one.             *)
RampRate(t) ==
  LET r == IF config.up > 0 /\ t < config.up
             THEN (TargetRate * t) \div config.up
           ELSE IF config.down > 0 /\ t >= Duration - config.down
             THEN (TargetRate * (Duration - t)) \div config.down
           ELSE TargetRate
  IN  IF r < 1 THEN 1 ELSE r

(* setRate: it does not refill first.                                      *)
RampTick ==
  /\ run = "running" /\ ramp
  /\ config.up + config.down > 0
  /\ clock >= nextRamp
  /\ rate' = RampRate(clock)
  /\ capacity' = BucketCapacity(rate')
  /\ tokens' = Smaller(tokens, capacity')
  /\ nextRamp' = nextRamp + Interval
  /\ UNCHANGED <<started, times, lastTick, ramp, workers,
                 disk>>

RampExit ==
  /\ run = "running" /\ ramp
  /\ ContextDone
  /\ ramp' = FALSE
  /\ UNCHANGED <<started, times, bucket, nextRamp, workers,
                 disk>>

-----------------------------------------------------------------------------
(* A worker: readWorker or writeWorker. *)

Goes(w, s) == pc' = [pc EXCEPT ![w] = s]

(* A worker that waits for nothing has no timer and no acquire to time.    *)
TimersOff(w) ==
  wake' = [wake EXCEPT ![w] = 0] /\ since' = [since EXCEPT ![w] = 0]

(* The context is looked at before each operation and while waiting.       *)
WorkerExit(w) ==
  /\ run = "running"
  /\ pc[w] \in {"ready", "acquiring", "waiting"}
  /\ ContextDone
  /\ Goes(w, "exited")
  /\ TimersOff(w)
  /\ UNCHANGED <<started, times, bucket, ramping, acquired, disk>>

BeginAcquire(w) ==
  /\ run = "running"
  /\ pc[w] = "ready"
  /\ ~ContextDone
  /\ Goes(w, "acquiring")
  /\ since' = [since EXCEPT ![w] = clock]
  /\ UNCHANGED <<started, times, bucket, ramping, wake,
                 acquired, disk>>

(* One round of acquire, under the bucket's lock.                          *)
Acquire(w) ==
  /\ \/ pc[w] = "acquiring"
     \/ pc[w] = "waiting" /\ clock >= wake[w]
  /\ lastTick' = clock
  /\ IF Refilled >= Need
       THEN /\ tokens' = Refilled - Need
            /\ acquired' = acquired + Need
            /\ Goes(w, "io")
            /\ TimersOff(w)
       ELSE /\ tokens' = Refilled
            /\ Goes(w, "waiting")
            /\ wake' = [wake EXCEPT ![w] = clock + Interval]
            /\ UNCHANGED <<acquired, since>>
  /\ UNCHANGED <<started, times, rate, capacity, ramping, disk>>

(* The write worker starts over at the cap and overwrites; a read worker   *)
(* reads a file.                                                           *)
Operate(w) ==
  /\ pc[w] = "io"
  /\ Goes(w, "ready")
  /\ IF config.maxDisk = 0 THEN UNCHANGED disk
     ELSE /\ fileLen' = Need + (IF fileLen + Need > config.maxDisk
                                  THEN 0 ELSE fileLen)
          /\ occupied' = IF fileLen' > occupied THEN fileLen' ELSE occupied
  /\ UNCHANGED <<started, times, bucket, ramping, wake,
                 since, acquired>>

(* Opening, seeking or writing fails: the worker gives up.                 *)
OperationFails(w) ==
  /\ pc[w] = "io"
  /\ Goes(w, "exited")
  /\ TimersOff(w)
  /\ UNCHANGED <<started, times, bucket, ramping, acquired, disk>>

-----------------------------------------------------------------------------
Busy ==
  ramp \/ ~Phases!EmitterGone \/ \E w \in Workers : pc[w] # "exited"

(* wg.Wait() and <-rampDone, then the result; the deferred removal of the  *)
(* files comes after it.                                                   *)
SendResult ==
  /\ run = "running"
  /\ ~Busy
  /\ run' = "sent"
  /\ err' = StressErr
  /\ UNCHANGED <<config, files, clock, contexts, phases, bucket, ramping,
                 workers, disk>>

Cleanup ==
  /\ run = "sent"
  /\ run' = "cleaned"
  /\ files' = 0
  /\ occupied' = 0
  /\ UNCHANGED <<config, times, bucket, ramping, workers, fileLen>>

-----------------------------------------------------------------------------
WorkerStep(w) ==
  BeginAcquire(w) \/ Acquire(w) \/ Operate(w) \/ OperationFails(w)

Next ==
  \/ \E c \in Configs : Start(c)
  \/ WriteFile \/ WriteFileFails \/ Launch
  \/ Tick \/ Interrupt \/ AnnouncePhase \/ EmitterEnds \/ RampTick \/ RampExit
  \/ \E w \in Workers : WorkerStep(w) \/ WorkerExit(w)
  \/ SendResult \/ Cleanup

(* Goroutines run and time passes.  A select whose timer and context are   *)
(* both ready chooses at random, hence the strong fairness of the exits.   *)
Fairness ==
  /\ WF_vars(WriteFile \/ WriteFileFails \/ Launch)
  /\ WF_vars(AnnouncePhase \/ EmitterEnds)
  /\ WF_vars(Tick)
  /\ SF_vars(RampExit)
  /\ \A w \in Workers : WF_vars(WorkerStep(w)) /\ SF_vars(WorkerExit(w))
  /\ WF_vars(SendResult \/ Cleanup)

-----------------------------------------------------------------------------
(* Properties.                                                             *)

(* The workers together never get more than the target rate, apart from    *)
(* the full bucket they start with, whatever the ramp controller does      *)
(* between two refills; what they check they can spend, and a lowered rate *)
(* leaves no more than the smaller bucket holds (io/stress.go:303-349).    *)
NeverAboveRate ==
  /\ tokens \in 0..capacity
  /\ Second * (acquired + tokens)
       <= Second * BucketCapacity(TargetRate) + TargetRate * clock

(* A lone worker at a constant rate: an acquire that failed again had not  *)
(* waited for twice the time that its bytes take at the target rate, so    *)
(* that truncation, late timers and the cap on the bucket cost such a      *)
(* worker at most half of the rate (io/stress.go:295-337).  Workers that   *)
(* share the bucket may starve each other, and nothing is said of them.    *)
SteadyAndAlone ==
  Cardinality(config.workers) = 1 /\ config.up + config.down = 0

AcquireKeepsPace ==
  [][ \A w \in Workers :
        SteadyAndAlone /\ pc[w] = "waiting" /\ wake'[w] > wake[w]
        => (clock - since[w]) * TargetRate < 2 * Second * Need ]_vars
=============================================================================
