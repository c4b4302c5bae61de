------------------------------ MODULE CpuStress ------------------------------
(***************************************************************************)
(* cpu.Stress (internal/fault/resource/cpu/stress.go): workers that burn a *)
(* part of every window on a CPU and sleep for the rest of it, the load    *)
(* each of them gets, its ramps, and the end of the fault.                 *)
(*                                                                         *)
(* Loads are counted in parts of one CPU.  Time is a clock that goroutines *)
(* read; a step may come arbitrarily late, and a worker that is late past  *)
(* the end of its burn no longer burns.                                    *)
(***************************************************************************)
EXTENDS Integers, FiniteSets, FaultContext

CONSTANTS
  CPUs,      \* names for the CPUs of runtime.NumCPU()
  Full,      \* the load 1.0 of one CPU
  Window,    \* EffectiveWindow()
  Duration,
  Configs    \* the configurations a fault may be started with

(* units     TargetLoad * AvailableCPUs(), in parts of one CPU             *)
(* up, down  RampUp and RampDown                                           *)
Config == [units : Nat \ {0}, up : Nat, down : Nat]

ConfigOK ==
  /\ IsFiniteSet(CPUs) /\ CPUs # {}
  /\ {Full, Window, Duration} \subseteq Nat \ {0}
  /\ Configs \subseteq Config
  /\ \A c \in Configs : c.up + c.down < Duration

VARIABLES
  config,   \* the configuration of this fault
  run,      \* where the fault's goroutine stands
  clock,    \* time since the workers started
  emitter, alarm,   \* the phase events
  pc,       \* where each worker stands
  until,    \* when its burn or its sleep ends
  rest,     \* sleepTime of its window
  burned    \* CPU time burned by all workers

phases == <<emitter, alarm>>
workers == <<pc, until, rest>>
vars == <<config, run, clock, contexts, err, phases, workers, burned>>

Phases == INSTANCE PhaseEvents

Smaller(a, b) == IF a < b THEN a ELSE b

CeilDiv(a, b) == (a + b - 1) \div b

NumWorkers(units) == Smaller(CeilDiv(units, Full), Cardinality(CPUs))

(* A slip: every worker gets the load of all of them.                      *)
PerWorkerLoadUndivided == Smaller(config.units, Full)

PerWorkerLoad == Smaller(config.units \div NumWorkers(config.units), Full)

Unset == [units |-> Full, up |-> 0, down |-> 0]

Init ==
  /\ config = Unset /\ run = "idle" /\ clock = 0
  /\ ContextInit /\ Phases!EmitterInit
  /\ pc = [w \in CPUs |-> "off"]
  /\ until = [w \in CPUs |-> 0] /\ rest = [w \in CPUs |-> 0]
  /\ burned = 0

-----------------------------------------------------------------------------
Start(c) ==
  /\ run = "idle"
  /\ run' = "running"
  /\ config' = c
  /\ Phases!SpawnEmitter(TRUE, c.up, c.down)
  /\ \E ws \in SUBSET CPUs :
       /\ Cardinality(ws) = NumWorkers(c.units)
       /\ pc' = [w \in CPUs |-> IF w \in ws THEN "top" ELSE "off"]
  /\ UNCHANGED <<clock, contexts, err, until, rest, burned>>

Burning(w) == pc[w] = "burn" /\ clock < until[w]

Tick ==
  /\ run = "running"
  /\ clock < Duration
  /\ clock' = clock + 1
  /\ ownErr' = IF clock' = Duration THEN Expired ELSE ownErr
  /\ burned' = burned + Cardinality({w \in CPUs : Burning(w)})
  /\ UNCHANGED <<config, run, ctxErr, err, phases, workers>>

Interrupt ==
  /\ run = "running"
  /\ Cancel \/ CallerEnds
  /\ UNCHANGED <<config, run, clock, err, phases, workers, burned>>

AnnouncePhase ==
  /\ Phases!EmitterStep(config.up, config.down)
  /\ UNCHANGED <<config, run, clock, contexts, err, workers, burned>>

EmitterEnds ==
  /\ Phases!EmitterExit
  /\ UNCHANGED <<config, run, clock, contexts, err, workers, burned>>

-----------------------------------------------------------------------------
(* A worker: dutyCycle. *)

(* The load by the place on the timeline.                                  *)
Load ==
  IF config.up > 0 /\ clock < config.up
    THEN (PerWorkerLoad * clock) \div config.up
  ELSE IF config.down > 0 /\ clock >= Duration - config.down
    THEN (PerWorkerLoad * (Duration - clock)) \div config.down
  ELSE PerWorkerLoad

BurnTime == (Window * Load) \div Full

(* The top of the loop looks at the context and plans a window.            *)
BeginWindow(w) ==
  /\ pc[w] = "top"
  /\ ~ContextDone
  /\ pc' = [pc EXCEPT ![w] = "burn"]
  /\ until' = [until EXCEPT ![w] = Smaller(clock + BurnTime, Duration)]
  /\ rest' = [rest EXCEPT ![w] = Window - BurnTime]
  /\ UNCHANGED <<config, run, clock, contexts, err, phases, burned>>

EndBurn(w) ==
  /\ pc[w] = "burn"
  /\ clock >= until[w]
  /\ pc' = [pc EXCEPT ![w] = IF rest[w] > 0 THEN "sleep" ELSE "top"]
  /\ until' = [until EXCEPT ![w] = clock + rest[w]]
  /\ UNCHANGED <<config, run, clock, contexts, err, phases, rest, burned>>

EndSleep(w) ==
  /\ pc[w] = "sleep"
  /\ clock >= until[w]
  /\ pc' = [pc EXCEPT ![w] = "top"]
  /\ UNCHANGED <<config, run, clock, contexts, err, phases, until, rest,
                 burned>>

(* The context is looked at in every phase of the loop.                    *)
WorkerExit(w) ==
  /\ pc[w] \in {"top", "burn", "sleep"}
  /\ ContextDone
  /\ pc' = [pc EXCEPT ![w] = "exited"]
  /\ UNCHANGED <<config, run, clock, contexts, err, phases, until, rest,
                 burned>>

Busy ==
  \/ \E w \in CPUs : pc[w] \notin {"off", "exited"}
  \/ ~Phases!EmitterGone

(* wg.Wait(), then the result.                                             *)
SendResult ==
  /\ run = "running"
  /\ ~Busy
  /\ run' = "sent"
  /\ err' = StressErr
  /\ UNCHANGED <<config, clock, contexts, phases, workers, burned>>

-----------------------------------------------------------------------------
WorkerStep(w) == BeginWindow(w) \/ EndBurn(w) \/ EndSleep(w)

Next ==
  \/ \E c \in Configs : Start(c)
  \/ Tick \/ Interrupt \/ AnnouncePhase \/ EmitterEnds
  \/ \E w \in CPUs : WorkerStep(w) \/ WorkerExit(w)
  \/ SendResult

(* Goroutines run and time passes.                                         *)
Fairness ==
  /\ WF_vars(Tick)
  /\ WF_vars(AnnouncePhase \/ EmitterEnds)
  /\ \A w \in CPUs : WF_vars(WorkerStep(w) \/ WorkerExit(w))
  /\ WF_vars(SendResult)

-----------------------------------------------------------------------------
(* The workers together never burn more than the share of the machine the  *)
(* fault was given by more than a quarter of a window each (a window burns *)
(* first and sleeps then), however late they run and wherever the ramps    *)
(* are (cpu/stress.go:68-82, 180-229).                                     *)
CpuWithinShare ==
  4 * Full * burned
    <= 4 * config.units * clock + NumWorkers(config.units) * Full * Window
=============================================================================
