------------------------------ MODULE FaultKinds ------------------------------
(***************************************************************************)
(* The kinds of faults behind the interface fault.Fault: I/O and disk      *)
(* stress, memory stress, CPU stress and the inline faults.  A behaviour   *)
(* starts one fault, of any kind; the kinds share the contexts, the clock  *)
(* and the phase events, and every kind implements FaultLife.              *)
(***************************************************************************)
EXTENDS Integers, FiniteSets

CONSTANTS
  Duration,                                                   \* but of Cpu
  Workers, Need, TargetRate, Second, Interval, RatedConfigs,  \* RatedStress
  NumChunks, Thrashers, RampDowns,                            \* MemoryStress
  CPUs, Full, Window, CpuDuration, CpuConfigs,                \* CpuStress
  Delays                                                      \* InlineFault

VARIABLES
  ctxErr, ownErr, err, clock, emitter, alarm,
  ratedConfig, ratedRun, files, tokens, rate, capacity, lastTick, ramp,
  nextRamp, ratedPc, wake, since, acquired, fileLen, occupied,
  rampDown, phase, length, chunk, thrashPc, n, at, seen, live,
  cpuConfig, cpuRun, cpuPc, until, rest, burned,
  kind, delay, inlineRun

contexts == <<ctxErr, ownErr, err>>
phases == <<emitter, alarm>>
ratedVars ==
  <<ratedConfig, ratedRun, files, tokens, rate, capacity, lastTick, ramp,
    nextRamp, ratedPc, wake, since, acquired, fileLen, occupied>>
memoryVars ==
  <<rampDown, phase, length, chunk, thrashPc, n, at, seen, live>>
cpuVars == <<cpuConfig, cpuRun, cpuPc, until, rest, burned>>
inlineVars == <<kind, delay, inlineRun>>
vars ==
  <<contexts, clock, phases, ratedVars, memoryVars, cpuVars, inlineVars>>

Rated == INSTANCE RatedStress
  WITH Configs <- RatedConfigs, config <- ratedConfig, run <- ratedRun,
       pc <- ratedPc

Memory == INSTANCE MemoryStress WITH pc <- thrashPc

Cpu == INSTANCE CpuStress
  WITH Duration <- CpuDuration, Configs <- CpuConfigs, config <- cpuConfig,
       run <- cpuRun, pc <- cpuPc

Inline == INSTANCE InlineFault WITH run <- inlineRun

(* What Validate asks of a configuration.                                  *)
ASSUME Configured ==
  /\ Rated!ConfigOK /\ Memory!ConfigOK /\ Cpu!ConfigOK
  /\ Delays \subseteq Nat \ {0}

-----------------------------------------------------------------------------
Init == Rated!Init /\ Memory!Init /\ Cpu!Init /\ Inline!Init

NoRated  == ratedRun = "idle"
NoMemory == phase = "idle"
NoCpu    == cpuRun = "idle"
NoInline == inlineRun = "idle"

RatedStep ==
  /\ NoMemory /\ NoCpu /\ NoInline
  /\ Rated!Next
  /\ UNCHANGED <<memoryVars, cpuVars, inlineVars>>

MemoryStep ==
  /\ NoRated /\ NoCpu /\ NoInline
  /\ Memory!Next
  /\ UNCHANGED <<clock, phases, ratedVars, cpuVars, inlineVars>>

CpuStep ==
  /\ NoRated /\ NoMemory /\ NoInline
  /\ Cpu!Next
  /\ UNCHANGED <<ratedVars, memoryVars, inlineVars>>

InlineStep ==
  /\ NoRated /\ NoMemory /\ NoCpu
  /\ Inline!Next
  /\ UNCHANGED <<phases, ratedVars, memoryVars, cpuVars>>

Next == RatedStep \/ MemoryStep \/ CpuStep \/ InlineStep

(* A fault that was not started has no step to be fair to.                 *)
FairSpec ==
  /\ Init
  /\ [][Next]_vars
  /\ Rated!Fairness /\ Memory!Fairness /\ Cpu!Fairness /\ Inline!Fairness

-----------------------------------------------------------------------------
(* Properties.                                                             *)

(* The I/O and disk faults never get more than their rate                  *)
(* (io/stress.go:303-349).                                                 *)
NeverAboveRate == Rated!NeverAboveRate

(* Truncation and late timers cost a lone worker at a constant rate at     *)
(* most half of it (io/stress.go:295-337).                                 *)
AcquireKeepsPace == Rated!AcquireKeepsPace

(* The test for nil makes the unlocked reads of the thrash workers safe    *)
(* (memory/stress.go:234-238).                                             *)
WalksWholeChunks == Memory!WalksWholeChunks

(* The CPU fault stays within its share of the machine                     *)
(* (cpu/stress.go:68-81, 180-222).                                         *)
CpuWithinShare == Cpu!CpuWithinShare

(* The ramp-down is never announced while the load is still that of the    *)
(* plateau, although the announcing goroutine keeps time with timers of    *)
(* its own, each armed after the one before (cpu/stress.go:134-177).       *)
RampDownNotAnnouncedEarly ==
  emitter = "down" =>
    clock >= IF NoCpu THEN Duration - ratedConfig.down
                      ELSE CpuDuration - cpuConfig.down

Stage ==
  CASE ratedRun = "failed" -> "refused"
    [] {ratedRun, cpuRun, phase, inlineRun} \cap {"sent", "cleaned"} # {} ->
         "ended"
    [] {ratedRun, phase, cpuRun, inlineRun} \subseteq {"idle", "writing"} ->
         "idle"
    [] OTHER -> "running"

Busy == Rated!Busy \/ Memory!Busy \/ Cpu!Busy

(* Whatever its kind, a fault yields one result, sends it when nothing of  *)
(* the fault is at work any more, reports only an error of a context that  *)
(* ended, and ends (internal/fault/fault.go:42-93).                        *)
Life == INSTANCE FaultLife WITH stage <- Stage, busy <- Busy

ImplementsFaultLife == Life!LifeSpec

(* The error of a resource fault is its caller's: that of the context      *)
(* passed to Start, once it has ended.  The deadline of the fault or a     *)
(* Stop through its handle is never reported on its own, though either     *)
(* ends the context the fault works with, and a caller that ends later may *)
(* still be reported (cpu/stress.go:121, io/stress.go:156,                 *)
(* memory/stress.go:195).                                                  *)
ErrIsTheCallers ==
  inlineRun = "idle" /\ err # "nil" => ctxErr # "nil" /\ err = ctxErr

(* The files of an I/O fault, and the space a disk fault fills, are given  *)
(* back in the end, also when Start fails halfway or the fault is stopped  *)
(* (io/stress.go:84-105, disk/stress.go:67-83).                            *)
FilesRemoved == (files + occupied > 0) ~> (files + occupied = 0)
=============================================================================
