----------------------------- MODULE PhaseEvents -----------------------------
(***************************************************************************)
(* emitPhaseEvents: the goroutine of a resource fault that announces the   *)
(* phases of its ramp, with timers of its own (the same function in        *)
(* cpu/stress.go, io/stress.go and disk/stress.go).                        *)
(***************************************************************************)
EXTENDS Integers

CONSTANT Duration

VARIABLES
  clock,    \* time since the fault's goroutine started
  ownErr,   \* throttleCtx.Err()
  emitter,  \* the phase announced last
  alarm     \* when the timer it waits for fires

EmitterOK ==
  /\ emitter \in {"off", "spawned", "up", "sustain", "down", "gone"}
  /\ alarm \in Nat

EmitterInit == emitter = "off" /\ alarm = 0

(* The goroutine exists if someone listens and there is a ramp.            *)
SpawnEmitter(emit, up, down) ==
  /\ emitter' = IF emit /\ up + down > 0 THEN "spawned" ELSE "gone"
  /\ UNCHANGED alarm

Announce(event, wait) == emitter' = event /\ alarm' = clock + wait

(* A slip: the ramp-up is taken off twice.                                 *)
SustainTimeTwice(up, down) == Duration - down - up - up

SustainTime(up, down) == Duration - down - up

(* Without a ramp-down the announcement of the plateau is the last.        *)
AnnounceSustain(up, down) ==
  IF down = 0 THEN emitter' = "gone" /\ UNCHANGED alarm
  ELSE Announce("sustain", SustainTime(up, down))

EmitterStep(up, down) ==
  \/ emitter = "spawned" /\ up > 0 /\ Announce("up", up)
  \/ emitter = "spawned" /\ up = 0 /\ AnnounceSustain(up, down)
  \/ emitter = "up" /\ clock >= alarm /\ AnnounceSustain(up, down)
  \/ emitter = "sustain" /\ clock >= alarm /\ Announce("down", down)
  \/ emitter = "down" /\ clock >= alarm /\ emitter' = "gone" /\ UNCHANGED alarm

(* Every wait looks at the context too.                                    *)
EmitterExit ==
  /\ emitter \in {"up", "sustain", "down"}
  /\ ownErr # "nil"
  /\ emitter' = "gone"
  /\ UNCHANGED alarm

EmitterGone == emitter \in {"off", "gone"}
=============================================================================
