---------------------------- MODULE MemoryStress ----------------------------
(***************************************************************************)
(* memory.Stress (internal/fault/resource/memory/stress.go): one goroutine *)
(* allocates chunks, holds them, releases them from the back and frees the *)
(* rest, while thrash workers walk the same slice without a lock.          *)
(*                                                                         *)
(* A slice element is more than one word: its pointer and its length are   *)
(* written, and read, one after the other in an order the compiler may     *)
(* choose, so a worker can see one word from before a release and the      *)
(* other from after it.                                                    *)
(***************************************************************************)
EXTENDS Integers, FiniteSets, FaultContext

CONSTANTS
  NumChunks,  \* chunks that reach the target
  Thrashers,  \* thrash workers; {} without Thrashing
  RampDowns   \* the values RampDown > 0 may have

ConfigOK ==
  NumChunks \in Nat /\ IsFiniteSet(Thrashers) /\ RampDowns \subseteq BOOLEAN

Slots == 0..(NumChunks - 1)
Word == {"ptr", "len"}

VARIABLES
  rampDown,  \* RampDown > 0
  phase,     \* where the fault's goroutine stands
  length,    \* len(chunks)
  chunk,     \* the words of each element that are set
  pc,        \* where each thrash worker stands
  n, at,     \* its n and chunkIdx
  seen,      \* the words it has loaded of chunks[chunkIdx], and ...
  live       \* ... those that were set

vars ==
  <<rampDown, phase, length, chunk, contexts, err, pc, n, at, seen, live>>
workers == <<pc, n, at, seen, live>>

Init ==
  /\ rampDown = FALSE
  /\ phase = "idle" /\ length = 0
  /\ chunk = [i \in Slots |-> {}]
  /\ ContextInit
  /\ pc = [w \in Thrashers |-> "off"]
  /\ n = [w \in Thrashers |-> 0] /\ at = [w \in Thrashers |-> 0]
  /\ seen = [w \in Thrashers |-> {}] /\ live = [w \in Thrashers |-> {}]

Start ==
  /\ phase = "idle"
  /\ phase' = "alloc"
  /\ rampDown' \in RampDowns
  /\ UNCHANGED <<length, chunk, contexts, err, workers>>

Active == phase \notin {"idle", "sent"}

Deadline ==
  /\ Active
  /\ ownErr' = Expired
  /\ UNCHANGED <<rampDown, phase, length, chunk, ctxErr, err, workers>>

(* Handle.Stop, or the end of the caller's context.                        *)
Interrupt ==
  /\ Active
  /\ Cancel \/ CallerEnds
  /\ UNCHANGED <<rampDown, phase, length, chunk, err, workers>>

-----------------------------------------------------------------------------
(* The goroutine of the fault. *)

Allocate ==
  /\ phase = "alloc"
  /\ ~ContextDone
  /\ length < NumChunks
  /\ chunk' = [chunk EXCEPT ![length] = Word]
  /\ length' = length + 1
  /\ UNCHANGED <<rampDown, phase, contexts, err, workers>>

(* The context is looked at before each chunk: goto done.                  *)
AllocationStops ==
  /\ phase = "alloc"
  /\ length < NumChunks
  /\ ContextDone
  /\ phase' = "free"
  /\ UNCHANGED <<rampDown, length, chunk, contexts, err, workers>>

(* Phase 2: the workers are started if there is something to walk.         *)
SpawnThrashers ==
  /\ phase = "alloc"
  /\ length = NumChunks
  /\ phase' = "hold"
  /\ pc' = [w \in Thrashers |-> IF length > 0 THEN "spawned" ELSE "off"]
  /\ UNCHANGED <<rampDown, length, chunk, contexts, err, n, at, seen, live>>

(* The hold is over, by its timer or by the context.                       *)
HoldEnds ==
  /\ phase = "hold"
  /\ phase' = IF rampDown /\ length > 0 THEN "release" ELSE "cleanup"
  /\ UNCHANGED <<rampDown, length, chunk, contexts, err, workers>>

(* chunks[len-1] = nil, one word after the other.                          *)
ClearWord ==
  /\ phase = "release"
  /\ length > 0
  /\ ContextDone => chunk[length - 1] # Word
  /\ \E word \in chunk[length - 1] :
       chunk' = [chunk EXCEPT ![length - 1] = @ \ {word}]
  /\ UNCHANGED <<rampDown, phase, length, contexts, err, workers>>

(* chunks = chunks[:len-1]                                                 *)
Truncate ==
  /\ phase = "release"
  /\ length > 0
  /\ chunk[length - 1] = {}
  /\ length' = length - 1
  /\ UNCHANGED <<rampDown, phase, chunk, contexts, err, workers>>

(* All is released, or the context is done between two releases: cancel(). *)
ReleaseEnds ==
  /\ phase = "release"
  /\ length > 0 => ContextDone /\ chunk[length - 1] = Word
  /\ phase' = "cleanup"
  /\ UNCHANGED <<rampDown, length, chunk, contexts, err, workers>>

(* cancel() ...                                                            *)
CancelThrashers ==
  /\ phase = "cleanup"
  /\ Cancel
  /\ UNCHANGED <<rampDown, phase, length, chunk, err, workers>>

(* A slip: the chunks are released without waiting for the workers.        *)
ThrashersForgotten ==
  /\ phase = "cleanup"
  /\ ContextDone
  /\ phase' = "free"
  /\ UNCHANGED <<rampDown, length, chunk, contexts, err, workers>>

(* ... and thrashWg.Wait().                                                *)
ThrashersGone ==
  /\ phase = "cleanup"
  /\ ContextDone
  /\ \A w \in Thrashers : pc[w] \in {"off", "exited"}
  /\ phase' = "free"
  /\ UNCHANGED <<rampDown, length, chunk, contexts, err, workers>>

(* The rest is released and the result sent.                               *)
SendResult ==
  /\ phase = "free"
  /\ chunk' = [i \in Slots |-> IF i < length THEN {} ELSE chunk[i]]
  /\ length' = 0
  /\ phase' = "sent"
  /\ err' = StressErr
  /\ UNCHANGED <<rampDown, contexts, workers>>

-----------------------------------------------------------------------------
(* A thrash worker. *)

(* The goroutine reads the slice header when it starts, not when it was    *)
(* spawned: releases may have come before.                                 *)
ThrashStart(w) ==
  /\ pc[w] = "spawned"
  /\ n' = [n EXCEPT ![w] = length]
  /\ IF length = 0
       THEN pc' = [pc EXCEPT ![w] = "exited"] /\ UNCHANGED at
       ELSE /\ pc' = [pc EXCEPT ![w] = "loop"]
            /\ \E i \in 0..(length - 1) : at' = [at EXCEPT ![w] = i]
  /\ UNCHANGED <<rampDown, phase, length, chunk, contexts, err, seen, live>>

(* The top of the loop looks at the context.                               *)
ThrashLoop(w) ==
  /\ pc[w] = "loop"
  /\ pc' = [pc EXCEPT ![w] = IF ContextDone THEN "exited" ELSE "load"]
  /\ seen' = [seen EXCEPT ![w] = {}]
  /\ live' = [live EXCEPT ![w] = {}]
  /\ UNCHANGED <<rampDown, phase, length, chunk, contexts, err, n, at>>

(* chunk := chunks[chunkIdx]                                               *)
LoadWord(w) ==
  /\ pc[w] = "load"
  /\ \E word \in Word \ seen[w] :
       /\ seen' = [seen EXCEPT ![w] = @ \cup {word}]
       /\ live' = [live EXCEPT ![w] = @ \cup ({word} \cap chunk[at[w]])]
  /\ UNCHANGED <<rampDown, phase, length, chunk, contexts, err, pc, n, at>>

(* A slip: len(chunk) == 0 looks at the length.                            *)
IsEmpty(w) == "len" \notin live[w]

(* chunk == nil looks at the pointer.                                      *)
IsNil(w) == "ptr" \notin live[w]

NextSlot(w) == at' = [at EXCEPT ![w] = (@ + 1) % n[w]]

TestNil(w) ==
  /\ pc[w] = "load"
  /\ seen[w] = Word
  /\ IF IsNil(w)
       THEN pc' = [pc EXCEPT ![w] = "loop"] /\ NextSlot(w)
       ELSE pc' = [pc EXCEPT ![w] = "walk"] /\ UNCHANGED at
  /\ UNCHANGED <<rampDown, phase, length, chunk, contexts, err, n, seen, live>>

(* The stride over the chunk the worker holds.                             *)
Walk(w) ==
  /\ pc[w] = "walk"
  /\ pc' = [pc EXCEPT ![w] = "loop"]
  /\ NextSlot(w)
  /\ UNCHANGED <<rampDown, phase, length, chunk, contexts, err, n, seen, live>>

-----------------------------------------------------------------------------
Busy == length > 0 \/ \E w \in Thrashers : pc[w] \notin {"off", "exited"}

FaultStep ==
  \/ Allocate \/ AllocationStops \/ SpawnThrashers \/ HoldEnds \/ ClearWord
  \/ Truncate \/ ReleaseEnds \/ CancelThrashers \/ ThrashersGone \/ SendResult

ThrashStep(w) ==
  ThrashStart(w) \/ ThrashLoop(w) \/ LoadWord(w) \/ TestNil(w) \/ Walk(w)

Next ==
  \/ Start \/ Deadline \/ Interrupt \/ FaultStep
  \/ \E w \in Thrashers : ThrashStep(w)

(* Both kinds of goroutine run; timers fire; the context has a deadline.   *)
Fairness ==
  /\ WF_vars(Deadline)
  /\ WF_vars(FaultStep)
  /\ \A w \in Thrashers : WF_vars(ThrashStep(w))

-----------------------------------------------------------------------------
(* "Chunk was released during ramp-down" (stress.go:234-238): the test for *)
(* nil is enough although the element is read without a lock.  A worker    *)
(* never walks a chunk with a length but no pointer, and its index stays   *)
(* within the slice it saw, however far the release has come.              *)
WalksWholeChunks ==
  \A w \in Thrashers :
    /\ pc[w] = "walk" /\ "len" \in live[w] => "ptr" \in live[w]
    /\ pc[w] \in {"loop", "load", "walk"} => at[w] < n[w]

=============================================================================
