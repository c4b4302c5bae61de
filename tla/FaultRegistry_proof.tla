------------------------ MODULE FaultRegistry_proof ------------------------
(***************************************************************************)
(* Proofs about FaultRegistry, for every set of calls, every assignment of *)
(* keys and policies to them, and any number of Close goroutines.          *)
(***************************************************************************)
EXTENDS FaultRegistry, FiniteSetTheorems, TLAPS

(* A call holds r.mu exactly while it is deduplicating and inside startFn. *)
LockInv ==
  /\ \A c \in Calls :
       Dedup(c) /\ pc[c] \in {"starting", "spanned", "track"} => mu = c
  /\ mu # None =>
       Dedup(mu) /\ pc[mu] \in {"starting", "spanned", "track"}

(* A fault exists once startFn started it; its callback says how far the   *)
(* call has come, and Send can only have loaded the cleanup from a call    *)
(* that registered it.                                                     *)
FaultInv ==
  \A c \in Calls :
    /\ pc[c] \in {"ready", "starting", "joined", "failed"} => fault[c] = "none"
    /\ callback[c] = "release" <=> pc[c] = "started"
    /\ firing[c] = "release" => pc[c] = "started"
    /\ fault[c] \in {"none", "running"} => firing[c] = "nil"
    /\ fault[c] = "released" => firing[c] = "release"

(* While a call is inside startFn its key is free, and an entry belongs to *)
(* a tracked, not yet released fault of that key.                          *)
KeyInv ==
  /\ \A c \in Calls :
       Dedup(c) /\ pc[c] \in {"starting", "spanned", "track"}
       => active[KeyOf[c]] = None
  /\ \A k \in Keys :
       active[k] # None =>
         /\ Dedup(active[k])
         /\ KeyOf[active[k]] = k
         /\ Tracked(active[k])
         /\ ~Released(active[k])

IInv ==
  /\ TypeOK
  /\ LockInv
  /\ FaultInv
  /\ KeyInv
  /\ KeyHeldByItsFault
  /\ WaitGroupExact

-----------------------------------------------------------------------------
(* The set of outstanding faults is finite, so its cardinality is a        *)
(* natural number that moves by one with each element (registry.go:55,72). *)
LEMMA OutstandingFinite ==
  /\ IsFiniteSet(Outstanding)
  /\ Cardinality(Outstanding) \in Nat
<1>1. IsFiniteSet(Outstanding)
  <2>1. Outstanding \subseteq Calls
    BY DEF Outstanding
  <2>2. QED
    BY <2>1, CallsAssumption, FS_Subset
<1>2. QED
  BY <1>1, FS_CardinalityType

(* The lock protocol of StartOrJoin: r.mu is held exactly across startFn.  *)
LEMMA LockStep == IInv /\ [Next]_vars => LockInv'
<1> SUFFICES ASSUME IInv, [Next]_vars
             PROVE  LockInv'
  OBVIOUS
<1> USE CallsAssumption, CallShapeAssumption
        DEF IInv, LockInv, TypeOK, Dedup
<1>1. ASSUME NEW c \in Calls, Join(c)
      PROVE  LockInv'
  BY <1>1 DEF Join
<1>2. ASSUME NEW c \in Calls, BeginStart(c)
      PROVE  LockInv'
  BY <1>2 DEF BeginStart
<1>3. ASSUME NEW c \in Calls, RunStartFn(c)
      PROVE  LockInv'
  BY <1>3 DEF RunStartFn
<1>4. ASSUME NEW c \in Calls, StartFnFails(c)
      PROVE  LockInv'
  BY <1>4 DEF StartFnFails
<1>5. ASSUME NEW c \in Calls, HookSpan(c)
      PROVE  LockInv'
  BY <1>5 DEF HookSpan
<1>6. ASSUME NEW c \in Calls, Track(c)
      PROVE  LockInv'
  BY <1>6 DEF Track
<1>7. ASSUME NEW c \in Calls, HookRelease(c)
      PROVE  LockInv'
  BY <1>7 DEF HookRelease
<1>8. ASSUME NEW c \in Calls, Stop(c)
      PROVE  LockInv'
  BY <1>8 DEF Stop
<1>9. ASSUME NEW c \in Calls, SendLoad(c)
      PROVE  LockInv'
  BY <1>9 DEF SendLoad
<1>10. ASSUME NEW c \in Calls, SendPlain(c)
      PROVE  LockInv'
  BY <1>10 DEF SendPlain
<1>11. ASSUME NEW c \in Calls, ReleaseKey(c)
      PROVE  LockInv'
  BY <1>11 DEF ReleaseKey
<1>12. ASSUME NEW c \in Calls, WaitGroupDone(c)
      PROVE  LockInv'
  BY <1>12 DEF WaitGroupDone
<1>13. ASSUME NEW k \in Closers, CloseBegin(k)
      PROVE  LockInv'
  BY <1>13 DEF CloseBegin
<1>14. ASSUME NEW k \in Closers, CloseCancel(k)
      PROVE  LockInv'
  BY <1>14 DEF CloseCancel
<1>15. ASSUME NEW k \in Closers, CloseReturn(k)
      PROVE  LockInv'
  BY <1>15 DEF CloseReturn
<1>16. ASSUME NEW c \in Calls, SendResult(c)
      PROVE  LockInv'
  BY <1>16 DEF SendResult
<1>17. CASE UNCHANGED vars
  BY <1>17 DEF vars
<1>18. QED
  BY <1>1, <1>2, <1>3, <1>4, <1>5, <1>6, <1>7, <1>8,
     <1>9, <1>10, <1>11, <1>12, <1>13, <1>14, <1>15, <1>16, <1>17
     DEF Next, CallStep, FaultStep, CloseStep

(* Callbacks are registered in the order startFn, StartOrJoin, and Send    *)
(* loads what is registered when it runs.                                  *)
LEMMA CallbackStep == IInv /\ [Next]_vars => FaultInv'
<1> SUFFICES ASSUME IInv, [Next]_vars
             PROVE  FaultInv'
  OBVIOUS
<1> USE CallsAssumption, CallShapeAssumption
        DEF IInv, FaultInv, TypeOK, Callback
<1>1. ASSUME NEW c \in Calls, Join(c)
      PROVE  FaultInv'
  BY <1>1 DEF Join
<1>2. ASSUME NEW c \in Calls, BeginStart(c)
      PROVE  FaultInv'
  BY <1>2 DEF BeginStart
<1>3. ASSUME NEW c \in Calls, RunStartFn(c)
      PROVE  FaultInv'
  BY <1>3 DEF RunStartFn
<1>4. ASSUME NEW c \in Calls, StartFnFails(c)
      PROVE  FaultInv'
  BY <1>4 DEF StartFnFails
<1>5. ASSUME NEW c \in Calls, HookSpan(c)
      PROVE  FaultInv'
  BY <1>5 DEF HookSpan
<1>6. ASSUME NEW c \in Calls, Track(c)
      PROVE  FaultInv'
  BY <1>6 DEF Track
<1>7. ASSUME NEW c \in Calls, HookRelease(c)
      PROVE  FaultInv'
  BY <1>7 DEF HookRelease
<1>8. ASSUME NEW c \in Calls, Stop(c)
      PROVE  FaultInv'
  BY <1>8 DEF Stop
<1>9. ASSUME NEW c \in Calls, SendLoad(c)
      PROVE  FaultInv'
  BY <1>9 DEF SendLoad
<1>10. ASSUME NEW c \in Calls, SendPlain(c)
      PROVE  FaultInv'
  BY <1>10 DEF SendPlain
<1>11. ASSUME NEW c \in Calls, ReleaseKey(c)
      PROVE  FaultInv'
  BY <1>11 DEF ReleaseKey
<1>12. ASSUME NEW c \in Calls, WaitGroupDone(c)
      PROVE  FaultInv'
  BY <1>12 DEF WaitGroupDone
<1>13. ASSUME NEW k \in Closers, CloseBegin(k)
      PROVE  FaultInv'
  BY <1>13 DEF CloseBegin
<1>14. ASSUME NEW k \in Closers, CloseCancel(k)
      PROVE  FaultInv'
  BY <1>14 DEF CloseCancel
<1>15. ASSUME NEW k \in Closers, CloseReturn(k)
      PROVE  FaultInv'
  BY <1>15 DEF CloseReturn
<1>16. ASSUME NEW c \in Calls, SendResult(c)
      PROVE  FaultInv'
  BY <1>16 DEF SendResult
<1>17. CASE UNCHANGED vars
  BY <1>17 DEF vars
<1>18. QED
  BY <1>1, <1>2, <1>3, <1>4, <1>5, <1>6, <1>7, <1>8,
     <1>9, <1>10, <1>11, <1>12, <1>13, <1>14, <1>15, <1>16, <1>17
     DEF Next, CallStep, FaultStep, CloseStep

(* No entry is ever overwritten or deleted by another call's cleanup.      *)
LEMMA KeyStep == IInv /\ [Next]_vars => (KeyInv /\ KeyHeldByItsFault)'
<1> SUFFICES ASSUME IInv, [Next]_vars
             PROVE  (KeyInv /\ KeyHeldByItsFault)'
  OBVIOUS
<1> USE CallsAssumption, CallShapeAssumption
        DEF IInv, KeyInv, KeyHeldByItsFault, LockInv, FaultInv, TypeOK,
            Callback, Dedup, Tracked, Released, CleanedUp
<1>1. ASSUME NEW c \in Calls, Join(c)
      PROVE  (KeyInv /\ KeyHeldByItsFault)'
  BY <1>1 DEF Join
<1>2. ASSUME NEW c \in Calls, BeginStart(c)
      PROVE  (KeyInv /\ KeyHeldByItsFault)'
  BY <1>2 DEF BeginStart
<1>3. ASSUME NEW c \in Calls, RunStartFn(c)
      PROVE  (KeyInv /\ KeyHeldByItsFault)'
  BY <1>3 DEF RunStartFn
<1>4. ASSUME NEW c \in Calls, StartFnFails(c)
      PROVE  (KeyInv /\ KeyHeldByItsFault)'
  BY <1>4 DEF StartFnFails
<1>5. ASSUME NEW c \in Calls, HookSpan(c)
      PROVE  (KeyInv /\ KeyHeldByItsFault)'
  BY <1>5 DEF HookSpan
<1>6. ASSUME NEW c \in Calls, Track(c)
      PROVE  (KeyInv /\ KeyHeldByItsFault)'
  <2>1. CASE Dedup(c)
    <3>1. mu = c /\ active[KeyOf[c]] = None
      BY <1>6, <2>1 DEF Track
    <3>2. /\ active' = [active EXCEPT ![KeyOf[c]] = c]
          /\ pc' = [pc EXCEPT ![c] = "hook"]
          /\ fault' = fault /\ firing' = firing
      BY <1>6, <2>1 DEF Track
    <3>3. ~Released(c)' /\ Tracked(c)' /\ ~Tracked(c)
      BY <1>6, <3>2 DEF Track
    <3>4. ASSUME NEW d \in Calls, d # c
          PROVE  /\ pc'[d] = pc[d]
                 /\ Tracked(d)' = Tracked(d)
                 /\ Released(d)' = Released(d)
      BY <3>2, <3>4
    <3>5. ASSUME NEW d \in Calls, Dedup(d),
                 pc'[d] \in {"starting", "spanned", "track"}
          PROVE  active'[KeyOf[d]] = None
      BY <3>1, <3>2, <3>4, <3>5
    <3>6. ASSUME NEW k \in Keys, active'[k] # None
          PROVE  /\ Dedup(active'[k]) /\ KeyOf[active'[k]] = k
                 /\ Tracked(active[k])' /\ ~Released(active[k])'
      <4>1. CASE k = KeyOf[c]
        BY <2>1, <3>2, <3>3, <4>1
      <4>2. CASE k # KeyOf[c]
        <5>1. active'[k] = active[k] /\ active[k] \in Calls /\ active[k] # c
          BY <3>2, <3>3, <3>6, <4>2
        <5>2. QED
          BY <3>4, <3>6, <5>1
      <4>3. QED
        BY <4>1, <4>2
    <3>7. ASSUME NEW d \in Calls, Dedup(d), Tracked(d)', ~Released(d)'
          PROVE  active'[KeyOf[d]] = d
      BY <3>1, <3>2, <3>4, <3>7
    <3>8. QED
      BY <3>5, <3>6, <3>7
  <2>2. CASE ~Dedup(c)
    BY <1>6, <2>2 DEF Track
  <2>3. QED
    BY <2>1, <2>2
<1>7. ASSUME NEW c \in Calls, HookRelease(c)
      PROVE  (KeyInv /\ KeyHeldByItsFault)'
  BY <1>7 DEF HookRelease
<1>8. ASSUME NEW c \in Calls, Stop(c)
      PROVE  (KeyInv /\ KeyHeldByItsFault)'
  BY <1>8 DEF Stop
<1>9. ASSUME NEW c \in Calls, SendLoad(c)
      PROVE  (KeyInv /\ KeyHeldByItsFault)'
  BY <1>9 DEF SendLoad
<1>10. ASSUME NEW c \in Calls, SendPlain(c)
      PROVE  (KeyInv /\ KeyHeldByItsFault)'
  BY <1>10 DEF SendPlain
<1>11. ASSUME NEW c \in Calls, ReleaseKey(c)
      PROVE  (KeyInv /\ KeyHeldByItsFault)'
  <2>1. CASE Dedup(c)
    <3>1. mu = None /\ pc[c] = "started" /\ active[KeyOf[c]] = c
      BY <1>11, <2>1 DEF ReleaseKey
    <3>2. /\ active' = [active EXCEPT ![KeyOf[c]] = None]
          /\ fault' = [fault EXCEPT ![c] = "released"]
          /\ pc' = pc /\ firing' = firing
      BY <1>11, <2>1 DEF ReleaseKey
    <3>3. ASSUME NEW d \in Calls, d # c
          PROVE  Released(d)' = Released(d)
      BY <3>2, <3>3
    <3>4. ASSUME NEW k \in Keys, active'[k] # None
          PROVE  /\ active'[k] = active[k] /\ active[k] # c
                 /\ active[k] \in Calls
      BY <3>1, <3>2, <3>4
    <3>5. ASSUME NEW d \in Calls, Dedup(d), Tracked(d)', ~Released(d)'
          PROVE  active'[KeyOf[d]] = d
      <4>1. d # c
        BY <3>2, <3>5
      <4>2. active[KeyOf[d]] = d
        BY <3>2, <3>3, <3>5, <4>1
      <4>3. QED
        BY <3>1, <3>2, <4>1, <4>2
    <3>6. ASSUME NEW d \in Calls, Dedup(d),
                 pc'[d] \in {"starting", "spanned", "track"}
          PROVE  active'[KeyOf[d]] = None
      BY <3>1, <3>2, <3>6
    <3>7. QED
      BY <3>2, <3>3, <3>4, <3>5, <3>6
  <2>2. CASE ~Dedup(c)
    BY <1>11, <2>2 DEF ReleaseKey
  <2>3. QED
    BY <2>1, <2>2
<1>12. ASSUME NEW c \in Calls, WaitGroupDone(c)
      PROVE  (KeyInv /\ KeyHeldByItsFault)'
  BY <1>12 DEF WaitGroupDone
<1>13. ASSUME NEW k \in Closers, CloseBegin(k)
      PROVE  (KeyInv /\ KeyHeldByItsFault)'
  BY <1>13 DEF CloseBegin
<1>14. ASSUME NEW k \in Closers, CloseCancel(k)
      PROVE  (KeyInv /\ KeyHeldByItsFault)'
  BY <1>14 DEF CloseCancel
<1>15. ASSUME NEW k \in Closers, CloseReturn(k)
      PROVE  (KeyInv /\ KeyHeldByItsFault)'
  BY <1>15 DEF CloseReturn
<1>16. ASSUME NEW c \in Calls, SendResult(c)
      PROVE  (KeyInv /\ KeyHeldByItsFault)'
  BY <1>16 DEF SendResult
<1>17. CASE UNCHANGED vars
  BY <1>17 DEF vars
<1>18. QED
  BY <1>1, <1>2, <1>3, <1>4, <1>5, <1>6, <1>7, <1>8,
     <1>9, <1>10, <1>11, <1>12, <1>13, <1>14, <1>15, <1>16, <1>17
     DEF Next, CallStep, FaultStep, CloseStep

(* wg.Add and wg.Done match the tracked faults one for one; in particular  *)
(* the counter never goes below zero.                                      *)
LEMMA CountStep == IInv /\ [Next]_vars => (wg \in Nat /\ WaitGroupExact)'
<1> SUFFICES ASSUME IInv, [Next]_vars
             PROVE  (wg \in Nat /\ WaitGroupExact)'
  OBVIOUS
<1> USE CallsAssumption, CallShapeAssumption, OutstandingFinite
        DEF IInv, WaitGroupExact, FaultInv, TypeOK, Callback, Tracked,
            CleanedUp
<1>1. ASSUME NEW c \in Calls, Track(c)
      PROVE  (wg \in Nat /\ WaitGroupExact)'
  <2>1. Outstanding' = Outstanding \cup {c} /\ c \notin Outstanding
    BY <1>1 DEF Track, Outstanding
  <2>2. Cardinality(Outstanding') = Cardinality(Outstanding) + 1
    BY <2>1, OutstandingFinite, FS_AddElement
  <2>3. QED
    BY <1>1, <2>2, OutstandingFinite DEF Track
<1>2. ASSUME NEW c \in Calls, WaitGroupDone(c)
      PROVE  (wg \in Nat /\ WaitGroupExact)'
  <2>1. Outstanding' = Outstanding \ {c} /\ c \in Outstanding
    BY <1>2 DEF WaitGroupDone, Outstanding
  <2>2. Cardinality(Outstanding') = Cardinality(Outstanding) - 1
    BY <2>1, OutstandingFinite, FS_RemoveElement
  <2>3. IsFiniteSet(Outstanding') /\ Cardinality(Outstanding') \in Nat
    BY <2>1, OutstandingFinite, FS_RemoveElement, FS_CardinalityType
  <2>4. QED
    BY <1>2, <2>2, <2>3, OutstandingFinite DEF WaitGroupDone
<1>3. ASSUME NEW c \in Calls,
             \/ Join(c) \/ BeginStart(c) \/ RunStartFn(c) \/ StartFnFails(c)
             \/ HookSpan(c) \/ HookRelease(c) \/ Stop(c)
      PROVE  UNCHANGED <<wg, Outstanding>>
  BY <1>3 DEF Join, BeginStart, RunStartFn, StartFnFails, HookSpan,
              HookRelease, Stop, Outstanding
<1>4. ASSUME NEW c \in Calls,
             SendLoad(c) \/ SendPlain(c) \/ ReleaseKey(c) \/ SendResult(c)
      PROVE  UNCHANGED <<wg, Outstanding>>
  BY <1>4 DEF SendLoad, SendPlain, ReleaseKey, SendResult, Outstanding
<1>5. ASSUME NEW k \in Closers, CloseStep(k)
      PROVE  UNCHANGED <<wg, Outstanding>>
  BY <1>5 DEF CloseStep, CloseBegin, CloseCancel, CloseReturn, Outstanding
<1>6. CASE UNCHANGED vars
  BY <1>6 DEF vars, Outstanding
<1>7. QED
  BY <1>1, <1>2, <1>3, <1>4, <1>5, <1>6 DEF Next, CallStep, FaultStep

(* Every step keeps every variable in its type.                            *)
LEMMA TypeStep == IInv /\ [Next]_vars => TypeOK'
<1> SUFFICES ASSUME IInv, [Next]_vars
             PROVE  TypeOK'
  OBVIOUS
<1> USE CallsAssumption, CallShapeAssumption
        DEF IInv, TypeOK, Callback
<1>1. ASSUME NEW c \in Calls, Join(c)
      PROVE  TypeOK'
  BY <1>1 DEF Join
<1>2. ASSUME NEW c \in Calls, BeginStart(c)
      PROVE  TypeOK'
  BY <1>2 DEF BeginStart
<1>3. ASSUME NEW c \in Calls, RunStartFn(c)
      PROVE  TypeOK'
  BY <1>3 DEF RunStartFn
<1>4. ASSUME NEW c \in Calls, StartFnFails(c)
      PROVE  TypeOK'
  BY <1>4 DEF StartFnFails
<1>5. ASSUME NEW c \in Calls, HookSpan(c)
      PROVE  TypeOK'
  BY <1>5 DEF HookSpan
<1>6. ASSUME NEW c \in Calls, Track(c)
      PROVE  TypeOK'
  BY <1>6, CountStep DEF Track
<1>7. ASSUME NEW c \in Calls, HookRelease(c)
      PROVE  TypeOK'
  BY <1>7 DEF HookRelease
<1>8. ASSUME NEW c \in Calls, Stop(c)
      PROVE  TypeOK'
  BY <1>8 DEF Stop
<1>9. ASSUME NEW c \in Calls, SendLoad(c)
      PROVE  TypeOK'
  BY <1>9 DEF SendLoad
<1>10. ASSUME NEW c \in Calls, SendPlain(c)
      PROVE  TypeOK'
  BY <1>10 DEF SendPlain
<1>11. ASSUME NEW c \in Calls, ReleaseKey(c)
      PROVE  TypeOK'
  BY <1>11 DEF ReleaseKey
<1>12. ASSUME NEW c \in Calls, WaitGroupDone(c)
      PROVE  TypeOK'
  BY <1>12, CountStep DEF WaitGroupDone
<1>13. ASSUME NEW k \in Closers, CloseBegin(k)
      PROVE  TypeOK'
  BY <1>13 DEF CloseBegin
<1>14. ASSUME NEW k \in Closers, CloseCancel(k)
      PROVE  TypeOK'
  BY <1>14 DEF CloseCancel
<1>15. ASSUME NEW k \in Closers, CloseReturn(k)
      PROVE  TypeOK'
  BY <1>15 DEF CloseReturn
<1>16. ASSUME NEW c \in Calls, SendResult(c)
      PROVE  TypeOK'
  BY <1>16 DEF SendResult
<1>17. CASE UNCHANGED vars
  BY <1>17 DEF vars
<1>18. QED
  BY <1>1, <1>2, <1>3, <1>4, <1>5, <1>6, <1>7, <1>8,
     <1>9, <1>10, <1>11, <1>12, <1>13, <1>14, <1>15, <1>16, <1>17
     DEF Next, CallStep, FaultStep, CloseStep

-----------------------------------------------------------------------------
LEMMA InitIInv == Init => IInv
<1> SUFFICES ASSUME Init
             PROVE  IInv
  OBVIOUS
<1> USE DEF Init
<1>1. TypeOK
  BY DEF TypeOK, Callback
<1>2. LockInv /\ FaultInv
  BY CallsAssumption DEF LockInv, FaultInv
<1>3. KeyInv /\ KeyHeldByItsFault
  BY CallShapeAssumption DEF KeyInv, KeyHeldByItsFault, Tracked
<1>4. WaitGroupExact
  <2>1. Outstanding = {}
    BY DEF Outstanding, Tracked
  <2>2. QED
    BY <2>1, FS_EmptySet DEF WaitGroupExact
<1>5. QED
  BY <1>1, <1>2, <1>3, <1>4 DEF IInv

(* The inductive invariant holds of every behaviour of the registry.       *)
THEOREM Inductive == Spec => []IInv
<1>1. IInv /\ [Next]_vars => IInv'
  BY LockStep, CallbackStep, KeyStep, CountStep, TypeStep DEF IInv
<1>2. QED
  BY InitIInv, <1>1, PTL DEF Spec

(* Type correctness, of which wg \in Nat is the part that needs the count: *)
(* wg.Done is never called more often than wg.Add (registry.go:55-58,      *)
(* 72-83), so the WaitGroup never panics with a negative counter.          *)
THEOREM TypeCorrect == Spec => []TypeOK
<1>1. IInv => TypeOK
  BY DEF IInv
<1>2. QED
  BY Inductive, <1>1, PTL

(* Two faults of one key never run together (registry.go:67-81).           *)
THEOREM DedupSafe == Spec => []DedupExclusive
<1>1. IInv => DedupExclusive
  <2> SUFFICES ASSUME IInv,
                      NEW c \in Calls, NEW d \in Calls, c # d,
                      Dedup(c), Dedup(d), KeyOf[c] = KeyOf[d],
                      fault[c] = "running", fault[d] = "running"
               PROVE  FALSE
    BY DEF DedupExclusive
  <2> DEFINE Inside(e) == pc[e] \in {"starting", "spanned", "track"}
  <2>1. ASSUME NEW e \in Calls, Dedup(e), fault[e] = "running"
        PROVE  \/ Inside(e) /\ mu = e /\ active[KeyOf[e]] = None
               \/ active[KeyOf[e]] = e
    <3>1. Inside(e) \/ Tracked(e)
      BY <2>1 DEF IInv, TypeOK, FaultInv, Tracked
    <3>2. ~Released(e)
      BY <2>1 DEF Released, CleanedUp
    <3>3. QED
      BY <2>1, <3>1, <3>2 DEF IInv, LockInv, KeyInv, KeyHeldByItsFault
  <2>2. QED
    BY <2>1, CallsAssumption
<1>2. QED
  BY Inductive, <1>1, PTL

(* The cleanup's delete finds its own entry (registry.go:77-83).           *)
THEOREM KeysHeld == Spec => []KeyHeldByItsFault
<1>1. IInv => KeyHeldByItsFault
  BY DEF IInv
<1>2. QED
  BY Inductive, <1>1, PTL

(* r.wg counts the tracked faults exactly.                                 *)
THEOREM CountExact == Spec => []WaitGroupExact
<1>1. IInv => WaitGroupExact
  BY DEF IInv
<1>2. QED
  BY Inductive, <1>1, PTL

(* When the wait of Close is over, every fault counted into r.wg has run   *)
(* its cleanup and lost its key (registry.go:77-83, 99-100).               *)
THEOREM CloseDrains == Spec => CloseReturnsDrained
<1>1. IInv /\ [Next]_vars =>
        [\A k \in Closers :
           closer[k] = "waiting" /\ closer'[k] = "returned" =>
             \A c \in Calls :
               Tracked(c) => CleanedUp(c) /\ active[KeyOf[c]] # c]_vars
  <2> SUFFICES ASSUME IInv, [Next]_vars, NEW k \in Closers,
                      closer[k] = "waiting", closer'[k] = "returned",
                      NEW c \in Calls, Tracked(c)
               PROVE  CleanedUp(c) /\ active[KeyOf[c]] # c
    OBVIOUS
  <2>1. wg = 0
    BY DEF Next, vars, CallStep, FaultStep, CloseStep, Join, BeginStart,
           RunStartFn, StartFnFails, HookSpan, Track, HookRelease, Stop,
           SendLoad, SendPlain, ReleaseKey, WaitGroupDone, SendResult,
           CloseBegin, CloseCancel, CloseReturn, IInv, TypeOK
  <2>2. Outstanding = {}
    BY <2>1, OutstandingFinite, FS_EmptySet DEF IInv, WaitGroupExact
  <2>3. CleanedUp(c)
    BY <2>2 DEF Outstanding
  <2>4. active[KeyOf[c]] # c
    <3>1. c # None /\ KeyOf[c] \in Keys
      BY CallsAssumption, CallShapeAssumption
    <3>2. QED
      BY <2>3, <3>1 DEF IInv, KeyInv, Released
  <2>5. QED
    BY <2>3, <2>4
<1>2. QED
  BY Inductive, <1>1, PTL DEF Spec, CloseReturnsDrained

(* The registry implements keyed exclusion: each answer is the one the     *)
(* abstract registry gives, at the step that commits to it (the lookup for *)
(* "joined", the map entry for "started").                                 *)
THEOREM Refinement == Spec => ImplementsKeyedFaults
<1> DEFINE outcomes == [c \in Calls |-> Outcome(c)]
<1>1. Init => Abstract!Init
  BY DEF Init, Abstract!Init, Outcome, Tracked
<1>2. IInv /\ [Next]_vars => [Abstract!Next]_(Abstract!avars)
  <2> SUFFICES ASSUME IInv, [Next]_vars
               PROVE  Abstract!Next \/ UNCHANGED <<active, outcomes>>
    BY DEF Abstract!avars
  <2> USE CallsAssumption, CallShapeAssumption
          DEF IInv, TypeOK, Dedup, Tracked, Abstract!Exclusive, Abstract!Answer
  <2>1. ASSUME NEW c \in Calls, Join(c)
        PROVE  Abstract!Next \/ UNCHANGED <<active, outcomes>>
    <3>1. Abstract!Join(c)
      BY <2>1 DEF Join, Abstract!Join, Outcome
    <3>2. QED
      BY <3>1 DEF Abstract!Next
  <2>2. ASSUME NEW c \in Calls, BeginStart(c)
        PROVE  Abstract!Next \/ UNCHANGED <<active, outcomes>>
    BY <2>2 DEF BeginStart, Outcome
  <2>3. ASSUME NEW c \in Calls, RunStartFn(c)
        PROVE  Abstract!Next \/ UNCHANGED <<active, outcomes>>
    BY <2>3 DEF RunStartFn, Outcome
  <2>4. ASSUME NEW c \in Calls, StartFnFails(c)
        PROVE  Abstract!Next \/ UNCHANGED <<active, outcomes>>
    <3>1. Abstract!Fail(c)
      BY <2>4 DEF StartFnFails, Abstract!Fail, Outcome, KeyInv
    <3>2. QED
      BY <3>1 DEF Abstract!Next
  <2>5. ASSUME NEW c \in Calls, HookSpan(c)
        PROVE  Abstract!Next \/ UNCHANGED <<active, outcomes>>
    BY <2>5 DEF HookSpan, Outcome
  <2>6. ASSUME NEW c \in Calls, Track(c)
        PROVE  Abstract!Next \/ UNCHANGED <<active, outcomes>>
    <3>1. Abstract!Start(c)
      BY <2>6 DEF Track, Abstract!Start, Outcome, KeyInv
    <3>2. QED
      BY <3>1 DEF Abstract!Next
  <2>7. ASSUME NEW c \in Calls, HookRelease(c)
        PROVE  Abstract!Next \/ UNCHANGED <<active, outcomes>>
    BY <2>7 DEF HookRelease, Outcome
  <2>8. ASSUME NEW c \in Calls, Stop(c)
        PROVE  Abstract!Next \/ UNCHANGED <<active, outcomes>>
    BY <2>8 DEF Stop, Outcome
  <2>9. ASSUME NEW c \in Calls, SendLoad(c)
        PROVE  Abstract!Next \/ UNCHANGED <<active, outcomes>>
    BY <2>9 DEF SendLoad, Outcome
  <2>10. ASSUME NEW c \in Calls, SendPlain(c)
        PROVE  Abstract!Next \/ UNCHANGED <<active, outcomes>>
    BY <2>10 DEF SendPlain, Outcome
  <2>11. ASSUME NEW c \in Calls, ReleaseKey(c)
        PROVE  Abstract!Next \/ UNCHANGED <<active, outcomes>>
    <3>1. CASE Dedup(c)
      <4>1. active[KeyOf[c]] = c /\ pc[c] = "started"
        BY <2>11, <3>1 DEF ReleaseKey, FaultInv, KeyHeldByItsFault, Released,
                          CleanedUp
      <4>2. Abstract!Release(c)
        BY <2>11, <3>1, <4>1 DEF ReleaseKey, Abstract!Release, Outcome
      <4>3. QED
        BY <4>2 DEF Abstract!Next
    <3>2. CASE ~Dedup(c)
      BY <2>11, <3>2 DEF ReleaseKey, Outcome
    <3>3. QED
      BY <3>1, <3>2
  <2>12. ASSUME NEW c \in Calls, WaitGroupDone(c)
        PROVE  Abstract!Next \/ UNCHANGED <<active, outcomes>>
    BY <2>12 DEF WaitGroupDone, Outcome
  <2>13. ASSUME NEW k \in Closers, CloseBegin(k)
        PROVE  Abstract!Next \/ UNCHANGED <<active, outcomes>>
    BY <2>13 DEF CloseBegin, Outcome
  <2>14. ASSUME NEW k \in Closers, CloseCancel(k)
        PROVE  Abstract!Next \/ UNCHANGED <<active, outcomes>>
    BY <2>14 DEF CloseCancel, Outcome
  <2>15. ASSUME NEW k \in Closers, CloseReturn(k)
        PROVE  Abstract!Next \/ UNCHANGED <<active, outcomes>>
    BY <2>15 DEF CloseReturn, Outcome
  <2>16. ASSUME NEW c \in Calls, SendResult(c)
        PROVE  Abstract!Next \/ UNCHANGED <<active, outcomes>>
    BY <2>16 DEF SendResult, Outcome
  <2>17. CASE UNCHANGED vars
    BY <2>17 DEF vars, Outcome
  <2>18. QED
    BY <2>1, <2>2, <2>3, <2>4, <2>5, <2>6, <2>7, <2>8,
       <2>9, <2>10, <2>11, <2>12, <2>13, <2>14, <2>15, <2>16, <2>17
       DEF Next, CallStep, FaultStep, CloseStep
<1>3. QED
  BY Inductive, <1>1, <1>2, PTL DEF Spec, ImplementsKeyedFaults, Abstract!Spec
=============================================================================
