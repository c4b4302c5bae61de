--------------------------- MODULE CacheBox_proof ---------------------------
(***************************************************************************)
(* Proofs about CacheBox, for every set of requests, targets and bodies,   *)
(* every key strategy and every cap of the store.                          *)
(***************************************************************************)
EXTENDS CacheBox, LRUCache_proof

(* The question of a request, as the key sees it.                          *)
KeyOf(r) == KeyFor(TargetOf[r], CapturedBody(r))

Hosts == {TargetOf[r].host : r \in Requests} \cup {t.host : t \in SeedTargets}
Paths == {TargetOf[r].path : r \in Requests} \cup {t.path : t \in SeedTargets}
           \cup Reused
Bodies == {BodyOf[r] : r \in Requests} \cup {NoBody}

AllKeys == {<<p>> : p \in Paths} \cup (Hosts \X Paths)
             \cup (Hosts \X Paths \X Bodies)

Origins == [from : Requests \cup {Seeded}, at : {0}]

TypeOK ==
  /\ stage \in [Requests -> {"new", "forward", "served", "delay", "cancelled",
                             "failed", "recording"}]
  /\ key \in [Requests -> AllKeys \cup {NoKey}]
  /\ served \in [Requests -> Requests \cup {Seeded, Nothing}]
  /\ path \in [Requests -> Paths]
  /\ Agrees(store, AllKeys, Origins) /\ WithinCap(store)
  /\ ch \in Seq(Requests)
  /\ caller \in [Requests -> {"new", "checked", "queued", "dropped",
                              "refused", "panicked"}]

(* A request has its key once it has passed the hot path.                  *)
KeyInv ==
  \A r \in Requests : key[r] = IF stage[r] = "new" THEN NoKey ELSE KeyOf(r)

(* Only a queued record reaches the drain goroutine and the store, and     *)
(* only a request that has come back is recorded.                          *)
RecordedInv ==
  /\ \A r \in Requests : caller[r] # "new" => stage[r] = "recording"
  /\ \A i \in 1..Len(ch) : caller[ch[i]] = "queued"
  /\ drain = "storing" => inHand \in Requests /\ caller[inHand] = "queued"

(* What the store holds of a request that was left alone is under the key  *)
(* of that request.                                                        *)
NodeInv ==
  \A n \in NodesOf(store.lru) :
    n.entry.from \in Requests =>
      /\ caller[n.entry.from] = "queued"
      /\ LeftAlone(n.entry.from) => n.key = KeyOf(n.entry.from)

(* A request that is served an entry of one that was left alone has the    *)
(* same key as that one.                                                   *)
ServedInv ==
  \A r \in Requests :
    served[r] \in Requests /\ LeftAlone(served[r]) =>
      KeyOf(served[r]) = KeyOf(r)

IInv == TypeOK /\ KeyInv /\ RecordedInv /\ NodeInv /\ ServedInv
-----------------------------------------------------------------------------
(* The keys of every strategy.                                             *)
LEMMA KeyForTyped ==
  ASSUME NEW h \in Hosts, NEW p \in Paths, NEW b \in Bodies
  PROVE  KeyFor([host |-> h, path |-> p], b) \in AllKeys
  BY DEF KeyFor, AllKeys

(* What requests and seeds ask for, and the keys of it.                    *)
LEMMA TargetsTyped ==
  /\ \A r \in Requests :
       /\ TargetOf[r] = [host |-> TargetOf[r].host, path |-> TargetOf[r].path]
       /\ TargetOf[r].host \in Hosts /\ TargetOf[r].path \in Paths
       /\ CapturedBody(r) \in Bodies
       /\ KeyOf(r) \in AllKeys
  /\ \A t \in SeedTargets : KeyFor(t, NoBody) \in AllKeys
<1>1. ASSUME NEW r \in Requests
      PROVE  /\ TargetOf[r] = [host |-> TargetOf[r].host,
                               path |-> TargetOf[r].path]
             /\ TargetOf[r].host \in Hosts /\ TargetOf[r].path \in Paths
             /\ CapturedBody(r) \in Bodies
  BY RequestsAssumption DEF Hosts, Paths, Bodies, CapturedBody
<1>2. ASSUME NEW r \in Requests
      PROVE  KeyOf(r) \in AllKeys
  BY <1>1, KeyForTyped DEF KeyOf
<1>3. ASSUME NEW t \in SeedTargets
      PROVE  KeyFor(t, NoBody) \in AllKeys
  <2>1. /\ t = [host |-> t.host, path |-> t.path]
        /\ t.host \in Hosts /\ t.path \in Paths /\ NoBody \in Bodies
    BY RequestsAssumption DEF Hosts, Paths, Bodies
  <2>2. QED
    BY <2>1, KeyForTyped
<1>4. QED
  BY <1>1, <1>2, <1>3

(* Only seeds are in the store.                                            *)
LEMMA InitIInv == Init => IInv
<1> SUFFICES ASSUME Init
             PROVE  IInv
  OBVIOUS
<1>1. Agrees(store, AllKeys, Origins) /\ WithinCap(store)
      /\ NodesOf(store.lru) = {}
  BY EmptyAgrees DEF Init
<1>2. ch = <<>> /\ ch \in Seq(Requests) /\ Len(ch) = 0
  BY EmptySeq DEF Init, Recorder!Init
<1>3. TypeOK
  BY <1>1, <1>2, TargetsTyped DEF Init, Recorder!Init, TypeOK
<1>4. KeyInv /\ RecordedInv /\ NodeInv /\ ServedInv
  BY <1>1, <1>2, RecorderAssumption
     DEF Init, Recorder!Init, KeyInv, RecordedInv, NodeInv, ServedInv
<1>5. QED
  BY <1>3, <1>4 DEF IInv

(* Every step of a request, of the drain goroutine and of the recorder     *)
(* keeps the invariant.                                                    *)
LEMMA Step == IInv /\ [Next]_vars => IInv'
<1> SUFFICES ASSUME IInv, [Next]_vars
             PROVE  IInv'
  OBVIOUS
<1> USE DEF requestVars, recorderVars
<1>0. /\ TypeOK /\ KeyInv /\ RecordedInv /\ NodeInv /\ ServedInv
      /\ Agrees(store, AllKeys, Origins) /\ WithinCap(store)
      /\ ch \in Seq(Requests)
      /\ \A r \in Requests : KeyOf(r) \in AllKeys
  BY TargetsTyped DEF IInv, TypeOK
<1>1. ASSUME NEW k
      PROVE  /\ Agrees(AfterGet(store, k, 0), AllKeys, Origins)
             /\ WithinCap(AfterGet(store, k, 0))
             /\ NodesOf(AfterGet(store, k, 0).lru) \subseteq NodesOf(store.lru)
  BY <1>0, AfterGetAgrees
<1>2. ASSUME NEW r \in Requests, DispatchForward(r)
      PROVE  IInv'
  <2>1. /\ Agrees(store', AllKeys, Origins) /\ WithinCap(store')
        /\ NodesOf(store'.lru) \subseteq NodesOf(store.lru)
    BY <1>0, <1>1, <1>2 DEF DispatchForward
  <2>2. /\ stage[r] = "new"
        /\ key' = [key EXCEPT ![r] = KeyOf(r)]
        /\ stage' = [stage EXCEPT ![r] = "forward"]
        /\ UNCHANGED <<served, path, recorderVars>>
    BY <1>2 DEF DispatchForward, KeyOf
  <2>3. TypeOK'
    BY <1>0, <2>1, <2>2 DEF TypeOK
  <2>4. (KeyInv /\ RecordedInv)'
    BY <1>0, <2>2 DEF TypeOK, KeyInv, RecordedInv
  <2>5. (NodeInv /\ ServedInv)'
    BY <1>0, <2>1, <2>2 DEF NodeInv, ServedInv, LeftAlone
  <2>6. QED
    BY <2>3, <2>4, <2>5 DEF IInv
<1>3. ASSUME NEW r \in Requests, DispatchReplay(r)
      PROVE  IInv'
  <2> DEFINE k == KeyOf(r)
  <2>1. /\ Agrees(store', AllKeys, Origins) /\ WithinCap(store')
        /\ NodesOf(store'.lru) \subseteq NodesOf(store.lru)
    BY <1>0, <1>1, <1>3 DEF DispatchReplay
  <2>2. /\ stage[r] = "new"
        /\ k \in store.entries
        /\ key' = [key EXCEPT ![r] = k]
        /\ served' = [served EXCEPT ![r] = EntryAt(store, k).from]
        /\ \/ stage' = [stage EXCEPT ![r] = "served"]
           \/ stage' = [stage EXCEPT ![r] = "delay"]
        /\ UNCHANGED <<path, recorderVars>>
    BY <1>3 DEF DispatchReplay, KeyOf, Hits
  <2> HIDE DEF k
  <2>3. PICK n \in NodesOf(store.lru) :
          n = [key |-> k, entry |-> EntryAt(store, k)]
    <3>1. /\ Position(store, k) \in 1..Len(store.lru)
          /\ store.lru[Position(store, k)] =
               [key |-> k, entry |-> EntryAt(store, k)]
      BY <1>0, <2>2, EntryAtNode
    <3>2. QED
      BY <3>1 DEF NodesOf
  <2>4. EntryAt(store, k) \in Origins
    BY <1>0, <2>2, EntryAtNode
  <2>5. k \in AllKeys
    BY <1>0 DEF k
  <2>6. TypeOK'
    BY <1>0, <2>1, <2>2, <2>4, <2>5 DEF TypeOK, Origins
  <2>7. (KeyInv /\ RecordedInv)'
    BY <1>0, <2>2 DEF TypeOK, KeyInv, RecordedInv, k
  <2>8. NodeInv'
    BY <1>0, <2>1, <2>2 DEF NodeInv, LeftAlone
  <2>9. ServedInv'
    <3>1. /\ EntryAt(store, k).from \in Requests
          /\ LeftAlone(EntryAt(store, k).from)
          => KeyOf(EntryAt(store, k).from) = KeyOf(r)
      BY <1>0, <2>3 DEF NodeInv, k
    <3>2. QED
      BY <1>0, <2>2, <3>1 DEF TypeOK, ServedInv, LeftAlone
  <2>10. QED
    BY <2>6, <2>7, <2>8, <2>9 DEF IInv
<1>4. ASSUME NEW r \in Requests, DelayOver(r)
      PROVE  IInv'
  <2>1. TypeOK'
    BY <1>0, <1>4 DEF DelayOver, TypeOK
  <2>2. (KeyInv /\ RecordedInv /\ NodeInv)'
    BY <1>0, <1>4
       DEF DelayOver, TypeOK, KeyInv, RecordedInv, NodeInv, LeftAlone
  <2>3. ServedInv'
    BY <1>0, <1>4, RecorderAssumption
       DEF DelayOver, TypeOK, ServedInv, LeftAlone
  <2>4. QED
    BY <2>1, <2>2, <2>3 DEF IInv
<1>5. ASSUME NEW r \in Requests, RoundTrip(r)
      PROVE  IInv'
  <2>1. TypeOK'
    BY <1>0, <1>5 DEF RoundTrip, TypeOK
  <2>2. (KeyInv /\ RecordedInv /\ NodeInv)'
    BY <1>0, <1>5
       DEF RoundTrip, TypeOK, KeyInv, RecordedInv, NodeInv, LeftAlone
  <2>3. ServedInv'
    BY <1>0, <1>5 DEF RoundTrip, TypeOK, ServedInv, LeftAlone
  <2>4. QED
    BY <2>1, <2>2, <2>3 DEF IInv
<1>6. ASSUME NEW r \in Requests, Record(r)
      PROVE  IInv'
  <2>1. /\ stage[r] = "recording"
        /\ UNCHANGED <<stage, key, served, path, store>>
        /\ caller[r] \in {"new", "checked"}
        /\ \/ ch' = ch
           \/ ch' = Append(ch, r) /\ caller' = [caller EXCEPT ![r] = "queued"]
        /\ \E c \in {"checked", "refused", "queued", "dropped", "panicked"} :
             caller' = [caller EXCEPT ![r] = c]
        /\ UNCHANGED <<drain, inHand>>
    BY <1>6 DEF Record, Recorder!RecordCheck, Recorder!RecordSend
  <2>2. Append(ch, r) \in Seq(Requests)
    BY <1>0, AppendProperties
  <2>3. TypeOK'
    BY <1>0, <2>1, <2>2 DEF TypeOK
  <2>4. \A q \in Requests : caller[q] = "queued" => caller'[q] = "queued"
    BY <1>0, <2>1 DEF TypeOK
  <2>5. ASSUME NEW i \in 1..Len(ch') PROVE caller'[ch'[i]] = "queued"
    <3>1. CASE ch' = ch
      <4>1. ch[i] \in Requests /\ caller[ch[i]] = "queued"
        BY <1>0, <3>1 DEF RecordedInv
      <4>2. QED
        BY <2>4, <3>1, <4>1
    <3>2. CASE ch' = Append(ch, r) /\ caller' = [caller EXCEPT ![r] = "queued"]
      <4>1. CASE i \in 1..Len(ch)
        <5>1. ch'[i] = ch[i] /\ ch[i] \in Requests /\ caller[ch[i]] = "queued"
          BY <1>0, <3>2, <4>1, AppendProperties DEF RecordedInv
        <5>2. QED
          BY <2>4, <5>1
      <4>2. CASE i \notin 1..Len(ch)
        <5>1. ch'[i] = r
          BY <1>0, <3>2, <4>2, AppendProperties
        <5>2. QED
          BY <1>0, <3>2, <5>1 DEF TypeOK
      <4>3. QED
        BY <4>1, <4>2
    <3>3. QED
      BY <2>1, <3>1, <3>2
  <2>6. (KeyInv /\ RecordedInv)'
    BY <1>0, <2>1, <2>4, <2>5 DEF TypeOK, KeyInv, RecordedInv
  <2>7. (NodeInv /\ ServedInv)'
    BY <1>0, <2>1, <2>4 DEF NodeInv, ServedInv, LeftAlone
  <2>8. QED
    BY <2>3, <2>6, <2>7 DEF IInv
<1>7. ASSUME NEW r \in Requests, Reuse(r)
      PROVE  IInv'
  <2>1. /\ UNCHANGED <<stage, key, served, store, recorderVars>>
        /\ path[r] = TargetOf[r].path
        /\ \E p \in Paths : path' = [path EXCEPT ![r] = p]
    BY <1>7 DEF Reuse, Paths
  <2>2. \A q \in Requests :
          path'[q] = TargetOf[q].path => path[q] = TargetOf[q].path
    BY <1>0, <2>1 DEF TypeOK
  <2>3. TypeOK'
    BY <1>0, <2>1 DEF TypeOK
  <2>4. (KeyInv /\ RecordedInv)'
    BY <1>0, <2>1 DEF KeyInv, RecordedInv
  <2>5. (NodeInv /\ ServedInv)'
    BY <1>0, <2>1, <2>2 DEF NodeInv, ServedInv, LeftAlone
  <2>6. QED
    BY <2>3, <2>4, <2>5 DEF IInv
<1>8. CASE DrainStore
  <2>1. /\ drain = "storing" /\ drain' = "pushing"
        /\ UNCHANGED <<stage, key, served, path, ch, caller, inHand>>
    BY <1>8 DEF DrainStore, Recorder!DrainStore
  <2>2. inHand \in Requests /\ caller[inHand] = "queued"
    BY <1>0, <2>1 DEF RecordedInv
  <2> DEFINE k == KeyFor(TargetInHand, CapturedBody(inHand))
             e == [from |-> inHand, at |-> 0]
  <2>3. /\ TargetInHand =
             [host |-> TargetOf[inHand].host, path |-> path[inHand]]
        /\ path[inHand] \in Paths
    <3>1. PICK h, p : TargetOf[inHand] = [host |-> h, path |-> p]
      BY <2>2, TargetsTyped
    <3>2. QED
      BY <1>0, <2>2, <3>1 DEF TargetInHand, TypeOK
  <2>4. k \in AllKeys
    BY <2>2, <2>3, TargetsTyped, KeyForTyped
  <2>5. LeftAlone(inHand) => k = KeyOf(inHand)
    BY <2>2, <2>3, TargetsTyped DEF LeftAlone, KeyOf
  <2>6. e \in Origins
    BY <2>2 DEF Origins
  <2>7. store' = Put(store, k, e)
    BY <1>8 DEF DrainStore
  <2> HIDE DEF k
  <2>8. /\ Agrees(store', AllKeys, Origins) /\ WithinCap(store')
        /\ NodesOf(store'.lru) \subseteq
             NodesOf(store.lru) \cup {[key |-> k, entry |-> e]}
    BY <1>0, <2>4, <2>6, <2>7, PutAgrees
  <2>9. TypeOK'
    BY <1>0, <2>1, <2>8 DEF TypeOK
  <2>10. (KeyInv /\ RecordedInv /\ ServedInv)'
    BY <1>0, <2>1 DEF KeyInv, RecordedInv, ServedInv, LeftAlone
  <2>11. NodeInv'
    BY <1>0, <2>1, <2>2, <2>5, <2>8 DEF NodeInv, LeftAlone
  <2>12. QED
    BY <2>9, <2>10, <2>11 DEF IInv
<1>9. CASE DrainOther
  <2>1. UNCHANGED <<stage, key, served, path, store, caller>>
    BY <1>9 DEF DrainOther, Recorder!DrainReceive, Recorder!DrainPush,
       Recorder!DrainExit
  <2>2. \/ ch' = ch /\ drain' # "storing"
        \/ ch # <<>> /\ ch' = Tail(ch) /\ inHand' = Head(ch)
    BY <1>9 DEF DrainOther, Recorder!DrainReceive, Recorder!DrainPush,
       Recorder!DrainExit
  <2>3. ch # <<>> => /\ Tail(ch) \in Seq(Requests)
                    /\ Len(Tail(ch)) = Len(ch) - 1
                    /\ \A i \in 1..Len(Tail(ch)) : Tail(ch)[i] = ch[i + 1]
                    /\ Head(ch) = ch[1] /\ Len(ch) >= 1
    BY <1>0, HeadTailProperties
  <2>4. TypeOK'
    BY <1>0, <2>1, <2>2, <2>3 DEF TypeOK
  <2>5. RecordedInv'
    <3>1. CASE ch' = ch /\ drain' # "storing"
      BY <1>0, <2>1, <3>1 DEF RecordedInv
    <3>2. CASE ch # <<>> /\ ch' = Tail(ch) /\ inHand' = Head(ch)
      <4>1. \A i \in 1..Len(ch') : i + 1 \in 1..Len(ch) /\ ch'[i] = ch[i + 1]
        BY <1>0, <2>3, <3>2
      <4>2. inHand' \in Requests /\ inHand' = ch[1] /\ 1 \in 1..Len(ch)
        BY <1>0, <2>3, <3>2
      <4>3. QED
        BY <1>0, <2>1, <4>1, <4>2 DEF RecordedInv
    <3>3. QED
      BY <2>2, <3>1, <3>2
  <2>6. (KeyInv /\ NodeInv /\ ServedInv)'
    BY <1>0, <2>1 DEF KeyInv, NodeInv, ServedInv, LeftAlone
  <2>7. QED
    BY <2>4, <2>5, <2>6 DEF IInv
<1>10. ASSUME NEW s \in Stoppers, Stop(s)
       PROVE  IInv'
  <2>1. UNCHANGED <<stage, key, served, path, store, caller, ch, drain,
                    inHand>>
    BY <1>10 DEF Stop, Recorder!StopStep, Recorder!StopBegin,
       Recorder!StopClose, Recorder!StopReturn
  <2>2. QED
    BY <1>0, <2>1
       DEF IInv, TypeOK, KeyInv, RecordedInv, NodeInv, ServedInv, LeftAlone
<1>11. CASE AdminClear
  <2>1. /\ store' = Empty
        /\ UNCHANGED <<stage, key, served, path, caller, ch, drain, inHand>>
    BY <1>11 DEF AdminClear
  <2>2. /\ Agrees(store', AllKeys, Origins) /\ WithinCap(store')
        /\ NodesOf(store'.lru) = {}
    BY <2>1, EmptyAgrees
  <2>3. QED
    BY <1>0, <2>1, <2>2
       DEF IInv, TypeOK, KeyInv, RecordedInv, NodeInv, ServedInv, LeftAlone
<1>12. CASE SeedEntry
  <2> DEFINE e == [from |-> Seeded, at |-> 0]
  <2>1. UNCHANGED <<stage, key, served, path, caller, ch, drain, inHand>>
    BY <1>12 DEF SeedEntry
  <2>2. PICK k \in AllKeys : store' = Put(store, k, e)
    BY <1>12, TargetsTyped DEF SeedEntry
  <2>3. e \in Origins /\ e.from \notin Requests
    BY RequestsAssumption DEF Origins
  <2>4. /\ Agrees(store', AllKeys, Origins) /\ WithinCap(store')
        /\ NodesOf(store'.lru) \subseteq
             NodesOf(store.lru) \cup {[key |-> k, entry |-> e]}
    BY <1>0, <2>2, <2>3, PutAgrees
  <2>5. TypeOK'
    BY <1>0, <2>1, <2>4 DEF TypeOK
  <2>6. (KeyInv /\ RecordedInv /\ ServedInv)'
    BY <1>0, <2>1 DEF KeyInv, RecordedInv, ServedInv, LeftAlone
  <2>7. NodeInv'
    BY <1>0, <2>1, <2>3, <2>4 DEF NodeInv, LeftAlone
  <2>8. QED
    BY <2>5, <2>6, <2>7 DEF IInv
<1>13. CASE UNCHANGED vars
  BY <1>0, <1>13
     DEF vars, IInv, TypeOK, KeyInv, RecordedInv, NodeInv, ServedInv,
         LeftAlone
<1>14. QED
  BY <1>2, <1>3, <1>4, <1>5, <1>6, <1>7, <1>8, <1>9, <1>10, <1>11, <1>12,
     <1>13 DEF Next

(* The invariant of the cache-box (cachebox.go).                           *)
THEOREM SpecIInv == Spec => []IInv
  BY InitIInv, Step, PTL DEF Spec
(* An entry is stored under the key its own caller was given               *)
(* (key.go:12-13).                                                         *)
THEOREM SpecStoredUnderAnnouncedKey == Spec => []StoredUnderAnnouncedKey
<1>1. IInv => StoredUnderAnnouncedKey
  <2> SUFFICES ASSUME IInv, NEW i \in DOMAIN store.lru,
                      store.lru[i].entry.from \in Requests,
                      LeftAlone(store.lru[i].entry.from)
               PROVE  store.lru[i].key = key[store.lru[i].entry.from]
    BY DEF StoredUnderAnnouncedKey
  <2>1. store.lru[i] \in NodesOf(store.lru)
    BY DEF NodesOf, IInv, TypeOK, Agrees
  <2> DEFINE q == store.lru[i].entry.from
  <2>2. caller[q] = "queued" /\ store.lru[i].key = KeyOf(q)
    BY <2>1 DEF IInv, NodeInv
  <2>3. stage[q] = "recording"
    BY <2>2 DEF IInv, RecordedInv
  <2>4. key[q] = KeyOf(q)
    BY <2>3 DEF IInv, KeyInv
  <2>5. QED
    BY <2>2, <2>4
<1>2. QED
  BY <1>1, SpecIInv, PTL

(* What requests with the same key have in common.                         *)
LEMMA SameKeySameQuestion ==
  ASSUME NEW q \in Requests, NEW r \in Requests, KeyOf(q) = KeyOf(r)
  PROVE  /\ SameTarget(q, r)
         /\ Strategy = "exact_with_body" /\ ~BodyNotTold(q, r) =>
              BodyOf[q] = BodyOf[r]
<1>1. SameTarget(q, r)
  BY DEF SameTarget, KeyOf, KeyFor
<1>2. ASSUME Strategy = "exact_with_body", ~BodyNotTold(q, r)
      PROVE  BodyOf[q] = BodyOf[r]
  <2>1. CapturedBody(q) = CapturedBody(r)
    BY <1>2 DEF KeyOf, KeyFor
  <2>2. CASE CapturedBody(r) = NoBody
    <3>1. BodyOf[q] \notin Unkeyed /\ BodyOf[r] \notin Unkeyed
      BY <1>2, <2>2 DEF BodyNotTold
    <3>2. QED
      BY <1>2, <2>1, <3>1 DEF CapturedBody
  <2>3. CASE CapturedBody(r) # NoBody
    BY <1>2, <2>1, <2>3 DEF CapturedBody
  <2>4. QED
    BY <2>2, <2>3
<1>3. QED
  BY <1>1, <1>2

(* A replayed answer was recorded for the same target and captured body,   *)
(* under every strategy and for any targets and bodies; requests whose     *)
(* body is not captured are the exception BodyNotTold (key.go:24-39,       *)
(* interceptor/cachebox.go:53-64).                                         *)
THEOREM SpecReplayAnswersTheSameQuestion ==
  Spec => []ReplayAnswersTheSameQuestion
<1>1. IInv => ReplayAnswersTheSameQuestion
  <2> SUFFICES ASSUME IInv, NEW r \in Requests,
                      NEW q \in Requests, q = served[r], LeftAlone(q)
               PROVE  /\ SameTarget(q, r)
                      /\ Strategy = "exact_with_body" /\ ~BodyNotTold(q, r)
                           => BodyOf[q] = BodyOf[r]
    BY DEF ReplayAnswersTheSameQuestion
  <2>1. KeyOf(q) = KeyOf(r)
    BY DEF IInv, ServedInv
  <2>2. QED
    BY <2>1, SameKeySameQuestion
<1>2. QED
  BY <1>1, SpecIInv, PTL

-----------------------------------------------------------------------------
(* Recorder of the cache-box goes through no other states than alone.      *)
LEMMA RecorderSteps == [Next]_vars => [Recorder!Next]_recorderVars
<1> SUFFICES ASSUME Next
             PROVE  Recorder!Next \/ UNCHANGED recorderVars
  BY DEF vars
<1>1. ASSUME NEW r \in Requests, Record(r)
      PROVE  Recorder!Next
  BY <1>1 DEF Record, Recorder!Next
<1>2. CASE DrainStore \/ DrainOther
  BY <1>2 DEF DrainStore, DrainOther, Recorder!Next, Recorder!DrainStep
<1>3. ASSUME NEW s \in Stoppers, Stop(s)
      PROVE  Recorder!Next
  BY <1>3 DEF Stop, Recorder!Next
<1>4. ASSUME NEW r \in Requests, 
             \/ DispatchForward(r) \/ DispatchReplay(r) \/ DelayOver(r)
             \/ RoundTrip(r) \/ Reuse(r)
      PROVE  UNCHANGED recorderVars
  BY <1>4 DEF DispatchForward, DispatchReplay, DelayOver, RoundTrip, Reuse
<1>5. CASE AdminClear \/ SeedEntry
  BY <1>5 DEF AdminClear, SeedEntry
<1>6. QED
  BY <1>1, <1>2, <1>3, <1>4, <1>5 DEF Next

(* The cache-box drives its recorder as its clients may: whatever is       *)
(* proved of the recorder holds inside the cache-box.                      *)
THEOREM BoxIsRecorder == Spec => Recorder!Spec
<1>1. Init => Recorder!Init
  BY DEF Init
<1>2. [Next]_vars => [Recorder!Next]_(Recorder!vars)
  BY RecorderSteps DEF Recorder!vars, recorderVars
<1>3. QED
  BY <1>1, <1>2, PTL DEF Spec, Recorder!Spec
=============================================================================
