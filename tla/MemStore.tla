------------------------------ MODULE MemStore ------------------------------
(***************************************************************************)
(* cachebox.MemStore as a state machine: any number of goroutines call its *)
(* methods, each of which is one critical section of s.mu.                 *)
(* (internal/cachebox/memstore.go)                                         *)
(***************************************************************************)
EXTENDS LRUCache

CONSTANTS
  Keys,
  Values,     \* response payloads; SizeOf tells their sizes apart
  Absent,     \* no entry
  MaxTime,    \* bound on the clock
  MaxUses     \* bound on the number of Put and Get calls

VARIABLES
  store,    \* the structure behind s.mu
  now,      \* time.Now
  reply,    \* the entry the last Get returned
  uses,     \* how many Put and Get calls have been made
  lastUse,  \* history: the call that last put or hit each key, 0 if none
  latest    \* history: the entry last put under each key and not deleted

vars == <<store, now, reply, uses, lastUse, latest>>

Entries == [val : Values, at : 0..MaxTime]

ASSUME EntriesAssumption ==
  /\ Absent \notin Entries
  /\ \A e \in Entries : SizeOf(e) \in Nat
  /\ MaxTime \in Nat /\ MaxUses \in Nat

Init ==
  /\ store = Empty
  /\ now = 0
  /\ reply = Absent
  /\ uses = 0
  /\ lastUse = [k \in Keys |-> 0]
  /\ latest = [k \in Keys |-> Absent]

Use(k) ==
  /\ uses < MaxUses
  /\ uses' = uses + 1
  /\ lastUse' = [lastUse EXCEPT ![k] = uses + 1]

(* A record is stamped before it is queued, so it may arrive late; a       *)
(* seeded entry carries the time of another process.                       *)
PutEntry(k, v, at) ==
  /\ Use(k)
  /\ store' = Put(store, k, [val |-> v, at |-> at])
  /\ latest' = [latest EXCEPT ![k] = [val |-> v, at |-> at]]
  /\ UNCHANGED <<now, reply>>

GetHit(k) ==
  /\ Hits(store, k, now)
  /\ Use(k)
  /\ reply' = EntryAt(store, k)
  /\ store' = AfterGet(store, k, now)
  /\ UNCHANGED <<now, latest>>

GetMiss(k) ==
  /\ ~Hits(store, k, now)
  /\ reply' = Absent
  /\ store' = AfterGet(store, k, now)
  /\ UNCHANGED <<now, uses, lastUse, latest>>

DeleteKey(k) ==
  /\ store' = Delete(store, k)
  /\ latest' = [latest EXCEPT ![k] = Absent]
  /\ UNCHANGED <<now, reply, uses, lastUse>>

Clear ==
  /\ store' = Empty
  /\ latest' = [k \in Keys |-> Absent]
  /\ UNCHANGED <<now, reply, uses, lastUse>>

Tick ==
  /\ now < MaxTime
  /\ now' = now + 1
  /\ UNCHANGED <<store, reply, uses, lastUse, latest>>

Next ==
  \/ \E k \in Keys :
       \/ \E v \in Values, at \in 0..now : PutEntry(k, v, at)
       \/ GetHit(k)
       \/ GetMiss(k)
       \/ DeleteKey(k)
  \/ Clear
  \/ Tick

Spec == Init /\ [][Next]_vars

-----------------------------------------------------------------------------
Listed == {store.lru[i].key : i \in DOMAIN store.lru}

TotalSize(list) ==
  LET sum[n \in 0..Len(list)] ==
        IF n = 0 THEN 0 ELSE sum[n - 1] + SizeOf(list[n].entry)
  IN sum[Len(list)]

(* The map, the list and the byte counter describe the same set of         *)
(* entries: one node per mapped key, and the counter is the sum of their   *)
(* sizes, whatever sequence of replacing, expiring, evicting and clearing  *)
(* led here (memstore.go:66-69, 88-117).                                   *)
MapListAndBytesAgree ==
  /\ store.entries = Listed
  /\ Cardinality(Listed) = Len(store.lru)
  /\ store.bytes = TotalSize(store.lru)

(* A Put that makes keys disappear takes them in order of last use: every  *)
(* key that stays was used after every key that goes (memstore.go:101-108).*)
EvictsLeastRecent ==
  [][ \A k \in Keys :
        lastUse'[k] # lastUse[k] =>
          \A gone \in store.entries \ store'.entries,
             kept \in store'.entries \ {k} :
            lastUse[gone] < lastUse[kept] ]_vars

Contract == INSTANCE CacheContract
  WITH content <- [k \in Keys |-> IF k \in store.entries THEN EntryAt(store, k)
                                                         ELSE Absent]

(* The store keeps the contract of cachebox.Store: a reply is the entry    *)
(* last put under the key, never one that was replaced, deleted or         *)
(* cleared, and nothing is forgotten by a Put that fits the cap.           *)
ImplementsStoreContract == Contract!Spec
=============================================================================
