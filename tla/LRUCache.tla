------------------------------ MODULE LRUCache ------------------------------
(***************************************************************************)
(* The data structure of cachebox.MemStore                                 *)
(* (internal/cachebox/memstore.go) as operators on a record:               *)
(*   lru      the list of nodes, front (most recent) first                 *)
(*   entries  the keys the map has an element for                          *)
(*   bytes    the byte counter                                             *)
(* The map and the list are separate pieces of state that every operation  *)
(* must move together; the hit, miss and eviction counters are left out.   *)
(* Each operator is one critical section of s.mu.                          *)
(***************************************************************************)
EXTENDS Integers, SequencesExt

CONSTANTS
  MaxEntries,  \* MemStoreConfig.MaxEntries; 0 is unbounded
  TTL,         \* MemStoreConfig.TTL; 0 is no expiry
  SizeOf(_)    \* Entry.Size

ASSUME ConfigAssumption == MaxEntries \in Nat /\ TTL \in Nat

Empty == [lru |-> <<>>, entries |-> {}, bytes |-> 0]

Position(s, k) == CHOOSE i \in DOMAIN s.lru : s.lru[i].key = k

(* The entry the map's element for k holds. *)
EntryAt(s, k) == s.lru[Position(s, k)].entry

(* A slip: a used element is not moved to the front.                       *)
KeepInPlace(list, i, node) == [list EXCEPT ![i] = node]

(* MoveToFront, with the element's new contents.                           *)
Promote(list, i, node) == <<node>> \o RemoveAt(list, i)

(* A slip: the byte counter is not reduced.                                *)
RemoveLockedForgetsBytes(s, i) ==
  [lru |-> RemoveAt(s.lru, i),
   entries |-> s.entries \ {s.lru[i].key},
   bytes |-> s.bytes]

RemoveLocked(s, i) ==
  [lru |-> RemoveAt(s.lru, i),
   entries |-> s.entries \ {s.lru[i].key},
   bytes |-> s.bytes - SizeOf(s.lru[i].entry)]

(* The eviction loop of Put: from the back until the cap holds. *)
Evict(s) ==
  LET excess == IF MaxEntries > 0 /\ Len(s.lru) > MaxEntries
                THEN Len(s.lru) - MaxEntries ELSE 0
      loop[n \in 0..excess] ==
        IF n = 0 THEN s ELSE RemoveLocked(loop[n - 1], Len(loop[n - 1].lru))
  IN loop[excess]

(* A slip: a key that is there already keeps its old entry.                *)
PutKeepsOld(s, k, e) ==
  IF k \in s.entries
    THEN [s EXCEPT !.lru = Promote(@, Position(s, k), @[Position(s, k)])]
    ELSE Evict([lru |-> <<[key |-> k, entry |-> e]>> \o s.lru,
                entries |-> s.entries \cup {k},
                bytes |-> s.bytes + SizeOf(e)])

Put(s, k, e) ==
  LET node == [key |-> k, entry |-> e]
  IN IF k \in s.entries
     THEN [lru |-> Promote(s.lru, Position(s, k), node),
           entries |-> s.entries,
           bytes |-> s.bytes - SizeOf(EntryAt(s, k)) + SizeOf(e)]
     ELSE Evict([lru |-> <<node>> \o s.lru,
                 entries |-> s.entries \cup {k},
                 bytes |-> s.bytes + SizeOf(e)])

Expired(e, now) == TTL > 0 /\ now - e.at > TTL

Hits(s, k, now) == k \in s.entries /\ ~Expired(EntryAt(s, k), now)

(* The store after a Get: promoted on a hit, reclaimed if expired. *)
AfterGet(s, k, now) ==
  IF k \notin s.entries THEN s
  ELSE IF Expired(EntryAt(s, k), now) THEN RemoveLocked(s, Position(s, k))
  ELSE [s EXCEPT !.lru = Promote(@, Position(s, k), @[Position(s, k)])]

Delete(s, k) == IF k \in s.entries THEN RemoveLocked(s, Position(s, k)) ELSE s
=============================================================================
