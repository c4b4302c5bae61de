--------------------------- MODULE MemStore_proof ---------------------------
(***************************************************************************)
(* Proofs about MemStore, for every set of keys and values, every cap, TTL *)
(* and clock, and any number of calls.                                     *)
(***************************************************************************)
EXTENDS MemStore, LRUCache_proof

-----------------------------------------------------------------------------
(* Sums over a list, by induction on its length.                           *)

(* Induction over a set of naturals: the least number outside of it would  *)
(* have a predecessor inside.                                              *)
LEMMA SetInduction ==
  ASSUME NEW T \in SUBSET Nat, 0 \in T, \A n \in T : n + 1 \in T
  PROVE  T = Nat
<1> SUFFICES ASSUME Nat \ T # {}
             PROVE  FALSE
  OBVIOUS
<1> DEFINE R == {ss \in Nat \X Nat : ss[1] < ss[2]}
<1>1. IsWellFoundedOn(R, Nat)
  BY NatLessThanWellFounded DEF OpToRel
<1>2. PICK x \in Nat \ T : \A y \in Nat \ T : <<y, x>> \notin R
  <2> HIDE DEF R
  <2>1. Nat \ T \subseteq Nat
    OBVIOUS
  <2>2. QED
    BY <1>1, <2>1, WFMin
<1>3. x - 1 \in Nat
  OBVIOUS
<1>4. <<x - 1, x>> \in R
  BY <1>3
<1>5. x - 1 \in T
  BY <1>2, <1>3, <1>4
<1>6. x - 1 + 1 \in T
  BY <1>5
<1>7. QED
  BY <1>6

(* f adds up the sizes of the first n nodes of list.                       *)
IsSum(f, list) ==
  f = [n \in 0..Len(list) |->
         IF n = 0 THEN 0 ELSE f[n - 1] + SizeOf(list[n].entry)]

(* There is such a count, found entry by entry.                            *)
LEMMA SumExists ==
  ASSUME NEW list, Len(list) \in Nat
  PROVE  \E f : IsSum(f, list)
<1> DEFINE g(n) == SizeOf(list[n].entry)
           Adds(f, N) ==
             f = [n \in 0..N |-> IF n = 0 THEN 0 ELSE f[n - 1] + g(n)]
           T == {N \in Nat : \E f : Adds(f, N)}
<1>1. 0 \in T
  <2>1. Adds([n \in 0..0 |-> 0], 0)
    OBVIOUS
  <2>2. QED
    BY <2>1
<1>2. ASSUME NEW N \in T
      PROVE  N + 1 \in T
  <2>1. PICK f : Adds(f, N)
    OBVIOUS
  <2> HIDE DEF g
  <2> DEFINE h == [n \in 0..(N + 1) |->
                     IF n <= N THEN f[n] ELSE f[N] + g(N + 1)]
  <2>2. ASSUME NEW n \in 0..(N + 1)
        PROVE  h[n] = IF n = 0 THEN 0 ELSE h[n - 1] + g(n)
    <3>1. CASE n = 0
      BY <2>1, <3>1
    <3>2. CASE n # 0 /\ n <= N
      <4>1. n \in 0..N /\ n - 1 \in 0..(N + 1) /\ n - 1 <= N
        BY <3>2
      <4>2. f[n] = f[n - 1] + g(n)
        BY <2>1, <3>2, <4>1
      <4>3. QED
        BY <3>2, <4>1, <4>2
    <3>3. CASE n = N + 1
      <4>1. n # 0 /\ n - 1 = N /\ N \in 0..(N + 1) /\ ~(n <= N)
        BY <3>3
      <4>2. QED
        BY <3>3, <4>1
    <3>4. QED
      BY <3>1, <3>2, <3>3
  <2>3. Adds(h, N + 1)
    BY <2>2
  <2> HIDE DEF h, Adds
  <2>4. QED
    BY <2>3
<1> HIDE DEF g, Adds
<1>3. T = Nat
  BY <1>1, <1>2, SetInduction
<1>4. PICK f : Adds(f, Len(list))
  BY <1>3
<1>5. QED
  BY <1>4 DEF Adds, g, IsSum

(* TotalSize is its last value.                                            *)
LEMMA TotalSum ==
  ASSUME NEW list, Len(list) \in Nat
  PROVE  \E f : IsSum(f, list) /\ TotalSize(list) = f[Len(list)]
<1> DEFINE f == CHOOSE f : IsSum(f, list)
<1>1. IsSum(f, list)
  BY SumExists
<1>2. TotalSize(list) = f[Len(list)]
  BY DEF TotalSize, IsSum
<1>3. QED
  BY <1>1, <1>2

Sized(list) == \A n \in 1..Len(list) : SizeOf(list[n].entry) \in Nat

(* Its first value, and each from the one before.                          *)
LEMMA SumStep ==
  ASSUME NEW list, Len(list) \in Nat, Sized(list), NEW f, IsSum(f, list)
  PROVE  /\ f[0] = 0
         /\ \A n \in 0..Len(list) : f[n] \in Nat
         /\ \A n \in 1..Len(list) : f[n] = f[n - 1] + SizeOf(list[n].entry)
<1>1. f[0] = 0
  BY DEF IsSum
<1>2. ASSUME NEW n \in 1..Len(list)
      PROVE  f[n] = f[n - 1] + SizeOf(list[n].entry)
  <2>1. n \in 0..Len(list) /\ n # 0
    OBVIOUS
  <2>2. QED
    BY <2>1 DEF IsSum
<1> DEFINE T == {n \in Nat : n <= Len(list) => f[n] \in Nat}
<1>3. 0 \in T
  BY <1>1
<1>4. ASSUME NEW n \in T
      PROVE  n + 1 \in T
  <2> SUFFICES ASSUME n + 1 <= Len(list)
               PROVE  f[n + 1] \in Nat
    OBVIOUS
  <2>1. n + 1 \in 1..Len(list) /\ n <= Len(list) /\ n + 1 - 1 = n
    OBVIOUS
  <2>2. f[n] \in Nat /\ SizeOf(list[n + 1].entry) \in Nat
    BY <2>1 DEF Sized
  <2>3. f[n + 1] = f[n] + SizeOf(list[n + 1].entry)
    BY <1>2, <2>1
  <2>4. QED
    BY <2>2, <2>3
<1>5. T = Nat
  BY <1>3, <1>4, SetInduction
<1>6. \A n \in 0..Len(list) : f[n] \in Nat
  BY <1>5
<1>7. QED
  BY <1>1, <1>2, <1>6
(* What a list loses with a node, the counter has to lose.                 *)
LEMMA TotalRemove ==
  ASSUME NEW K, NEW E, NEW s \in Seq(Node(K, E)), Sized(s), NEW i \in 1..Len(s)
  PROVE  /\ Sized(RemoveAt(s, i))
         /\ TotalSize(RemoveAt(s, i)) = TotalSize(s) - SizeOf(s[i].entry)
         /\ TotalSize(s) \in Nat
<1> DEFINE r == RemoveAt(s, i)
           c == SizeOf(s[i].entry)
<1>1. /\ Len(r) = Len(s) - 1 /\ Len(s) \in Nat /\ Len(r) \in Nat
      /\ \A j \in 1..Len(r) : r[j] = IF j < i THEN s[j] ELSE s[j + 1]
  BY RemoveAtSeq
<1> HIDE DEF r
<1>2. Sized(r)
  <2> SUFFICES ASSUME NEW j \in 1..Len(r)
               PROVE  SizeOf(r[j].entry) \in Nat
    BY DEF Sized
  <2>1. PICK m \in 1..Len(s) : r[j] = s[m]
    BY <1>1
  <2>2. QED
    BY <2>1 DEF Sized
<1>3. PICK f : IsSum(f, s) /\ TotalSize(s) = f[Len(s)]
  BY <1>1, TotalSum
<1>4. PICK g : IsSum(g, r) /\ TotalSize(r) = g[Len(r)]
  BY <1>1, TotalSum
<1>5. /\ f[0] = 0
      /\ \A n \in 0..Len(s) : f[n] \in Nat
      /\ \A n \in 1..Len(s) : f[n] = f[n - 1] + SizeOf(s[n].entry)
  BY <1>1, <1>3, SumStep
<1>6. /\ g[0] = 0
      /\ \A n \in 0..Len(r) : g[n] \in Nat
      /\ \A n \in 1..Len(r) : g[n] = g[n - 1] + SizeOf(r[n].entry)
  BY <1>1, <1>2, <1>4, SumStep
<1>7. c \in Nat
  BY DEF Sized
<1> DEFINE T == {n \in Nat : n <= Len(r) =>
                   g[n] = IF n < i THEN f[n] ELSE f[n + 1] - c}
<1>8. 0 \in T
  BY <1>5, <1>6
<1>9. ASSUME NEW n \in T
      PROVE  n + 1 \in T
  <2> SUFFICES ASSUME n + 1 <= Len(r)
               PROVE  g[n + 1] = IF n + 1 < i THEN f[n + 1] ELSE f[n + 2] - c
    OBVIOUS
  <2>1. /\ n \in 0..Len(r) /\ n + 1 \in 1..Len(r) /\ n + 1 - 1 = n
        /\ n + 1 \in 1..Len(s) /\ n + 2 \in 1..Len(s) /\ n + 2 - 1 = n + 1
        /\ n + 1 + 1 = n + 2
    BY <1>1
  <2>2. g[n] = IF n < i THEN f[n] ELSE f[n + 1] - c
    BY <2>1
  <2>3. g[n + 1] = g[n] + SizeOf(r[n + 1].entry)
    BY <1>6, <2>1
  <2>4. /\ f[n + 1] = f[n] + SizeOf(s[n + 1].entry)
        /\ f[n + 2] = f[n + 1] + SizeOf(s[n + 2].entry)
        /\ f[n] \in Nat /\ f[n + 1] \in Nat /\ f[n + 2] \in Nat
    BY <1>1, <1>5, <2>1
  <2>5. r[n + 1] = IF n + 1 < i THEN s[n + 1] ELSE s[n + 2]
    BY <1>1, <2>1
  <2>6. SizeOf(s[n + 1].entry) \in Nat /\ SizeOf(s[n + 2].entry) \in Nat
    BY <2>1 DEF Sized
  <2>7. CASE n + 1 < i
    BY <2>2, <2>3, <2>4, <2>5, <2>7
  <2>8. CASE n + 1 = i
    <3>1. c = SizeOf(s[n + 1].entry)
      BY <2>8
    <3> HIDE DEF c
    <3>2. g[n] = f[n] /\ r[n + 1] = s[n + 2]
      BY <2>2, <2>5, <2>8
    <3>3. g[n + 1] = f[n] + SizeOf(s[n + 2].entry)
      BY <2>3, <3>2
    <3>4. f[n + 2] = f[n] + c + SizeOf(s[n + 2].entry)
      BY <2>4, <3>1
    <3>5. PICK x, y, z \in Nat :
            x = f[n] /\ y = SizeOf(s[n + 2].entry) /\ z = c
      BY <1>7, <2>4, <2>6
    <3>6. g[n + 1] = x + y /\ f[n + 2] = x + z + y
      BY <3>3, <3>4, <3>5
    <3>7. g[n + 1] = f[n + 2] - z
      BY <3>6
    <3>8. QED
      BY <2>8, <3>5, <3>7
  <2>9. CASE n + 1 > i
    <3> HIDE DEF c
    <3>1. QED
      BY <1>7, <2>2, <2>3, <2>4, <2>5, <2>6, <2>9
  <2>10. QED
    BY <2>7, <2>8, <2>9
<1>10. T = Nat
  BY <1>8, <1>9, SetInduction
<1>11. g[Len(r)] = IF Len(r) < i THEN f[Len(r)] ELSE f[Len(r) + 1] - c
  BY <1>1, <1>10
<1>12. g[Len(r)] = f[Len(s)] - c
  <2>1. CASE Len(r) < i
    <3>1. i = Len(s) /\ Len(r) = i - 1 /\ Len(s) \in 1..Len(s)
      BY <1>1, <2>1
    <3>2. f[Len(s)] = f[Len(r)] + c /\ f[Len(r)] \in Nat
      BY <1>1, <1>5, <3>1
    <3> HIDE DEF c
    <3>3. QED
      BY <1>7, <1>11, <2>1, <3>2
  <2>2. CASE ~(Len(r) < i)
    BY <1>1, <1>11, <2>2
  <2>3. QED
    BY <2>1, <2>2
<1>13. QED
  BY <1>1, <1>2, <1>3, <1>4, <1>5, <1>12 DEF r

(* One node more counts its size more (memstore.go:97-99).                 *)
LEMMA TotalPrepend ==
  ASSUME NEW K, NEW E, NEW s \in Seq(Node(K, E)), Sized(s),
         NEW node \in Node(K, E), SizeOf(node.entry) \in Nat
  PROVE  /\ Sized(<<node>> \o s)
         /\ TotalSize(<<node>> \o s) = TotalSize(s) + SizeOf(node.entry)
         /\ TotalSize(s) \in Nat
<1> DEFINE p == <<node>> \o s
           c == SizeOf(node.entry)
<1>1. /\ Len(p) = Len(s) + 1 /\ Len(s) \in Nat /\ Len(p) \in Nat
      /\ \A j \in 1..Len(p) : p[j] = IF j = 1 THEN node ELSE s[j - 1]
  BY PrependSeq
<1> HIDE DEF p
<1>2. /\ 1 \in 1..Len(p) /\ p[1] = node
      /\ \A j \in 1..Len(s) : j + 1 \in 1..Len(p) /\ p[j + 1] = s[j]
  BY <1>1
<1>3. Sized(p)
  <2> SUFFICES ASSUME NEW j \in 1..Len(p)
               PROVE  SizeOf(p[j].entry) \in Nat
    BY DEF Sized
  <2>1. CASE j = 1
    BY <1>2, <2>1
  <2>2. CASE j # 1
    <3>1. j - 1 \in 1..Len(s) /\ p[j] = s[j - 1]
      BY <1>1, <2>2
    <3>2. QED
      BY <3>1 DEF Sized
  <2>3. QED
    BY <2>1, <2>2
<1>4. PICK f : IsSum(f, s) /\ TotalSize(s) = f[Len(s)]
  BY <1>1, TotalSum
<1>5. PICK g : IsSum(g, p) /\ TotalSize(p) = g[Len(p)]
  BY <1>1, TotalSum
<1>6. /\ f[0] = 0
      /\ \A n \in 0..Len(s) : f[n] \in Nat
      /\ \A n \in 1..Len(s) : f[n] = f[n - 1] + SizeOf(s[n].entry)
  BY <1>1, <1>4, SumStep
<1>7. /\ g[0] = 0
      /\ \A n \in 0..Len(p) : g[n] \in Nat
      /\ \A n \in 1..Len(p) : g[n] = g[n - 1] + SizeOf(p[n].entry)
  BY <1>1, <1>3, <1>5, SumStep
<1> DEFINE T == {n \in Nat : n <= Len(s) => g[n + 1] = f[n] + c}
<1> HIDE DEF c
<1>8. 0 \in T
  <2>1. g[1] = g[1 - 1] + c
    BY <1>2, <1>7 DEF c
  <2>2. QED
    BY <1>6, <1>7, <2>1
<1>9. ASSUME NEW n \in T
      PROVE  n + 1 \in T
  <2> SUFFICES ASSUME n + 1 <= Len(s)
               PROVE  g[n + 2] = f[n + 1] + c
    OBVIOUS
  <2>1. /\ n + 1 \in 1..Len(s) /\ n + 2 \in 1..Len(p) /\ n \in 0..Len(s)
        /\ n + 1 - 1 = n /\ n + 2 - 1 = n + 1 /\ n + 1 + 1 = n + 2
    BY <1>1
  <2>2. g[n + 1] = f[n] + c
    BY <2>1
  <2>3. g[n + 2] = g[n + 1] + SizeOf(s[n + 1].entry)
    BY <1>2, <1>7, <2>1
  <2>4. f[n + 1] = f[n] + SizeOf(s[n + 1].entry) /\ f[n] \in Nat
    BY <1>6, <2>1
  <2>5. SizeOf(s[n + 1].entry) \in Nat /\ c \in Nat
    BY <2>1 DEF Sized, c
  <2>6. QED
    BY <2>2, <2>3, <2>4, <2>5
<1>10. T = Nat
  BY <1>8, <1>9, SetInduction
<1>11. g[Len(p)] = f[Len(s)] + c
  BY <1>1, <1>10
<1>12. QED
  BY <1>1, <1>3, <1>4, <1>5, <1>6, <1>11 DEF p, c

LEMMA TotalPromote ==
  ASSUME NEW K, NEW E, NEW s \in Seq(Node(K, E)), Sized(s),
         NEW i \in 1..Len(s), NEW node \in Node(K, E),
         SizeOf(node.entry) \in Nat
  PROVE  TotalSize(Promote(s, i, node)) =
           TotalSize(s) - SizeOf(s[i].entry) + SizeOf(node.entry)
<1> DEFINE r == RemoveAt(s, i)
<1>1. r \in Seq(Node(K, E))
  BY RemoveAtSeq
<1>2. Sized(r) /\ TotalSize(r) = TotalSize(s) - SizeOf(s[i].entry)
  BY TotalRemove
<1> HIDE DEF r
<1>3. TotalSize(<<node>> \o r) = TotalSize(r) + SizeOf(node.entry)
  BY <1>1, <1>2, TotalPrepend
<1>4. QED
  BY <1>2, <1>3 DEF Promote, r

(* An empty list counts nothing.                                           *)
LEMMA TotalEmpty == TotalSize(<<>>) = 0
<1>1. Len(<<>>) = 0 /\ Len(<<>>) \in Nat
  OBVIOUS
<1>2. PICK f : IsSum(f, <<>>) /\ TotalSize(<<>>) = f[Len(<<>>)]
  BY <1>1, TotalSum
<1>3. QED
  BY <1>1, <1>2 DEF IsSum
-----------------------------------------------------------------------------
(* The order of the list is the order of the last uses.                    *)

(* The list is ordered by use, the latest first.                           *)
Recent(list, use) ==
  \A i, j \in 1..Len(list) : i < j => use[list[j].key] < use[list[i].key]

(* A removal keeps the order.                                              *)
LEMMA RecentRemove ==
  ASSUME NEW K, NEW E, NEW s \in Seq(Node(K, E)), NEW i \in 1..Len(s),
         NEW use, Recent(s, use)
  PROVE  Recent(RemoveAt(s, i), use)
<1> DEFINE r == RemoveAt(s, i)
           old(j) == IF j < i THEN j ELSE j + 1
<1>1. /\ Len(r) = Len(s) - 1 /\ Len(s) \in Nat
      /\ \A j \in 1..Len(r) : r[j] = IF j < i THEN s[j] ELSE s[j + 1]
  BY RemoveAtSeq
<1> HIDE DEF r
<1>2. \A j \in 1..Len(r) : old(j) \in 1..Len(s) /\ r[j] = s[old(j)]
  BY <1>1
<1>3. \A j, m \in 1..Len(r) : j < m => old(j) < old(m)
  BY <1>1
<1> HIDE DEF old
<1>4. Recent(r, use)
  BY <1>2, <1>3 DEF Recent
<1>5. QED
  BY <1>4 DEF r

(* A new node in front, used now, keeps the order.                         *)
LEMMA RecentPrepend ==
  ASSUME NEW K, NEW E, NEW s \in Seq(Node(K, E)), NEW node \in Node(K, E),
         node.key \notin KeysOf(s), NEW use \in [K -> Nat], Recent(s, use),
         NEW t \in Nat, \A k \in K : use[k] < t
  PROVE  Recent(<<node>> \o s, [use EXCEPT ![node.key] = t])
<1> DEFINE p == <<node>> \o s
           u == [use EXCEPT ![node.key] = t]
<1>1. /\ Len(p) = Len(s) + 1 /\ Len(s) \in Nat
      /\ \A j \in 1..Len(p) : p[j] = IF j = 1 THEN node ELSE s[j - 1]
  BY PrependSeq
<1> HIDE DEF p
<1>2. node.key \in K /\ u[node.key] = t
  BY DEF Node
<1>3. ASSUME NEW j \in 1..Len(s)
      PROVE  s[j].key \in K /\ u[s[j].key] = use[s[j].key]
  <2>1. s[j] \in Node(K, E)
    OBVIOUS
  <2>2. s[j].key \in K
    BY <2>1 DEF Node
  <2>3. s[j].key # node.key
    BY DEF KeysOf
  <2>4. QED
    BY <2>2, <2>3
<1> HIDE DEF u
<1>4. Recent(p, u)
  <2> SUFFICES ASSUME NEW i \in 1..Len(p), NEW j \in 1..Len(p), i < j
               PROVE  u[p[j].key] < u[p[i].key]
    BY DEF Recent
  <2>1. j # 1 /\ j - 1 \in 1..Len(s) /\ p[j] = s[j - 1]
    BY <1>1
  <2>2. CASE i = 1
    <3>1. p[i].key = node.key
      BY <1>1, <2>2
    <3>2. QED
      BY <1>2, <1>3, <2>1, <3>1
  <2>3. CASE i # 1
    <3>1. i - 1 \in 1..Len(s) /\ p[i] = s[i - 1] /\ i - 1 < j - 1
      BY <1>1, <2>3
    <3>2. use[s[j - 1].key] < use[s[i - 1].key]
      BY <2>1, <3>1 DEF Recent
    <3>3. QED
      BY <1>3, <2>1, <3>1, <3>2
  <2>4. QED
    BY <2>2, <2>3
<1>5. QED
  BY <1>4 DEF p, u

(* So does a node that is promoted and used now.                           *)
LEMMA RecentPromote ==
  ASSUME NEW K, NEW E, NEW s \in Seq(Node(K, E)), Distinct(s),
         NEW i \in 1..Len(s), NEW node \in Node(K, E), node.key = s[i].key,
         NEW use \in [K -> Nat], Recent(s, use),
         NEW t \in Nat, \A k \in K : use[k] < t
  PROVE  Recent(Promote(s, i, node), [use EXCEPT ![node.key] = t])
<1> DEFINE r == RemoveAt(s, i)
<1>1. r \in Seq(Node(K, E))
  BY RemoveAtSeq
<1>2. Recent(r, use)
  BY RecentRemove
<1>3. KeysOf(r) = Without(KeysOf(s), s[i].key)
  BY RemoveNodes
<1>4. node.key \notin KeysOf(r)
  BY <1>3 DEF Without
<1> HIDE DEF r
<1>5. Recent(<<node>> \o r, [use EXCEPT ![node.key] = t])
  BY <1>1, <1>2, <1>4, RecentPrepend
<1>6. QED
  BY <1>5 DEF Promote, r

-----------------------------------------------------------------------------
(* List, map, byte count and cap of a store together.                      *)
StoreOK(s) ==
  /\ Agrees(s, Keys, Entries)
  /\ WithinCap(s)
  /\ s.bytes = TotalSize(s.lru)

(* The operations keep the structure whole and the counter right.          *)
LEMMA SizedStore ==
  ASSUME NEW s, Agrees(s, Keys, Entries)
  PROVE  /\ Sized(s.lru)
         /\ s.lru \in Seq(Node(Keys, Entries))
         /\ Len(s.lru) \in Nat
<1>1. s.lru \in Seq(Node(Keys, Entries))
  BY DEF Agrees
<1>2. \A i \in 1..Len(s.lru) : s.lru[i] \in Node(Keys, Entries)
  BY <1>1
<1>3. \A i \in 1..Len(s.lru) : s.lru[i].entry \in Entries
  BY <1>2 DEF Node
<1>4. QED
  BY <1>1, <1>3, EntriesAssumption DEF Sized

(* removeLocked (memstore.go:111-117) keeps them.                          *)
LEMMA RemoveOK ==
  ASSUME NEW s, StoreOK(s), NEW i \in 1..Len(s.lru)
  PROVE  /\ StoreOK(RemoveLocked(s, i))
         /\ RemoveLocked(s, i).entries = Without(s.entries, s.lru[i].key)
         /\ NodesOf(RemoveLocked(s, i).lru) = Without(NodesOf(s.lru), s.lru[i])
         /\ RemoveLocked(s, i).lru = RemoveAt(s.lru, i)
<1> DEFINE r == RemoveLocked(s, i)
<1>1. Sized(s.lru) /\ s.lru \in Seq(Node(Keys, Entries)) /\ Len(s.lru) \in Nat
  BY SizedStore DEF StoreOK
<1>2. /\ Agrees(r, Keys, Entries)
      /\ Len(r.lru) = Len(s.lru) - 1
      /\ r.entries = Without(s.entries, s.lru[i].key)
      /\ NodesOf(r.lru) = Without(NodesOf(s.lru), s.lru[i])
  BY RemoveLockedAgrees DEF StoreOK
<1>3. WithinCap(r)
  BY <1>1, <1>2, ConfigAssumption DEF StoreOK, WithinCap
<1>4. TotalSize(RemoveAt(s.lru, i)) = TotalSize(s.lru) - SizeOf(s.lru[i].entry)
  BY <1>1, TotalRemove
<1>5. /\ r.lru = RemoveAt(s.lru, i)
      /\ r.bytes = s.bytes - SizeOf(s.lru[i].entry)
  BY DEF RemoveLocked
<1>6. r.bytes = TotalSize(r.lru)
  BY <1>4, <1>5 DEF StoreOK
<1>7. QED
  BY <1>2, <1>3, <1>5, <1>6 DEF StoreOK

(* Put keeps them: the bytes of a replaced entry go and those of the new   *)
(* one come, those of an evicted entry go with its node                    *)
(* (memstore.go:81-109).                                                   *)
LEMMA PutOK ==
  ASSUME NEW s, StoreOK(s), NEW k \in Keys, NEW e \in Entries
  PROVE  StoreOK(Put(s, k, e))
<1> DEFINE node == [key |-> k, entry |-> e]
           p == Put(s, k, e)
<1>1. Sized(s.lru) /\ s.lru \in Seq(Node(Keys, Entries)) /\ Len(s.lru) \in Nat
  BY SizedStore DEF StoreOK
<1>2. Agrees(p, Keys, Entries) /\ WithinCap(p)
  BY PutAgrees DEF StoreOK
<1>3. node \in Node(Keys, Entries) /\ SizeOf(node.entry) = SizeOf(e)
      /\ SizeOf(e) \in Nat
  BY EntriesAssumption DEF Node
<1>4. CASE k \in s.entries
  <2>1. PICK i \in 1..Len(s.lru) :
          i = Position(s, k) /\ s.lru[i].entry = EntryAt(s, k)
    <3>1. /\ Position(s, k) \in 1..Len(s.lru)
          /\ s.lru[Position(s, k)] = [key |-> k, entry |-> EntryAt(s, k)]
      BY <1>4, EntryAtNode DEF StoreOK
    <3>2. QED
      BY <3>1
  <2>2. /\ p.lru = Promote(s.lru, i, node)
        /\ p.bytes = s.bytes - SizeOf(EntryAt(s, k)) + SizeOf(e)
    BY <1>4, <2>1 DEF Put
  <2> HIDE DEF node, p
  <2>3. TotalSize(p.lru) =
          TotalSize(s.lru) - SizeOf(s.lru[i].entry) + SizeOf(e)
    BY <1>1, <1>3, <2>2, TotalPromote
  <2>4. p.bytes = TotalSize(p.lru)
    BY <2>1, <2>2, <2>3 DEF StoreOK
  <2>5. QED
    BY <1>2, <2>4 DEF StoreOK, p
<1>5. CASE k \notin s.entries
  <2> DEFINE q == Pushed(s, k, e)
  <2>1. q.lru = <<node>> \o s.lru /\ q.bytes = s.bytes + SizeOf(e)
    BY DEF Pushed
  <2>2. /\ q.lru \in Seq(Node(Keys, Entries))
        /\ Len(q.lru) = Len(s.lru) + 1
    BY <1>1, <1>3, <2>1, PrependSeq
  <2>3. /\ Sized(q.lru)
        /\ TotalSize(q.lru) = TotalSize(s.lru) + SizeOf(e)
        /\ TotalSize(s.lru) \in Nat
    BY <1>1, <1>3, <2>1, TotalPrepend
  <2>4. q.bytes = TotalSize(q.lru)
    BY <2>1, <2>3 DEF StoreOK
  <2>5. CASE Overflows(s)
    <3>1. p = RemoveLocked(q, Len(s.lru) + 1)
      BY <1>5, <2>5, PutNew DEF StoreOK
    <3>2. PICK m \in 1..Len(q.lru) : m = Len(s.lru) + 1
      BY <1>1, <2>2
    <3>3. /\ p.lru = RemoveAt(q.lru, m)
          /\ p.bytes = q.bytes - SizeOf(q.lru[m].entry)
      BY <3>1, <3>2 DEF RemoveLocked
    <3> HIDE DEF p, q
    <3>4. TotalSize(RemoveAt(q.lru, m)) =
            TotalSize(q.lru) - SizeOf(q.lru[m].entry)
      BY <2>2, <2>3, TotalRemove
    <3>5. p.bytes = TotalSize(p.lru)
      BY <2>4, <3>3, <3>4
    <3>6. QED
      BY <1>2, <3>5 DEF StoreOK, p
  <2>6. CASE ~Overflows(s)
    <3>1. p = q
      BY <1>5, <2>6, PutNew DEF StoreOK
    <3> HIDE DEF p, q
    <3>2. QED
      BY <1>2, <2>4, <3>1 DEF StoreOK, p
  <2>7. QED
    BY <2>5, <2>6
<1>6. QED
  BY <1>4, <1>5

(* A hit moves one node to the front and changes nothing else.             *)
LEMMA HitOK ==
  ASSUME NEW s, StoreOK(s), NEW t, NEW k \in Keys, Hits(s, k, t)
  PROVE  /\ StoreOK(AfterGet(s, k, t))
         /\ AfterGet(s, k, t).entries = s.entries
         /\ NodesOf(AfterGet(s, k, t).lru) = NodesOf(s.lru)
         /\ \E i \in 1..Len(s.lru) :
              /\ s.lru[i].key = k
              /\ AfterGet(s, k, t).lru = Promote(s.lru, i, s.lru[i])
<1> DEFINE a == AfterGet(s, k, t)
<1>1. Sized(s.lru) /\ s.lru \in Seq(Node(Keys, Entries)) /\ Len(s.lru) \in Nat
  BY SizedStore DEF StoreOK
<1>2. /\ Agrees(a, Keys, Entries)
      /\ Len(a.lru) = Len(s.lru)
      /\ a.entries = s.entries
      /\ a.bytes = s.bytes
      /\ NodesOf(a.lru) = NodesOf(s.lru)
  BY PromoteAgrees DEF StoreOK
<1>3. k \in s.entries /\ ~Expired(EntryAt(s, k), t)
  BY DEF Hits
<1>4. PICK i \in 1..Len(s.lru) : i = Position(s, k) /\ s.lru[i].key = k
  <2>1. /\ Position(s, k) \in 1..Len(s.lru)
        /\ s.lru[Position(s, k)] = [key |-> k, entry |-> EntryAt(s, k)]
    BY <1>3, EntryAtNode DEF StoreOK
  <2>2. QED
    BY <2>1
<1>5. a.lru = Promote(s.lru, i, s.lru[i])
  BY <1>3, <1>4 DEF AfterGet, StoreOK, Agrees
<1> HIDE DEF a
<1>6. PICK node \in Node(Keys, Entries) :
        node = s.lru[i] /\ SizeOf(node.entry) \in Nat
  BY <1>1 DEF Sized
<1>7. TotalSize(Promote(s.lru, i, node)) =
        TotalSize(s.lru) - SizeOf(s.lru[i].entry) + SizeOf(node.entry)
  BY <1>1, <1>6, TotalPromote
<1>8. TotalSize(s.lru) \in Nat
  BY <1>1, TotalRemove
<1>9. a.bytes = TotalSize(a.lru)
  BY <1>2, <1>5, <1>6, <1>7, <1>8 DEF StoreOK
<1>10. WithinCap(a)
  BY <1>2 DEF StoreOK, WithinCap
<1>11. QED
  BY <1>2, <1>4, <1>5, <1>9, <1>10 DEF StoreOK, a

(* The store NewMemStore makes.                                            *)
LEMMA EmptyOK ==
  StoreOK(Empty) /\ NodesOf(Empty.lru) = {} /\ Empty.entries = {}
  BY EmptyAgrees, TotalEmpty DEF StoreOK, Empty
-----------------------------------------------------------------------------
(* The inductive invariant. *)

TypeOK ==
  /\ now \in 0..MaxTime
  /\ uses \in Nat
  /\ lastUse \in [Keys -> Nat]
  /\ latest \in [Keys -> Entries \cup {Absent}]

(* The entry under a key is the one last put there.                        *)
LatestInv == \A n \in NodesOf(store.lru) : latest[n.key] = n.entry

RecencyInv ==
  /\ Recent(store.lru, lastUse)
  /\ \A k \in Keys : lastUse[k] < uses + 1

IInv == TypeOK /\ StoreOK(store) /\ LatestInv /\ RecencyInv

(* An empty store in which nothing was used.                               *)
LEMMA InitIInv == Init => IInv
<1> SUFFICES ASSUME Init
             PROVE  IInv
  OBVIOUS
<1>1. StoreOK(store) /\ NodesOf(store.lru) = {}
  BY EmptyOK DEF Init
<1>2. TypeOK
  BY EntriesAssumption DEF Init, TypeOK
<1>3. Recent(store.lru, lastUse)
  BY DEF Init, Empty, Recent
<1>4. QED
  BY <1>1, <1>2, <1>3 DEF IInv, LatestInv, RecencyInv, Init

(* What a node is made of.                                                 *)
LEMMA NodeTyped ==
  ASSUME NEW s, Agrees(s, Keys, Entries)
  PROVE  \A n \in NodesOf(s.lru) :
           /\ n.key \in Keys /\ n.key \in s.entries /\ n.entry \in Entries
           /\ n = [key |-> n.key, entry |-> n.entry]
<1>1. s.lru \in Seq(Node(Keys, Entries))
  BY DEF Agrees
<1>2. \A i \in 1..Len(s.lru) : s.lru[i] \in Node(Keys, Entries)
  BY <1>1
<1>3. NodesOf(s.lru) \subseteq Node(Keys, Entries)
  BY <1>2 DEF NodesOf
<1>4. QED
  BY <1>3, EntryAtNode DEF Node

(* The order after Put, whichever of its paths it takes.                   *)
LEMMA PutRecent ==
  ASSUME NEW s, StoreOK(s), NEW k \in Keys, NEW e \in Entries,
         NEW use \in [Keys -> Nat], Recent(s.lru, use),
         NEW t \in Nat, \A j \in Keys : use[j] < t
  PROVE  Recent(Put(s, k, e).lru, [use EXCEPT ![k] = t])
<1> DEFINE u == [use EXCEPT ![k] = t]
<1>1. PICK node \in Node(Keys, Entries) : node = [key |-> k, entry |-> e]
  BY DEF Node
<1>2. s.lru \in Seq(Node(Keys, Entries)) /\ Len(s.lru) \in Nat
      /\ s.entries = KeysOf(s.lru) /\ Distinct(s.lru)
  BY DEF StoreOK, Agrees
<1>3. CASE k \in s.entries
  <2>1. PICK i \in 1..Len(s.lru) : i = Position(s, k) /\ s.lru[i].key = k
    <3>1. /\ Position(s, k) \in 1..Len(s.lru)
          /\ s.lru[Position(s, k)] = [key |-> k, entry |-> EntryAt(s, k)]
      BY <1>3, EntryAtNode DEF StoreOK
    <3>2. QED
      BY <3>1
  <2>2. Put(s, k, e).lru = Promote(s.lru, i, node)
    BY <1>1, <1>3, <2>1 DEF Put
  <2>3. Recent(Promote(s.lru, i, node), [use EXCEPT ![node.key] = t])
    BY <1>1, <1>2, <2>1, RecentPromote
  <2>4. QED
    BY <1>1, <2>2, <2>3
<1>4. CASE k \notin s.entries
  <2> DEFINE q == Pushed(s, k, e)
  <2>1. q.lru = <<node>> \o s.lru
    BY <1>1 DEF Pushed
  <2>2. q.lru \in Seq(Node(Keys, Entries)) /\ Len(q.lru) = Len(s.lru) + 1
    BY <1>2, <2>1, PrependSeq
  <2>4. node.key = k /\ node.key \notin KeysOf(s.lru)
    BY <1>1, <1>2, <1>4
  <2>0. Recent(<<node>> \o s.lru, [use EXCEPT ![node.key] = t])
    BY <1>2, <2>4, RecentPrepend
  <2>3. Recent(q.lru, [use EXCEPT ![node.key] = t])
    <3> HIDE DEF q
    <3>1. QED
      BY <2>0, <2>1
  <2>5. CASE Overflows(s)
    <3>1. Put(s, k, e) = RemoveLocked(q, Len(s.lru) + 1)
      BY <1>4, <2>5, PutNew DEF StoreOK
    <3>2. PICK m \in 1..Len(q.lru) : m = Len(s.lru) + 1
      BY <1>2, <2>2
    <3>3. Put(s, k, e).lru = RemoveAt(q.lru, m)
      BY <3>1, <3>2 DEF RemoveLocked
    <3> HIDE DEF q, u
    <3>4. Recent(q.lru, u)
      BY <2>3, <2>4 DEF u
    <3>5. Recent(RemoveAt(q.lru, m), u)
      BY <2>2, <3>4, RecentRemove
    <3>6. QED
      BY <3>3, <3>5 DEF u
  <2>6. CASE ~Overflows(s)
    <3>1. Put(s, k, e) = q
      BY <1>4, <2>6, PutNew DEF StoreOK
    <3>2. QED
      BY <2>3, <2>4, <3>1
  <2>7. QED
    BY <2>5, <2>6
<1>5. QED
  BY <1>3, <1>4

(* Every call keeps the invariant; so does the clock.                      *)
LEMMA Step == IInv /\ [Next]_vars => IInv'
<1> SUFFICES ASSUME IInv, [Next]_vars
             PROVE  IInv'
  OBVIOUS
<1>0. /\ TypeOK /\ StoreOK(store) /\ LatestInv /\ RecencyInv
      /\ Agrees(store, Keys, Entries) /\ WithinCap(store)
      /\ store.lru \in Seq(Node(Keys, Entries))
  BY DEF IInv, StoreOK, Agrees
<1>1. ASSUME NEW k \in Keys, NEW v \in Values, NEW at \in 0..now,
             PutEntry(k, v, at)
      PROVE  IInv'
  <2>0. at \in 0..MaxTime
    BY <1>0, EntriesAssumption DEF TypeOK
  <2>1. PICK e \in Entries : e = [val |-> v, at |-> at]
    BY <2>0 DEF Entries
  <2>2. /\ uses' = uses + 1 /\ lastUse' = [lastUse EXCEPT ![k] = uses + 1]
        /\ store' = Put(store, k, e)
        /\ latest' = [latest EXCEPT ![k] = e]
        /\ UNCHANGED <<now, reply>>
    BY <1>1, <2>1 DEF PutEntry, Use
  <2>3. TypeOK'
    BY <1>0, <2>2 DEF TypeOK
  <2>4. StoreOK(store')
    BY <1>0, <2>2, PutOK
  <2>5. LatestInv'
    <3>1. NodesOf(store'.lru) \subseteq
            NodesOf(store.lru) \cup {[key |-> k, entry |-> e]}
      BY <1>0, <2>2, PutAgrees
    <3>2. \A n \in NodesOf(store.lru) : n.key \in Keys
      BY <1>0, NodeTyped
    <3>3. /\ Agrees(store', Keys, Entries)
          /\ [key |-> k, entry |-> e] \in NodesOf(store'.lru)
      <4>1. CASE k \in store.entries
        <5>1. /\ Agrees(store', Keys, Entries)
              /\ NodesOf(store'.lru) =
                   With(Without(NodesOf(store.lru),
                                [key |-> k, entry |-> EntryAt(store, k)]),
                        [key |-> k, entry |-> e])
          BY <1>0, <2>2, <4>1, ReplaceAgrees
        <5>2. QED
          BY <5>1 DEF With
      <4>2. CASE k \notin store.entries
        <5>1. PICK n, last : /\ n = [key |-> k, entry |-> e]
                             /\ last = store.lru[Len(store.lru)]
          OBVIOUS
        <5>2. /\ Agrees(store', Keys, Entries)
              /\ \/ NodesOf(store'.lru) =
                      With(Without(NodesOf(store.lru), last), n)
                 \/ NodesOf(store'.lru) = With(NodesOf(store.lru), n)
          BY <1>0, <2>2, <4>2, <5>1, InsertAgrees
        <5>3. QED
          BY <5>1, <5>2 DEF With
      <4>3. QED
        BY <4>1, <4>2
    <3>4. ASSUME NEW n \in NodesOf(store'.lru)
          PROVE  latest'[n.key] = n.entry
      <4>1. CASE n.key = k
        <5>1. EntryAt(store', k) = e /\ EntryAt(store', n.key) = n.entry
          BY <3>3, EntryAtNode
        <5>2. QED
          BY <1>0, <2>2, <4>1, <5>1 DEF TypeOK
      <4>2. CASE n.key # k
        <5>1. n \in NodesOf(store.lru)
          BY <3>1, <4>2
        <5>2. QED
          BY <1>0, <2>2, <3>2, <4>2, <5>1 DEF TypeOK, LatestInv
      <4>3. QED
        BY <4>1, <4>2
    <3>5. QED
      BY <3>4 DEF LatestInv
  <2>6. RecencyInv'
    <3>0. PICK t \in Nat : t = uses + 1 /\ \A j \in Keys : lastUse[j] < t
      BY <1>0 DEF TypeOK, RecencyInv
    <3>1. Recent(Put(store, k, e).lru, [lastUse EXCEPT ![k] = t])
      BY <1>0, <3>0, PutRecent DEF TypeOK, RecencyInv
    <3>2. \A j \in Keys : lastUse'[j] < uses + 2
      BY <1>0, <2>2 DEF TypeOK, RecencyInv
    <3>3. QED
      BY <1>0, <2>2, <3>0, <3>1, <3>2 DEF RecencyInv, TypeOK
  <2>7. QED
    BY <2>3, <2>4, <2>5, <2>6 DEF IInv
<1>2. ASSUME NEW k \in Keys, GetHit(k)
      PROVE  IInv'
  <2>1. /\ Hits(store, k, now)
        /\ uses' = uses + 1 /\ lastUse' = [lastUse EXCEPT ![k] = uses + 1]
        /\ store' = AfterGet(store, k, now)
        /\ UNCHANGED <<now, latest>>
    BY <1>2 DEF GetHit, Use
  <2>2. /\ StoreOK(store')
        /\ NodesOf(store'.lru) = NodesOf(store.lru)
    BY <1>0, <2>1, HitOK
  <2>3. PICK i \in 1..Len(store.lru) :
          /\ store.lru[i].key = k
          /\ store'.lru = Promote(store.lru, i, store.lru[i])
    BY <1>0, <2>1, HitOK
  <2>4. PICK node \in Node(Keys, Entries) : node = store.lru[i]
    BY <1>0
  <2>9. PICK t \in Nat : t = uses + 1 /\ \A j \in Keys : lastUse[j] < t
    BY <1>0 DEF TypeOK, RecencyInv
  <2>5. Recent(Promote(store.lru, i, node), [lastUse EXCEPT ![node.key] = t])
    <3>1. Distinct(store.lru) /\ node.key = store.lru[i].key
      BY <1>0, <2>4 DEF Agrees
    <3>2. QED
      BY <1>0, <2>9, <3>1, RecentPromote DEF TypeOK, RecencyInv
  <2>6. RecencyInv'
    <3>1. \A j \in Keys : lastUse'[j] < uses + 2
      BY <1>0, <2>1 DEF TypeOK, RecencyInv
    <3>2. /\ store'.lru = Promote(store.lru, i, node) /\ node.key = k
          /\ lastUse' = [lastUse EXCEPT ![k] = t] /\ uses' + 1 = uses + 2
      BY <1>0, <2>1, <2>3, <2>4, <2>9 DEF TypeOK
    <3>3. Recent(store'.lru, lastUse')
      BY <2>5, <3>2
    <3>4. QED
      BY <3>1, <3>2, <3>3 DEF RecencyInv
  <2>7. (TypeOK /\ LatestInv)'
    BY <1>0, <2>1, <2>2 DEF TypeOK, LatestInv
  <2>8. QED
    BY <2>2, <2>6, <2>7 DEF IInv
<1>3. ASSUME NEW k \in Keys,
             UNCHANGED <<now, uses, lastUse>>,
             latest' = latest \/ latest' = [latest EXCEPT ![k] = Absent],
             \/ store' = store /\ (latest' = latest \/ k \notin store.entries)
             \/ /\ k \in store.entries
                /\ store' = RemoveLocked(store, Position(store, k))
      PROVE  IInv'
  <2>1. TypeOK'
    BY <1>0, <1>3 DEF TypeOK
  <2>2. \A n \in NodesOf(store.lru) : n.key \in Keys /\ n.key \in store.entries
    BY <1>0, NodeTyped
  <2>3. CASE store' = store /\ (latest' = latest \/ k \notin store.entries)
    <3>1. LatestInv'
      BY <1>0, <1>3, <2>2, <2>3 DEF TypeOK, LatestInv
    <3>2. QED
      BY <1>0, <1>3, <2>1, <2>3, <3>1 DEF IInv, RecencyInv
  <2>4. CASE /\ k \in store.entries
             /\ store' = RemoveLocked(store, Position(store, k))
    <3>1. PICK i \in 1..Len(store.lru) :
            i = Position(store, k) /\ store.lru[i].key = k
      <4>1. /\ Position(store, k) \in 1..Len(store.lru)
            /\ store.lru[Position(store, k)] =
                 [key |-> k, entry |-> EntryAt(store, k)]
        BY <1>0, <2>4, EntryAtNode
      <4>2. QED
        BY <4>1
    <3>2. /\ StoreOK(store')
          /\ store'.entries = Without(store.entries, k)
          /\ NodesOf(store'.lru) = Without(NodesOf(store.lru), store.lru[i])
          /\ store'.lru = RemoveAt(store.lru, i)
      BY <1>0, <2>4, <3>1, RemoveOK
    <3>3. \A n \in NodesOf(store'.lru) :
            n \in NodesOf(store.lru) /\ n.key # k
      <4>1. \A n \in NodesOf(store'.lru) : n.key \in store'.entries
        BY <3>2, NodeTyped DEF StoreOK
      <4>2. QED
        BY <3>2, <4>1 DEF Without
    <3>4. LatestInv'
      BY <1>0, <1>3, <2>2, <3>3 DEF TypeOK, LatestInv
    <3>5. Recent(store'.lru, lastUse)
      BY <1>0, <3>2, RecentRemove DEF RecencyInv
    <3>6. QED
      BY <1>0, <1>3, <2>1, <3>2, <3>4, <3>5 DEF IInv, RecencyInv
  <2>5. QED
    BY <1>3, <2>3, <2>4
<1>4. ASSUME NEW k \in Keys, GetMiss(k)
      PROVE  IInv'
  BY <1>3, <1>4 DEF GetMiss, AfterGet, Hits
<1>5. ASSUME NEW k \in Keys, DeleteKey(k)
      PROVE  IInv'
  BY <1>3, <1>5 DEF DeleteKey, Delete
<1>6. CASE Clear
  <2>1. /\ store' = Empty /\ latest' = [k \in Keys |-> Absent]
        /\ UNCHANGED <<now, reply, uses, lastUse>>
    BY <1>6 DEF Clear
  <2>2. StoreOK(store') /\ NodesOf(store'.lru) = {}
    BY <2>1, EmptyOK
  <2>3. Recent(store'.lru, lastUse)
    BY <2>1 DEF Empty, Recent
  <2>4. QED
    BY <1>0, <2>1, <2>2, <2>3 DEF IInv, TypeOK, LatestInv, RecencyInv
<1>7. CASE Tick
  BY <1>0, <1>7, EntriesAssumption
     DEF Tick, IInv, TypeOK, LatestInv, RecencyInv
<1>8. CASE UNCHANGED vars
  BY <1>0, <1>8 DEF vars, IInv, TypeOK, LatestInv, RecencyInv
<1>9. QED
  BY <1>1, <1>2, <1>4, <1>5, <1>6, <1>7, <1>8 DEF Next

(* The invariant of the store behind its mutex (memstore.go:56-142).       *)
THEOREM SpecIInv == Spec => []IInv
  BY InitIInv, Step, PTL DEF Spec
-----------------------------------------------------------------------------
(* There are as many keys in the map as nodes in the list.                 *)
LEMMA CountKeys ==
  ASSUME NEW s, Agrees(s, Keys, Entries)
  PROVE  /\ s.entries = {s.lru[i].key : i \in DOMAIN s.lru}
         /\ IsFiniteSet(s.entries)
         /\ Cardinality(s.entries) = Len(s.lru)
<1> DEFINE n == Len(s.lru)
           f == [i \in 1..n |-> s.lru[i].key]
<1>1. /\ s.lru \in Seq(Node(Keys, Entries)) /\ n \in Nat
      /\ s.entries = KeysOf(s.lru) /\ Distinct(s.lru)
      /\ DOMAIN s.lru = 1..n
  BY DEF Agrees
<1>2. f \in Bijection(1..n, s.entries)
  BY <1>1 DEF Bijection, Injection, Surjection, IsInjective, KeysOf, Distinct
<1>3. IsFiniteSet(1..n) /\ Cardinality(1..n) = n
  BY <1>1, FS_Interval
<1>4. ExistsBijection(1..n, s.entries)
  BY <1>2 DEF ExistsBijection
<1>5. IsFiniteSet(s.entries) /\ Cardinality(s.entries) = n
  BY <1>3, <1>4, FS_Bijection
<1>6. QED
  BY <1>1, <1>5 DEF KeysOf

(* However calls, expiries and evictions follow each other, the map and    *)
(* the list hold the same keys, each once, the byte count is that of the   *)
(* entries, and the cap holds (memstore.go:66-69, 88-117).                 *)
THEOREM SpecMapListAndBytesAgree == Spec => []MapListAndBytesAgree
<1>1. IInv => MapListAndBytesAgree
  BY CountKeys DEF IInv, StoreOK, MapListAndBytesAgree, Listed
<1>2. QED
  BY <1>1, SpecIInv, PTL

(* What a full store drops for a new key is the entry whose last use is    *)
(* oldest (memstore.go:101-108).                                           *)
THEOREM SpecEvictsLeastRecent == Spec => EvictsLeastRecent
<1> DEFINE A ==
      \A k \in Keys :
        lastUse'[k] # lastUse[k] =>
          \A gone \in store.entries \ store'.entries,
             kept \in store'.entries \ {k} :
            lastUse[gone] < lastUse[kept]
<1>1. IInv /\ [Next]_vars => A
  <2> SUFFICES ASSUME IInv, [Next]_vars, NEW j \in Keys,
                      lastUse'[j] # lastUse[j],
                      NEW gone \in store.entries, gone \notin store'.entries,
                      NEW kept \in store'.entries, kept # j
               PROVE  lastUse[gone] < lastUse[kept]
    OBVIOUS
  <2>0. /\ TypeOK /\ StoreOK(store) /\ RecencyInv
        /\ Agrees(store, Keys, Entries) /\ WithinCap(store)
    BY DEF IInv, StoreOK
  <2>1. \A k \in Keys : ~GetMiss(k) /\ ~DeleteKey(k)
    BY DEF GetMiss, DeleteKey
  <2>2. ~Clear /\ ~Tick /\ ~UNCHANGED vars
    BY DEF Clear, Tick, vars
  <2>3. ASSUME NEW k \in Keys, GetHit(k)
        PROVE  FALSE
    BY <2>0, <2>3, HitOK DEF GetHit
  <2>4. ASSUME NEW k \in Keys, NEW v \in Values, NEW at \in 0..now,
               PutEntry(k, v, at)
        PROVE  lastUse[gone] < lastUse[kept]
    <3>1. at \in 0..MaxTime
      BY <2>0, EntriesAssumption DEF TypeOK
    <3>2. PICK e \in Entries : e = [val |-> v, at |-> at]
      BY <3>1 DEF Entries
    <3>3. j = k /\ store' = Put(store, k, e)
      BY <2>0, <2>4, <3>2 DEF PutEntry, Use, TypeOK
    <3>4. k \notin store.entries
      <4>1. ASSUME k \in store.entries
            PROVE  Put(store, k, e).entries = store.entries
        BY <4>1 DEF Put
      <4>2. QED
        BY <3>3, <4>1
    <3>5. PICK n, last : /\ n = [key |-> k, entry |-> e]
                         /\ last = store.lru[Len(store.lru)]
      OBVIOUS
    <3>6. Overflows(store)
      <4>1. ~Overflows(store) => Put(store, k, e) = Pushed(store, k, e)
        BY <2>0, <3>4, <3>5, InsertAgrees
      <4>2. Pushed(store, k, e).entries = store.entries \cup {k}
        BY DEF Pushed
      <4>3. QED
        BY <3>3, <4>1, <4>2
    <3>7. /\ store.lru # <<>>
          /\ store'.entries = With(Without(store.entries, last.key), k)
      BY <2>0, <3>3, <3>4, <3>5, <3>6, InsertAgrees
    <3>8. gone = last.key /\ kept \in store.entries /\ kept # last.key
      BY <3>3, <3>7 DEF With, Without
    <3>9. /\ store.lru \in Seq(Node(Keys, Entries))
          /\ store.entries = KeysOf(store.lru)
      BY <2>0 DEF Agrees
    <3>10. PICK i \in 1..Len(store.lru) : kept = store.lru[i].key
      BY <3>8, <3>9 DEF KeysOf
    <3>11. i < Len(store.lru) /\ Len(store.lru) \in 1..Len(store.lru)
      BY <3>5, <3>7, <3>8, <3>9, <3>10
    <3>12. QED
      BY <2>0, <3>5, <3>8, <3>10, <3>11 DEF RecencyInv, Recent
  <2>5. QED
    BY <2>1, <2>2, <2>3, <2>4 DEF Next
<1>2. QED
  BY <1>1, SpecIInv, PTL DEF Spec, EvictsLeastRecent
-----------------------------------------------------------------------------
(* The refinement of the contract. *)

(* The map from keys to entries a caller of the store sees.                *)
Content(s) ==
  [k \in Keys |-> IF k \in s.entries THEN EntryAt(s, k) ELSE Absent]

(* That map and the nodes of the list say the same.                        *)
LEMMA ContentNodes ==
  ASSUME NEW s, Agrees(s, Keys, Entries)
  PROVE  /\ Content(s) \in [Keys -> Entries \cup {Absent}]
         /\ \A k \in Keys : k \in s.entries <=> Content(s)[k] # Absent
         /\ \A k \in s.entries :
              [key |-> k, entry |-> Content(s)[k]] \in NodesOf(s.lru)
         /\ \A n \in NodesOf(s.lru) :
              n.key \in s.entries /\ Content(s)[n.key] = n.entry
         /\ s.entries \subseteq Keys
<1>1. s.entries \subseteq Keys
  <2>1. \A i \in 1..Len(s.lru) : s.lru[i] \in Node(Keys, Entries)
    BY DEF Agrees
  <2>2. QED
    BY <2>1 DEF Agrees, KeysOf, Node
<1>2. \A k \in s.entries :
        /\ EntryAt(s, k) \in Entries
        /\ [key |-> k, entry |-> EntryAt(s, k)] \in NodesOf(s.lru)
  BY EntryAtNode DEF NodesOf
<1>3. \A k \in Keys :
        Content(s)[k] = IF k \in s.entries THEN EntryAt(s, k) ELSE Absent
  BY DEF Content
<1>4. Content(s) \in [Keys -> Entries \cup {Absent}]
  BY <1>2 DEF Content
<1>5. \A k \in Keys : k \in s.entries <=> Content(s)[k] # Absent
  BY <1>2, <1>3, EntriesAssumption
<1>6. \A k \in s.entries :
        [key |-> k, entry |-> Content(s)[k]] \in NodesOf(s.lru)
  BY <1>1, <1>2, <1>3
<1>7. \A n \in NodesOf(s.lru) :
        n.key \in s.entries /\ Content(s)[n.key] = n.entry
  BY <1>1, <1>3, EntryAtNode
<1>8. QED
  BY <1>1, <1>4, <1>5, <1>6, <1>7

(* A removal makes one key absent.                                         *)
LEMMA RemoveContent ==
  ASSUME NEW s, StoreOK(s), NEW k \in s.entries
  PROVE  Content(RemoveLocked(s, Position(s, k))) =
           [Content(s) EXCEPT ![k] = Absent]
<1>0. Agrees(s, Keys, Entries)
  BY DEF StoreOK
<1>1. PICK i \in 1..Len(s.lru) : i = Position(s, k) /\ s.lru[i].key = k
  <2>1. /\ Position(s, k) \in 1..Len(s.lru)
        /\ s.lru[Position(s, k)] = [key |-> k, entry |-> EntryAt(s, k)]
    BY <1>0, EntryAtNode
  <2>2. QED
    BY <2>1
<1>2. PICK r : r = RemoveLocked(s, i)
  OBVIOUS
<1>3. /\ Agrees(r, Keys, Entries)
      /\ r.entries = Without(s.entries, k)
      /\ NodesOf(r.lru) = Without(NodesOf(s.lru), s.lru[i])
  BY <1>1, <1>2, RemoveOK DEF StoreOK
<1>4. ASSUME NEW j \in Keys
      PROVE  Content(r)[j] = IF j = k THEN Absent ELSE Content(s)[j]
  <2>1. CASE j \notin r.entries
    BY <1>0, <1>3, <2>1 DEF Content, Without
  <2>2. CASE j \in r.entries
    <3>1. j # k /\ j \in s.entries
      BY <1>3, <2>2 DEF Without
    <3>2. PICK n \in NodesOf(r.lru) : n = [key |-> j, entry |-> Content(r)[j]]
      BY <1>3, <2>2, ContentNodes
    <3>3. n \in NodesOf(s.lru)
      BY <1>3, <3>2 DEF Without
    <3>4. Content(s)[n.key] = n.entry
      BY <1>0, <3>3, ContentNodes
    <3>5. QED
      BY <3>1, <3>2, <3>4
  <2>3. QED
    BY <2>1, <2>2
<1>5. /\ Content(s) \in [Keys -> Entries \cup {Absent}]
      /\ Content(r) \in [Keys -> Entries \cup {Absent}]
  BY <1>0, <1>3, ContentNodes
<1>6. Content(r) = [Content(s) EXCEPT ![k] = Absent]
  BY <1>4, <1>5
<1>7. QED
  BY <1>1, <1>2, <1>6

(* Stores with the same nodes hold the same.                               *)
LEMMA SameContent ==
  ASSUME NEW s, Agrees(s, Keys, Entries), NEW t, Agrees(t, Keys, Entries),
         t.entries = s.entries, NodesOf(t.lru) = NodesOf(s.lru)
  PROVE  Content(t) = Content(s)
<1>1. ASSUME NEW j \in Keys
      PROVE  Content(t)[j] = Content(s)[j]
  <2>1. CASE j \notin s.entries
    BY <2>1 DEF Content
  <2>2. CASE j \in s.entries
    <3>1. PICK n \in NodesOf(s.lru) : n = [key |-> j, entry |-> Content(s)[j]]
      BY <2>2, ContentNodes
    <3>2. Content(t)[n.key] = n.entry
      BY <3>1, ContentNodes
    <3>3. QED
      BY <3>1, <3>2
  <2>3. QED
    BY <2>1, <2>2
<1>2. /\ Content(s) \in [Keys -> Entries \cup {Absent}]
      /\ Content(t) \in [Keys -> Entries \cup {Absent}]
  BY ContentNodes
<1>3. QED
  BY <1>1, <1>2

(* A Put sets its key; another key keeps its entry or loses it, and loses  *)
(* it only when the store is full.                                         *)
LEMMA PutContent ==
  ASSUME NEW s, StoreOK(s), NEW k \in Keys, NEW e \in Entries,
         NEW p, p = Put(s, k, e)
  PROVE  /\ Content(p)[k] = e
         /\ \A j \in Keys \ {k} : Content(p)[j] \in {Content(s)[j], Absent}
         /\ \/ Content(p) = [Content(s) EXCEPT ![k] = e]
            \/ Cardinality(p.entries) = MaxEntries
         /\ MaxEntries > 0 => Cardinality(p.entries) <= MaxEntries
<1>0. Agrees(s, Keys, Entries) /\ WithinCap(s)
  BY DEF StoreOK
<1>1. PICK n, last : /\ n = [key |-> k, entry |-> e]
                     /\ last = s.lru[Len(s.lru)]
  OBVIOUS
<1>2. Agrees(p, Keys, Entries) /\ WithinCap(p)
  BY <1>0, PutAgrees
<1>3. Cardinality(p.entries) = Len(p.lru)
  BY <1>2, CountKeys
<1>4. \/ /\ p.entries = With(s.entries, k)
         /\ n \in NodesOf(p.lru)
         /\ \A m \in NodesOf(s.lru) : m.key # k => m \in NodesOf(p.lru)
      \/ /\ Cardinality(p.entries) = MaxEntries
         /\ p.entries \subseteq With(s.entries, k)
         /\ n \in NodesOf(p.lru)
         /\ \A m \in NodesOf(p.lru) : m = n \/ m \in NodesOf(s.lru)
  <2>1. CASE k \in s.entries
    <3>1. PICK o : o = [key |-> k, entry |-> EntryAt(s, k)]
      OBVIOUS
    <3>2. /\ p.entries = s.entries
          /\ NodesOf(p.lru) = With(Without(NodesOf(s.lru), o), n)
      BY <1>0, <1>1, <2>1, <3>1, ReplaceAgrees
    <3>3. QED
      BY <2>1, <3>1, <3>2 DEF With, Without
  <2>2. CASE k \notin s.entries /\ Overflows(s)
    <3>1. /\ Len(p.lru) = Len(s.lru)
          /\ p.entries = With(Without(s.entries, last.key), k)
          /\ NodesOf(p.lru) = With(Without(NodesOf(s.lru), last), n)
      BY <1>0, <1>1, <2>2, InsertAgrees
    <3>2. Cardinality(p.entries) = MaxEntries
      BY <1>3, <2>2, <3>1 DEF Overflows
    <3>3. QED
      BY <3>1, <3>2 DEF With, Without
  <2>3. CASE k \notin s.entries /\ ~Overflows(s)
    <3>1. /\ p = Pushed(s, k, e)
          /\ NodesOf(p.lru) = With(NodesOf(s.lru), n)
      BY <1>0, <1>1, <2>3, InsertAgrees
    <3>2. p.entries = With(s.entries, k)
      BY <3>1 DEF Pushed, With
    <3>3. QED
      BY <3>1, <3>2 DEF With
  <2>4. QED
    BY <2>1, <2>2, <2>3
<1>5. n \in NodesOf(p.lru)
  BY <1>4
<1>6. Content(p)[k] = e
  BY <1>1, <1>2, <1>5, ContentNodes
<1>7. ASSUME NEW j \in Keys, j # k
      PROVE  Content(p)[j] \in {Content(s)[j], Absent}
  <2>1. CASE j \notin p.entries
    BY <2>1 DEF Content
  <2>2. CASE j \in p.entries
    <3>1. j \in s.entries
      BY <1>4, <1>7, <2>2 DEF With
    <3>2. PICK a \in NodesOf(s.lru), b \in NodesOf(p.lru) :
            /\ a = [key |-> j, entry |-> Content(s)[j]]
            /\ b = [key |-> j, entry |-> Content(p)[j]]
      BY <1>0, <1>2, <2>2, <3>1, ContentNodes
    <3>3. a \in NodesOf(p.lru) \/ b \in NodesOf(s.lru)
      BY <1>1, <1>4, <1>7, <3>2
    <3>4. CASE a \in NodesOf(p.lru)
      <4>1. Content(p)[a.key] = a.entry
        BY <1>2, <3>4, ContentNodes
      <4>2. QED
        BY <3>2, <4>1
    <3>5. CASE b \in NodesOf(s.lru)
      <4>1. Content(s)[b.key] = b.entry
        BY <1>0, <3>5, ContentNodes
      <4>2. QED
        BY <3>2, <4>1
    <3>6. QED
      BY <3>3, <3>4, <3>5
  <2>3. QED
    BY <2>1, <2>2
<1>8. ASSUME Cardinality(p.entries) # MaxEntries
      PROVE  Content(p) = [Content(s) EXCEPT ![k] = e]
  <2>1. p.entries = With(s.entries, k)
    BY <1>4, <1>8
  <2>2. ASSUME NEW j \in Keys, j # k
        PROVE  Content(p)[j] = Content(s)[j]
    <3>1. CASE j \in s.entries
      <4>1. j \in p.entries
        BY <2>1, <3>1 DEF With
      <4>2. Content(p)[j] # Absent
        BY <1>2, <4>1, ContentNodes
      <4>3. QED
        BY <1>7, <2>2, <4>2
    <3>2. CASE j \notin s.entries
      BY <2>1, <2>2, <3>2 DEF With, Content
    <3>3. QED
      BY <3>1, <3>2
  <2>3. /\ Content(s) \in [Keys -> Entries \cup {Absent}]
        /\ Content(p) \in [Keys -> Entries \cup {Absent}]
    BY <1>0, <1>2, ContentNodes
  <2>4. QED
    BY <1>6, <2>2, <2>3
<1>9. QED
  BY <1>2, <1>3, <1>6, <1>7, <1>8 DEF WithinCap

(* The contract counts as the store does.                                  *)
LEMMA SameCardinality ==
  \A S : Contract!Cardinality(S) = Cardinality(S)
  BY DEF Cardinality, Contract!Cardinality

(* Every step of the store is one its contract allows, or none.            *)
LEMMA StepContract == IInv /\ IInv' /\ [Next]_vars =>
                        [Contract!Next]_(Contract!avars)
<1> SUFFICES ASSUME IInv, IInv', [Next]_vars
             PROVE  [Contract!Next]_(Contract!avars)
  OBVIOUS
<1> DEFINE c == Content(store)
           d == Content(store')
<1>0. /\ TypeOK /\ StoreOK(store) /\ StoreOK(store')
      /\ Agrees(store, Keys, Entries) /\ Agrees(store', Keys, Entries)
      /\ LatestInv
      /\ c \in [Keys -> Entries \cup {Absent}]
      /\ d \in [Keys -> Entries \cup {Absent}]
  BY ContentNodes DEF IInv, StoreOK
<1>1. /\ c = [k \in Keys |-> IF k \in store.entries THEN EntryAt(store, k)
                                                    ELSE Absent]
      /\ d = [k \in Keys |-> IF k \in store'.entries THEN EntryAt(store', k)
                                                     ELSE Absent]
  BY DEF Content
<1>2. ASSUME NEW k \in Keys, NEW v \in Values, NEW at \in 0..now,
             PutEntry(k, v, at)
      PROVE  Contract!Next
  <2>1. at \in 0..MaxTime
    BY <1>0, EntriesAssumption DEF TypeOK
  <2>2. PICK e \in Entries : e = [val |-> v, at |-> at]
    BY <2>1 DEF Entries
  <2>3. /\ store' = Put(store, k, e)
        /\ latest' = [latest EXCEPT ![k] = e]
        /\ UNCHANGED reply
    BY <1>2, <2>2 DEF PutEntry
  <2>4. /\ d[k] = e
        /\ \A j \in Keys \ {k} : d[j] \in {c[j], Absent}
        /\ \/ d = [c EXCEPT ![k] = e]
           \/ Cardinality(store'.entries) = MaxEntries
        /\ MaxEntries > 0 => Cardinality(store'.entries) <= MaxEntries
    BY <1>0, <2>3, PutContent
  <2>5. {j \in Keys : d[j] # Absent} = store'.entries
    BY <1>0, ContentNodes
  <2> HIDE DEF c, d
  <2>6. Contract!Put(k, e)
    <3>1. Contract!Held(d) = store'.entries
      BY <2>5 DEF Contract!Held
    <3>2. QED
      BY <1>0, <1>1, <2>3, <2>4, <3>1, SameCardinality DEF Contract!Put
  <2>7. QED
    BY <2>6 DEF Contract!Next
<1>3. ASSUME NEW k \in Keys, GetHit(k)
      PROVE  Contract!Next
  <2>1. /\ k \in store.entries /\ Hits(store, k, now)
        /\ reply' = EntryAt(store, k)
        /\ store' = AfterGet(store, k, now)
        /\ latest' = latest
    BY <1>3 DEF GetHit, Hits
  <2>2. d = c
    BY <1>0, <2>1, HitOK, SameContent
  <2>3. PICK n \in NodesOf(store.lru) :
          n = [key |-> k, entry |-> EntryAt(store, k)]
    <3>1. /\ Position(store, k) \in 1..Len(store.lru)
          /\ store.lru[Position(store, k)] =
               [key |-> k, entry |-> EntryAt(store, k)]
      BY <1>0, <2>1, EntryAtNode
    <3>2. QED
      BY <3>1 DEF NodesOf
  <2>4. latest[k] = EntryAt(store, k)
    BY <1>0, <2>3 DEF LatestInv
  <2>5. c[k] # Absent
    BY <1>0, <2>1, ContentNodes
  <2> HIDE DEF c, d
  <2>6. Contract!Hit(k)
    BY <1>1, <2>1, <2>2, <2>4, <2>5 DEF Contract!Hit
  <2>7. QED
    BY <2>6 DEF Contract!Next
<1>4. ASSUME NEW k \in Keys,
             \/ store' = store /\ k \notin store.entries
             \/ /\ k \in store.entries
                /\ store' = RemoveLocked(store, Position(store, k))
      PROVE  d = [c EXCEPT ![k] = Absent]
  <2>1. CASE store' = store /\ k \notin store.entries
    <3>1. d = c /\ c[k] = Absent
      BY <2>1 DEF Content
    <3> HIDE DEF c, d
    <3>2. QED
      BY <1>0, <3>1
  <2>2. CASE /\ k \in store.entries
             /\ store' = RemoveLocked(store, Position(store, k))
    BY <1>0, <2>2, RemoveContent
  <2>3. QED
    BY <1>4, <2>1, <2>2
<1>5. ASSUME NEW k \in Keys, GetMiss(k)
      PROVE  Contract!Next
  <2>1. d = [c EXCEPT ![k] = Absent]
    BY <1>4, <1>5 DEF GetMiss, AfterGet, Hits
  <2>2. reply' = Absent /\ latest' = latest
    BY <1>5 DEF GetMiss
  <2> HIDE DEF c, d
  <2>3. Contract!Miss(k)
    BY <1>1, <2>1, <2>2 DEF Contract!Miss, Contract!Forget
  <2>4. QED
    BY <2>3 DEF Contract!Next
<1>6. ASSUME NEW k \in Keys, DeleteKey(k)
      PROVE  Contract!Next
  <2>1. d = [c EXCEPT ![k] = Absent]
    BY <1>4, <1>6 DEF DeleteKey, Delete
  <2>2. latest' = [latest EXCEPT ![k] = Absent] /\ reply' = reply
    BY <1>6 DEF DeleteKey
  <2> HIDE DEF c, d
  <2>3. Contract!Delete(k)
    BY <1>1, <2>1, <2>2 DEF Contract!Delete, Contract!Forget
  <2>4. QED
    BY <2>3 DEF Contract!Next
<1>7. CASE Clear
  <2>1. store'.entries = {}
    BY <1>7 DEF Clear, Empty
  <2>2. d = [k \in Keys |-> Absent]
    BY <1>1, <2>1
  <2>3. latest' = [k \in Keys |-> Absent] /\ reply' = reply
    BY <1>7 DEF Clear
  <2> HIDE DEF c, d
  <2>4. Contract!Clear
    BY <1>1, <2>2, <2>3 DEF Contract!Clear, Contract!Nowhere
  <2>5. QED
    BY <2>4 DEF Contract!Next
<1>8. CASE Tick \/ UNCHANGED vars
  BY <1>8 DEF Tick, vars, Contract!avars
<1>9. QED
  BY <1>2, <1>3, <1>5, <1>6, <1>7, <1>8 DEF Next

(* The store with its list, its byte count and its lazy expiry implements  *)
(* the Store interface (store.go:53-77): a bounded map that answers what   *)
(* was last put there, or nothing.                                         *)
THEOREM SpecImplementsStoreContract == Spec => ImplementsStoreContract
<1>1. Init => Contract!Init
  BY DEF Init, Empty, Contract!Init, Contract!Nowhere
<1>2. QED
  BY <1>1, SpecIInv, StepContract, PTL
     DEF Spec, ImplementsStoreContract, Contract!Spec
=============================================================================
