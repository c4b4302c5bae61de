--------------------------- MODULE LRUCache_proof ---------------------------
EXTENDS LRUCache, SequenceTheorems, FiniteSetTheorems, TLAPS

(* A node of the list: the key and entry an element of MemStore.lru        *)
(* carries (memstore.go:41-45).                                            *)
Node(K, E) == [key : K, entry : E]

NodesOf(list) == {list[i] : i \in 1..Len(list)}

KeysOf(list) == {list[i].key : i \in 1..Len(list)}

(* Removing from and adding to a set, named so that the provers treat them *)
(* as a whole until their meaning is needed.                               *)
Without(S, x) == S \ {x}
With(S, x) == S \cup {x}

(* No key has two nodes.                                                   *)
Distinct(list) ==
  \A i, j \in 1..Len(list) : list[i].key = list[j].key => i = j

(* List and map of a store agree: the list has one node for each key of    *)
(* the map, over keys K and entries E.                                     *)
Agrees(s, K, E) ==
  /\ s = [lru |-> s.lru, entries |-> s.entries, bytes |-> s.bytes]
  /\ s.lru \in Seq(Node(K, E))
  /\ s.entries = KeysOf(s.lru)
  /\ Distinct(s.lru)

WithinCap(s) == MaxEntries > 0 => Len(s.lru) <= MaxEntries

-----------------------------------------------------------------------------
(* The sequence RemoveAt returns, and where each element comes from.       *)
LEMMA RemoveAtSeq ==
  ASSUME NEW S, NEW s \in Seq(S), NEW i \in 1..Len(s)
  PROVE  /\ RemoveAt(s, i) \in Seq(S)
         /\ Len(RemoveAt(s, i)) = Len(s) - 1
         /\ \A j \in 1..(Len(s) - 1) :
              RemoveAt(s, i)[j] = IF j < i THEN s[j] ELSE s[j + 1]
<1> DEFINE a == SubSeq(s, 1, i - 1)
           b == SubSeq(s, i + 1, Len(s))
<1>1. /\ a \in Seq(S)
      /\ Len(a) = i - 1
      /\ \A j \in 1..(i - 1) : a[j] = s[j]
  BY SubSeqProperties
<1>2. /\ b \in Seq(S)
      /\ Len(b) = Len(s) - i
      /\ \A j \in 1..(Len(s) - i) : b[j] = s[i + j]
  <2>1. \A j \in (i + 1)..Len(s) : s[j] \in S
    OBVIOUS
  <2>2. /\ b \in Seq(S)
        /\ Len(b) = IF i + 1 <= Len(s) THEN Len(s) - (i + 1) + 1 ELSE 0
        /\ \A j \in 1..(Len(s) - (i + 1) + 1) : b[j] = s[i + 1 + j - 1]
    BY <2>1, SubSeqProperties
  <2>3. QED
    BY <2>2
<1> HIDE DEF a, b
<1>3. /\ a \o b \in Seq(S)
      /\ Len(a \o b) = Len(s) - 1
      /\ \A j \in 1..(Len(s) - 1) :
           (a \o b)[j] = IF j <= i - 1 THEN a[j] ELSE b[j - (i - 1)]
  <2>1. /\ a \o b \in Seq(S)
        /\ Len(a \o b) = Len(a) + Len(b)
        /\ \A j \in 1..(Len(a) + Len(b)) :
             (a \o b)[j] = IF j <= Len(a) THEN a[j] ELSE b[j - Len(a)]
    BY <1>1, <1>2, ConcatProperties
  <2>2. Len(a) = i - 1 /\ Len(a) + Len(b) = Len(s) - 1
    BY <1>1, <1>2
  <2>3. QED
    BY <2>1, <2>2
<1>4. ASSUME NEW j \in 1..(Len(s) - 1)
      PROVE  (a \o b)[j] = IF j < i THEN s[j] ELSE s[j + 1]
  <2>1. CASE j < i
    BY <2>1, <1>1, <1>3
  <2>2. CASE j >= i
    <3>1. j - (i - 1) \in 1..(Len(s) - i)
      BY <2>2
    <3>2. b[j - (i - 1)] = s[i + (j - (i - 1))]
      BY <3>1, <1>2
    <3>3. i + (j - (i - 1)) = j + 1
      OBVIOUS
    <3>4. QED
      BY <2>2, <3>2, <3>3, <1>3
  <2>3. j < i \/ j >= i
    OBVIOUS
  <2>4. QED
    BY <2>1, <2>2, <2>3
<1>5. RemoveAt(s, i) = a \o b
  BY DEF RemoveAt, a, b
<1>6. QED
  BY <1>3, <1>4, <1>5

(* The sequence PushFront returns.                                         *)
LEMMA PrependSeq ==
  ASSUME NEW S, NEW s \in Seq(S), NEW node \in S
  PROVE  /\ <<node>> \o s \in Seq(S)
         /\ Len(<<node>> \o s) = Len(s) + 1
         /\ \A j \in 1..(Len(s) + 1) :
              (<<node>> \o s)[j] = IF j = 1 THEN node ELSE s[j - 1]
<1> DEFINE h == <<node>>
<1>1. h \in Seq(S) /\ Len(h) = 1 /\ h[1] = node
  OBVIOUS
<1> HIDE DEF h
<1>2. /\ h \o s \in Seq(S)
      /\ Len(h \o s) = Len(s) + 1
      /\ \A j \in 1..(Len(s) + 1) :
           (h \o s)[j] = IF j <= 1 THEN h[j] ELSE s[j - 1]
  <2>1. /\ h \o s \in Seq(S)
        /\ Len(h \o s) = Len(h) + Len(s)
        /\ \A j \in 1..(Len(h) + Len(s)) :
             (h \o s)[j] = IF j <= Len(h) THEN h[j] ELSE s[j - Len(h)]
    BY <1>1, ConcatProperties
  <2>2. Len(h) = 1 /\ Len(h) + Len(s) = Len(s) + 1
    BY <1>1
  <2>3. QED
    BY <2>1, <2>2
<1>3. QED
  BY <1>1, <1>2 DEF h

(* The sequence MoveToFront returns: the promoted node first, those before *)
(* it one place further back, the rest in place.                           *)
LEMMA PromoteSeq ==
  ASSUME NEW S, NEW s \in Seq(S), NEW i \in 1..Len(s), NEW node \in S
  PROVE  /\ Promote(s, i, node) \in Seq(S)
         /\ Len(Promote(s, i, node)) = Len(s)
         /\ \A j \in 1..Len(s) :
              Promote(s, i, node)[j] =
                IF j = 1 THEN node ELSE IF j <= i THEN s[j - 1] ELSE s[j]
<1> DEFINE r == RemoveAt(s, i)
           p == <<node>> \o r
<1>1. /\ r \in Seq(S)
      /\ Len(r) = Len(s) - 1
      /\ \A j \in 1..(Len(s) - 1) : r[j] = IF j < i THEN s[j] ELSE s[j + 1]
  BY RemoveAtSeq
<1> HIDE DEF r
<1>2. /\ p \in Seq(S)
      /\ Len(p) = Len(s)
      /\ \A j \in 1..Len(s) : p[j] = IF j = 1 THEN node ELSE r[j - 1]
  <2>1. /\ p \in Seq(S)
        /\ Len(p) = Len(r) + 1
        /\ \A j \in 1..(Len(r) + 1) : p[j] = IF j = 1 THEN node ELSE r[j - 1]
    BY <1>1, PrependSeq
  <2>2. Len(r) + 1 = Len(s)
    BY <1>1
  <2>3. QED
    BY <2>1, <2>2
<1> HIDE DEF p
<1>3. ASSUME NEW j \in 1..Len(s), j # 1
      PROVE  p[j] = IF j <= i THEN s[j - 1] ELSE s[j]
  <2>1. j - 1 \in 1..(Len(s) - 1)
    BY <1>3
  <2>2. r[j - 1] = IF j - 1 < i THEN s[j - 1] ELSE s[j - 1 + 1]
    BY <2>1, <1>1
  <2>3. QED
    BY <2>1, <2>2, <1>2, <1>3
<1>4. Promote(s, i, node) = p
  BY DEF Promote, p, r
<1>5. QED
  BY <1>2, <1>3, <1>4

(* The first loop iteration of Evict is the last: it is entered with at    *)
(* most one node too many.                                                 *)
LEMMA EvictOne ==
  ASSUME NEW s, Len(s.lru) \in Nat,
         MaxEntries > 0 => Len(s.lru) <= MaxEntries + 1
  PROVE  Evict(s) = IF MaxEntries > 0 /\ Len(s.lru) > MaxEntries
                    THEN RemoveLocked(s, Len(s.lru)) ELSE s
<1> USE ConfigAssumption
<1> DEFINE F(D) ==
             CHOOSE f : f = [n \in D |-> IF n = 0 THEN s ELSE
                               RemoveLocked(f[n - 1], Len(f[n - 1].lru))]
<1>1. ASSUME NEW D, D = 0..0 \/ D = 0..1
      PROVE  /\ F(D)[0] = s
             /\ 1 \in D => F(D)[1] = RemoveLocked(s, Len(s.lru))
  <2> DEFINE w ==
        [n \in D |-> IF n = 0 THEN s ELSE RemoveLocked(s, Len(s.lru))]
  <2>1. w = [n \in D |-> IF n = 0 THEN s ELSE
                           RemoveLocked(w[n - 1], Len(w[n - 1].lru))]
    <3>1. \A n \in D : n # 0 => n - 1 = 0 /\ 0 \in D
      BY <1>1
    <3>2. \A n \in D : n # 0 => w[n - 1] = s
      BY <3>1
    <3>3. QED
      BY <3>2
  <2>2. F(D) = [n \in D |-> IF n = 0 THEN s ELSE
                              RemoveLocked(F(D)[n - 1], Len(F(D)[n - 1].lru))]
    BY <2>1
  <2> HIDE DEF F
  <2>3. 0 \in D /\ (1 \in D => 1 # 0 /\ 1 - 1 = 0)
    BY <1>1
  <2>4. F(D)[0] = s
    BY <2>2, <2>3
  <2>5. QED
    BY <2>2, <2>3, <2>4
<1>2. CASE MaxEntries > 0 /\ Len(s.lru) > MaxEntries
  <2>1. Len(s.lru) - MaxEntries = 1
    BY <1>2
  <2>2. Evict(s) = F(0..1)[1]
    BY <1>2, <2>1 DEF Evict
  <2>3. QED
    <3>1. F(0..1)[1] = RemoveLocked(s, Len(s.lru))
      <4>1. 1 \in 0..1
        OBVIOUS
      <4>2. QED
        BY <1>1, <4>1
    <3>2. QED
      BY <1>2, <2>2, <3>1
<1>3. CASE ~(MaxEntries > 0 /\ Len(s.lru) > MaxEntries)
  <2>1. Evict(s) = F(0..0)[0]
    BY <1>3 DEF Evict
  <2>2. QED
    BY <1>1, <1>3, <2>1
<1>4. QED
  BY <1>2, <1>3
-----------------------------------------------------------------------------
(* The nodes and keys left by a removal.                                   *)
LEMMA RemoveNodes ==
  ASSUME NEW K, NEW E, NEW s \in Seq(Node(K, E)), NEW i \in 1..Len(s),
         Distinct(s)
  PROVE  /\ Distinct(RemoveAt(s, i))
         /\ NodesOf(RemoveAt(s, i)) = Without(NodesOf(s), s[i])
         /\ KeysOf(RemoveAt(s, i)) = Without(KeysOf(s), s[i].key)
<1> DEFINE r == RemoveAt(s, i)
           old(j) == IF j < i THEN j ELSE j + 1
<1>1. /\ Len(r) = Len(s) - 1
      /\ \A j \in 1..(Len(s) - 1) : r[j] = IF j < i THEN s[j] ELSE s[j + 1]
  BY RemoveAtSeq
<1> HIDE DEF r
<1>2. \A j \in 1..Len(r) :
        old(j) \in 1..Len(s) /\ old(j) # i /\ r[j] = s[old(j)]
  BY <1>1
<1>3. \A m \in 1..Len(s) : m # i => \E j \in 1..Len(r) : old(j) = m
  <2> SUFFICES ASSUME NEW m \in 1..Len(s), m # i
               PROVE  \E j \in 1..Len(r) : old(j) = m
    OBVIOUS
  <2>1. CASE m < i
    BY <2>1, <1>1
  <2>2. CASE m > i
    <3>1. m - 1 \in 1..Len(r) /\ old(m - 1) = m
      BY <2>2, <1>1
    <3>2. QED
      BY <3>1
  <2>3. QED
    BY <2>1, <2>2
<1>4. \A j, m \in 1..Len(r) : old(j) = old(m) => j = m
  BY <1>1
<1> HIDE DEF old
<1>5. Distinct(r)
  BY <1>2, <1>4 DEF Distinct
<1>6. \A m \in 1..Len(s) : m # i => s[m].key # s[i].key
  BY DEF Distinct
<1>7. NodesOf(r) = NodesOf(s) \ {s[i]}
  <2>1. ASSUME NEW n \in NodesOf(r) PROVE n \in NodesOf(s) \ {s[i]}
    BY <1>2, <1>6 DEF NodesOf
  <2>2. ASSUME NEW n \in NodesOf(s) \ {s[i]} PROVE n \in NodesOf(r)
    BY <1>2, <1>3 DEF NodesOf
  <2>3. QED
    BY <2>1, <2>2
<1>8. KeysOf(r) = KeysOf(s) \ {s[i].key}
  <2>1. ASSUME NEW k \in KeysOf(r) PROVE k \in KeysOf(s) \ {s[i].key}
    BY <1>2, <1>6 DEF KeysOf
  <2>2. ASSUME NEW k \in KeysOf(s) \ {s[i].key} PROVE k \in KeysOf(r)
    <3>1. PICK m \in 1..Len(s) : k = s[m].key
      BY DEF KeysOf
    <3>2. PICK j \in 1..Len(r) : old(j) = m
      BY <1>3, <3>1
    <3>3. k = r[j].key
      BY <1>2, <3>1, <3>2
    <3>4. QED
      BY <3>3 DEF KeysOf
  <2>3. QED
    BY <2>1, <2>2
<1>9. QED
  BY <1>5, <1>7, <1>8 DEF r, Without

(* The nodes and keys left by a promotion.                                 *)
LEMMA PromoteNodes ==
  ASSUME NEW K, NEW E, NEW s \in Seq(Node(K, E)), NEW i \in 1..Len(s),
         NEW node \in Node(K, E), node.key = s[i].key, Distinct(s)
  PROVE  /\ Distinct(Promote(s, i, node))
         /\ NodesOf(Promote(s, i, node)) =
              With(Without(NodesOf(s), s[i]), node)
         /\ KeysOf(Promote(s, i, node)) = KeysOf(s)
<1> DEFINE p == Promote(s, i, node)
           old(j) == IF j = 1 THEN i ELSE IF j <= i THEN j - 1 ELSE j
           new(m) == IF m = i THEN 1 ELSE IF m < i THEN m + 1 ELSE m
<1>1. /\ Len(p) = Len(s)
      /\ \A j \in 1..Len(s) :
           p[j] = IF j = 1 THEN node ELSE IF j <= i THEN s[j - 1] ELSE s[j]
  BY PromoteSeq
<1> HIDE DEF p
<1>2. \A j \in 1..Len(s) :
        /\ old(j) \in 1..Len(s) /\ new(old(j)) = j
        /\ p[j] = IF old(j) = i THEN node ELSE s[old(j)]
  BY <1>1
<1>3. \A m \in 1..Len(s) : new(m) \in 1..Len(s) /\ old(new(m)) = m
  OBVIOUS
<1> HIDE DEF old, new
<1>4. \A j \in 1..Len(s) : p[j].key = s[old(j)].key
  BY <1>2
<1>5. Distinct(p)
  <2> SUFFICES ASSUME NEW j \in 1..Len(p), NEW m \in 1..Len(p),
                      p[j].key = p[m].key
               PROVE  j = m
    BY DEF Distinct
  <2>1. /\ old(j) \in 1..Len(s) /\ old(m) \in 1..Len(s)
        /\ s[old(j)].key = s[old(m)].key
    BY <1>1, <1>2, <1>4
  <2>2. old(j) = old(m)
    BY <2>1 DEF Distinct
  <2>3. QED
    BY <1>1, <1>2, <2>2
<1>6. KeysOf(p) = KeysOf(s)
  <2>1. \A m \in 1..Len(s) : s[m].key = p[new(m)].key
    BY <1>3, <1>4
  <2>2. ASSUME NEW k \in KeysOf(p) PROVE k \in KeysOf(s)
    <3>1. PICK j \in 1..Len(p) : k = p[j].key
      BY DEF KeysOf
    <3>2. old(j) \in 1..Len(s) /\ k = s[old(j)].key
      BY <1>1, <1>2, <1>4, <3>1
    <3>3. QED
      BY <3>2 DEF KeysOf
  <2>3. ASSUME NEW k \in KeysOf(s) PROVE k \in KeysOf(p)
    <3>1. PICK m \in 1..Len(s) : k = s[m].key
      BY DEF KeysOf
    <3>2. new(m) \in 1..Len(p) /\ k = p[new(m)].key
      BY <1>1, <1>3, <2>1, <3>1
    <3>3. QED
      BY <3>2 DEF KeysOf
  <2>4. QED
    BY <2>2, <2>3
<1>7. \A m \in 1..Len(s) : m # i => s[m] # s[i]
  BY DEF Distinct
<1>8. \A m \in 1..Len(s) : p[new(m)] = IF m = i THEN node ELSE s[m]
  BY <1>2, <1>3
<1>9. NodesOf(p) = (NodesOf(s) \ {s[i]}) \cup {node}
  <2>1. ASSUME NEW n \in NodesOf(p)
        PROVE  n \in (NodesOf(s) \ {s[i]}) \cup {node}
    BY <1>1, <1>2, <1>7 DEF NodesOf
  <2>2. ASSUME NEW n \in NodesOf(s) \ {s[i]} PROVE n \in NodesOf(p)
    <3>1. PICK m \in 1..Len(s) : n = s[m]
      BY DEF NodesOf
    <3>2. new(m) \in 1..Len(p) /\ p[new(m)] = n
      BY <1>1, <1>3, <1>8, <3>1
    <3>3. QED
      BY <3>2 DEF NodesOf
  <2>3. node \in NodesOf(p)
    <3>1. new(i) \in 1..Len(p) /\ p[new(i)] = node
      BY <1>1, <1>3, <1>8
    <3>2. QED
      BY <3>1 DEF NodesOf
  <2>4. QED
    BY <2>1, <2>2, <2>3
<1>10. QED
  BY <1>5, <1>6, <1>9 DEF p, With, Without

(* The nodes and keys of a list with a new node in front.                  *)
LEMMA PrependNodes ==
  ASSUME NEW K, NEW E, NEW s \in Seq(Node(K, E)),
         NEW node \in Node(K, E), node.key \notin KeysOf(s), Distinct(s)
  PROVE  /\ Distinct(<<node>> \o s)
         /\ NodesOf(<<node>> \o s) = With(NodesOf(s), node)
         /\ KeysOf(<<node>> \o s) = With(KeysOf(s), node.key)
<1> DEFINE p == <<node>> \o s
<1>1. /\ Len(p) = Len(s) + 1
      /\ \A j \in 1..(Len(s) + 1) : p[j] = IF j = 1 THEN node ELSE s[j - 1]
  BY PrependSeq
<1> HIDE DEF p
<1>2. p[1] = node /\ 1 \in 1..Len(p)
  BY <1>1
<1>3. \A j \in 1..Len(p) : j # 1 => j - 1 \in 1..Len(s) /\ p[j] = s[j - 1]
  BY <1>1
<1>4. \A m \in 1..Len(s) : m + 1 \in 1..Len(p) /\ p[m + 1] = s[m]
  BY <1>1
<1>5. \A m \in 1..Len(s) : s[m].key # node.key
  BY DEF KeysOf
<1>6. Distinct(p)
  <2> SUFFICES ASSUME NEW j \in 1..Len(p), NEW m \in 1..Len(p),
                      p[j].key = p[m].key
               PROVE  j = m
    BY DEF Distinct
  <2>1. j # 1 /\ m # 1 => j - 1 = m - 1
    BY <1>3 DEF Distinct
  <2>2. j = 1 <=> m = 1
    BY <1>2, <1>3, <1>5
  <2>3. QED
    BY <2>1, <2>2, <1>1
<1>7. NodesOf(p) = NodesOf(s) \cup {node}
  <2>1. ASSUME NEW n \in NodesOf(p) PROVE n \in NodesOf(s) \cup {node}
    BY <1>2, <1>3 DEF NodesOf
  <2>2. ASSUME NEW n \in NodesOf(s) \cup {node} PROVE n \in NodesOf(p)
    BY <1>2, <1>4 DEF NodesOf
  <2>3. QED
    BY <2>1, <2>2
<1>8. KeysOf(p) = KeysOf(s) \cup {node.key}
  <2>1. ASSUME NEW k \in KeysOf(p) PROVE k \in KeysOf(s) \cup {node.key}
    BY <1>2, <1>3 DEF KeysOf
  <2>2. ASSUME NEW k \in KeysOf(s) PROVE k \in KeysOf(p)
    <3>1. PICK m \in 1..Len(s) : k = s[m].key
      BY DEF KeysOf
    <3>2. m + 1 \in 1..Len(p) /\ k = p[m + 1].key
      BY <1>4, <3>1
    <3>3. QED
      BY <3>2 DEF KeysOf
  <2>3. node.key \in KeysOf(p)
    BY <1>2 DEF KeysOf
  <2>4. QED
    BY <2>1, <2>2, <2>3
<1>9. QED
  BY <1>6, <1>7, <1>8 DEF p, With
-----------------------------------------------------------------------------
(* The key's position in the list is that of its one node, whose entry the *)
(* lookup returns.                                                         *)
LEMMA EntryAtNode ==
  ASSUME NEW K, NEW E, NEW s, Agrees(s, K, E)
  PROVE  /\ \A k \in s.entries :
              /\ Position(s, k) \in 1..Len(s.lru)
              /\ s.lru[Position(s, k)] = [key |-> k, entry |-> EntryAt(s, k)]
              /\ EntryAt(s, k) \in E
         /\ \A n \in NodesOf(s.lru) :
              n.key \in s.entries /\ EntryAt(s, n.key) = n.entry
<1> USE DEF Agrees
<1>1. DOMAIN s.lru = 1..Len(s.lru)
  OBVIOUS
<1>2. ASSUME NEW k \in s.entries
      PROVE  Position(s, k) \in 1..Len(s.lru) /\ s.lru[Position(s, k)].key = k
  BY <1>1 DEF Position, KeysOf
<1>3. \A i \in 1..Len(s.lru) : s.lru[i] \in Node(K, E)
  OBVIOUS
<1>4. ASSUME NEW k \in s.entries
      PROVE  /\ s.lru[Position(s, k)] = [key |-> k, entry |-> EntryAt(s, k)]
             /\ EntryAt(s, k) \in E
  BY <1>2, <1>3 DEF EntryAt, Node
<1>5. ASSUME NEW n \in NodesOf(s.lru)
      PROVE  n.key \in s.entries /\ EntryAt(s, n.key) = n.entry
  <2>1. PICK i \in 1..Len(s.lru) : n = s.lru[i]
    BY DEF NodesOf
  <2>2. n.key \in s.entries
    BY <2>1 DEF KeysOf
  <2>3. Position(s, n.key) = i
    BY <2>1, <2>2, <1>2 DEF Distinct
  <2>4. QED
    BY <2>1, <2>2, <2>3 DEF EntryAt
<1>6. QED
  BY <1>2, <1>4, <1>5

(* removeLocked (memstore.go:111-117) takes one node and its key.          *)
LEMMA RemoveLockedAgrees ==
  ASSUME NEW K, NEW E, NEW s, Agrees(s, K, E), NEW i \in 1..Len(s.lru)
  PROVE  /\ Agrees(RemoveLocked(s, i), K, E)
         /\ Len(RemoveLocked(s, i).lru) = Len(s.lru) - 1
         /\ RemoveLocked(s, i).entries = Without(s.entries, s.lru[i].key)
         /\ NodesOf(RemoveLocked(s, i).lru) = Without(NodesOf(s.lru), s.lru[i])
<1> USE DEF Agrees
<1>1. /\ RemoveAt(s.lru, i) \in Seq(Node(K, E))
      /\ Len(RemoveAt(s.lru, i)) = Len(s.lru) - 1
  BY RemoveAtSeq
<1>2. /\ Distinct(RemoveAt(s.lru, i))
      /\ NodesOf(RemoveAt(s.lru, i)) = Without(NodesOf(s.lru), s.lru[i])
      /\ KeysOf(RemoveAt(s.lru, i)) = Without(KeysOf(s.lru), s.lru[i].key)
  BY RemoveNodes
<1>3. QED
  BY <1>1, <1>2 DEF RemoveLocked, Without

(* Put of a key that is there: the element is rewritten and moved.         *)
LEMMA ReplaceAgrees ==
  ASSUME NEW K, NEW E, NEW s, Agrees(s, K, E), WithinCap(s),
         NEW k \in s.entries, k \in K, NEW e \in E
  PROVE  /\ Agrees(Put(s, k, e), K, E)
         /\ Len(Put(s, k, e).lru) = Len(s.lru)
         /\ Put(s, k, e).entries = s.entries
         /\ NodesOf(Put(s, k, e).lru) =
              With(Without(NodesOf(s.lru),
                           [key |-> k, entry |-> EntryAt(s, k)]),
                   [key |-> k, entry |-> e])
<1> DEFINE i == Position(s, k)
           node == [key |-> k, entry |-> e]
<1>1. /\ i \in 1..Len(s.lru)
      /\ s.lru[i] = [key |-> k, entry |-> EntryAt(s, k)]
  BY EntryAtNode
<1>2. node \in Node(K, E) /\ node.key = s.lru[i].key
  BY <1>1 DEF Node
<1> HIDE DEF i, node
<1>3. /\ Promote(s.lru, i, node) \in Seq(Node(K, E))
      /\ Len(Promote(s.lru, i, node)) = Len(s.lru)
  BY <1>1, <1>2, PromoteSeq DEF Agrees
<1>4. /\ Distinct(Promote(s.lru, i, node))
      /\ NodesOf(Promote(s.lru, i, node)) =
           With(Without(NodesOf(s.lru), s.lru[i]), node)
      /\ KeysOf(Promote(s.lru, i, node)) = KeysOf(s.lru)
  BY <1>1, <1>2, PromoteNodes DEF Agrees
<1>5. /\ Put(s, k, e).lru = Promote(s.lru, i, node)
      /\ Put(s, k, e).entries = s.entries
      /\ Put(s, k, e) = [lru |-> Put(s, k, e).lru,
                         entries |-> Put(s, k, e).entries,
                         bytes |-> Put(s, k, e).bytes]
  BY DEF Put, i, node
<1>6. QED
  BY <1>1, <1>3, <1>4, <1>5 DEF Agrees, node

(* The node Put drops for the cap, if any: the last of the list, never the *)
(* one it has just put in front.                                           *)
Overflows(s) == MaxEntries > 0 /\ Len(s.lru) = MaxEntries

Pushed(s, k, e) ==
  [lru |-> <<[key |-> k, entry |-> e]>> \o s.lru,
   entries |-> s.entries \cup {k},
   bytes |-> s.bytes + SizeOf(e)]

(* Put of a new key (memstore.go:97-108): one node in front, and one less  *)
(* at the back when the cap is reached.                                    *)
LEMMA InsertAgrees ==
  ASSUME NEW K, NEW E, NEW s, Agrees(s, K, E), WithinCap(s),
         NEW k \in K, k \notin s.entries, NEW e \in E,
         NEW n, n = [key |-> k, entry |-> e],
         NEW last, last = s.lru[Len(s.lru)]
  PROVE  /\ Agrees(Put(s, k, e), K, E)
         /\ WithinCap(Put(s, k, e))
         /\ Overflows(s) =>
              /\ s.lru # <<>>
              /\ Put(s, k, e) = RemoveLocked(Pushed(s, k, e), Len(s.lru) + 1)
              /\ Len(Put(s, k, e).lru) = Len(s.lru)
              /\ Put(s, k, e).entries = With(Without(s.entries, last.key), k)
              /\ NodesOf(Put(s, k, e).lru) =
                   With(Without(NodesOf(s.lru), last), n)
         /\ ~Overflows(s) =>
              /\ Put(s, k, e) = Pushed(s, k, e)
              /\ NodesOf(Put(s, k, e).lru) = With(NodesOf(s.lru), n)
<1> DEFINE p == Pushed(s, k, e)
<1> USE DEF Pushed
<1> USE ConfigAssumption
<1>1. n \in Node(K, E) /\ n.key = k
  BY DEF Node
<1>2. /\ s.lru \in Seq(Node(K, E)) /\ s.entries = KeysOf(s.lru)
      /\ Distinct(s.lru) /\ Len(s.lru) \in Nat
  BY DEF Agrees
<1>3. /\ p.lru \in Seq(Node(K, E))
      /\ Len(p.lru) = Len(s.lru) + 1
      /\ \A j \in 1..(Len(s.lru) + 1) :
           p.lru[j] = IF j = 1 THEN n ELSE s.lru[j - 1]
  BY <1>1, <1>2, PrependSeq
<1>4. /\ Distinct(p.lru)
      /\ NodesOf(p.lru) = With(NodesOf(s.lru), n)
      /\ KeysOf(p.lru) = With(KeysOf(s.lru), k)
  BY <1>1, <1>2, PrependNodes
<1>5. Agrees(p, K, E)
  BY <1>2, <1>3, <1>4 DEF Agrees, With
<1>6. Put(s, k, e) = Evict(p)
  BY DEF Put
<1> HIDE DEF p
<1>7. Evict(p) = IF MaxEntries > 0 /\ Len(p.lru) > MaxEntries
                 THEN RemoveLocked(p, Len(p.lru)) ELSE p
  BY <1>2, <1>3, EvictOne DEF WithinCap
<1>8. MaxEntries > 0 /\ Len(p.lru) > MaxEntries <=> Overflows(s)
  BY <1>2, <1>3 DEF WithinCap, Overflows
<1>9. CASE Overflows(s)
  <2>1. Len(s.lru) > 0 /\ s.lru # <<>>
    BY <1>2, <1>9 DEF Overflows
  <2>2. Len(p.lru) \in 1..Len(p.lru) /\ p.lru[Len(p.lru)] = last
    BY <1>2, <1>3, <2>1
  <2>3. /\ Agrees(RemoveLocked(p, Len(p.lru)), K, E)
        /\ Len(RemoveLocked(p, Len(p.lru)).lru) = Len(p.lru) - 1
        /\ RemoveLocked(p, Len(p.lru)).entries = Without(p.entries, last.key)
        /\ NodesOf(RemoveLocked(p, Len(p.lru)).lru) =
             Without(NodesOf(p.lru), last)
    <3>1. PICK m \in 1..Len(p.lru) : m = Len(p.lru)
      BY <2>2
    <3>2. /\ Agrees(RemoveLocked(p, m), K, E)
          /\ Len(RemoveLocked(p, m).lru) = Len(p.lru) - 1
          /\ RemoveLocked(p, m).entries = Without(p.entries, p.lru[m].key)
          /\ NodesOf(RemoveLocked(p, m).lru) =
               Without(NodesOf(p.lru), p.lru[m])
      BY <1>5, RemoveLockedAgrees
    <3>3. QED
      BY <2>2, <3>1, <3>2
  <2>4. last.key \in s.entries /\ last \in NodesOf(s.lru)
    BY <1>2, <2>1 DEF KeysOf, NodesOf
  <2>5. last.key # k /\ last # n
    BY <2>4, <1>1
  <2>6. p.entries = s.entries \cup {k}
    BY DEF p
  <2>7. Put(s, k, e) = RemoveLocked(p, Len(s.lru) + 1)
    BY <1>3, <1>6, <1>7, <1>8, <1>9
  <2>8. Len(p.lru) - 1 = Len(s.lru) /\ Len(p.lru) = Len(s.lru) + 1
    BY <1>2, <1>3
  <2>9. WithinCap(Put(s, k, e))
    BY <2>3, <2>7, <2>8 DEF WithinCap
  <2>10. /\ Without(p.entries, last.key) =
              With(Without(s.entries, last.key), k)
         /\ Without(NodesOf(p.lru), last) =
              With(Without(NodesOf(s.lru), last), n)
    BY <2>5, <2>6, <1>4 DEF With, Without
  <2>11. QED
    BY <1>9, <2>1, <2>3, <2>7, <2>8, <2>9, <2>10 DEF p
<1>10. CASE ~Overflows(s)
  <2>1. Put(s, k, e) = p
    BY <1>6, <1>7, <1>8, <1>10
  <2>2. WithinCap(p)
    BY <1>2, <1>3, <1>8, <1>10 DEF WithinCap
  <2>3. QED
    BY <1>4, <1>5, <1>10, <2>1, <2>2 DEF p
<1>11. QED
  BY <1>9, <1>10

(* The store such a Put leaves.                                            *)
LEMMA PutNew ==
  ASSUME NEW K, NEW E, NEW s, Agrees(s, K, E), WithinCap(s),
         NEW k \in K, k \notin s.entries, NEW e \in E
  PROVE  /\ Overflows(s) =>
              Put(s, k, e) = RemoveLocked(Pushed(s, k, e), Len(s.lru) + 1)
         /\ ~Overflows(s) => Put(s, k, e) = Pushed(s, k, e)
<1>1. PICK n, last : n = [key |-> k, entry |-> e] /\ last = s.lru[Len(s.lru)]
  OBVIOUS
<1>2. QED
  BY <1>1, InsertAgrees

(* Put, of a key that is there or not, keeps list and map in agreement,    *)
(* keeps within the cap, and adds no node but its own.                     *)
LEMMA PutAgrees ==
  ASSUME NEW K, NEW E, NEW s, Agrees(s, K, E), WithinCap(s),
         NEW k \in K, NEW e \in E
  PROVE  /\ Agrees(Put(s, k, e), K, E)
         /\ WithinCap(Put(s, k, e))
         /\ NodesOf(Put(s, k, e).lru) \subseteq
              NodesOf(s.lru) \cup {[key |-> k, entry |-> e]}
<1>1. CASE k \in s.entries
  BY <1>1, ReplaceAgrees DEF WithinCap, With, Without
<1>2. CASE k \notin s.entries
  <2> DEFINE n == [key |-> k, entry |-> e]
             last == s.lru[Len(s.lru)]
  <2>1. /\ Agrees(Put(s, k, e), K, E)
        /\ WithinCap(Put(s, k, e))
        /\ \/ NodesOf(Put(s, k, e).lru) =
                With(Without(NodesOf(s.lru), last), n)
           \/ NodesOf(Put(s, k, e).lru) = With(NodesOf(s.lru), n)
    BY <1>2, InsertAgrees
  <2>2. QED
    BY <2>1 DEF With, Without
<1>3. QED
  BY <1>1, <1>2

(* Get that finds an entry only moves it.                                  *)
LEMMA PromoteAgrees ==
  ASSUME NEW K, NEW E, NEW s, Agrees(s, K, E), NEW now,
         NEW k, Hits(s, k, now)
  PROVE  /\ Agrees(AfterGet(s, k, now), K, E)
         /\ Len(AfterGet(s, k, now).lru) = Len(s.lru)
         /\ AfterGet(s, k, now).entries = s.entries
         /\ AfterGet(s, k, now).bytes = s.bytes
         /\ NodesOf(AfterGet(s, k, now).lru) = NodesOf(s.lru)
<1> DEFINE a == AfterGet(s, k, now)
<1>1. k \in s.entries /\ ~Expired(EntryAt(s, k), now)
  BY DEF Hits
<1>2. PICK i \in 1..Len(s.lru) : i = Position(s, k)
  BY <1>1, EntryAtNode
<1>3. /\ s.lru \in Seq(Node(K, E)) /\ s.entries = KeysOf(s.lru)
      /\ Distinct(s.lru)
      /\ s = [lru |-> s.lru, entries |-> s.entries, bytes |-> s.bytes]
  BY DEF Agrees
<1>4. a = [s EXCEPT !.lru = Promote(s.lru, i, s.lru[i])]
  BY <1>1, <1>2 DEF AfterGet
<1>5. /\ a.lru = Promote(s.lru, i, s.lru[i])
      /\ a = [lru |-> a.lru, entries |-> s.entries, bytes |-> s.bytes]
      /\ a.entries = s.entries /\ a.bytes = s.bytes
  BY <1>3, <1>4
<1> HIDE DEF a
<1>6. s.lru[i] \in Node(K, E)
  BY <1>2, <1>3
<1>7. /\ Promote(s.lru, i, s.lru[i]) \in Seq(Node(K, E))
      /\ Len(Promote(s.lru, i, s.lru[i])) = Len(s.lru)
  <2>1. PICK node \in Node(K, E) : node = s.lru[i]
    BY <1>6
  <2>2. /\ Promote(s.lru, i, node) \in Seq(Node(K, E))
        /\ Len(Promote(s.lru, i, node)) = Len(s.lru)
    BY <1>3, PromoteSeq
  <2>3. QED
    BY <2>1, <2>2
<1>8. /\ Distinct(Promote(s.lru, i, s.lru[i]))
      /\ NodesOf(Promote(s.lru, i, s.lru[i])) =
           With(Without(NodesOf(s.lru), s.lru[i]), s.lru[i])
      /\ KeysOf(Promote(s.lru, i, s.lru[i])) = KeysOf(s.lru)
  BY <1>2, <1>3, <1>6, PromoteNodes
<1>9. s.lru[i] \in NodesOf(s.lru)
  BY <1>2 DEF NodesOf
<1>10. QED
  BY <1>3, <1>5, <1>7, <1>8, <1>9 DEF Agrees, a, With, Without

(* Get (memstore.go:58-77), a hit, a miss or an expiry.                    *)
LEMMA AfterGetAgrees ==
  ASSUME NEW K, NEW E, NEW s, Agrees(s, K, E), WithinCap(s), NEW now, NEW k
  PROVE  /\ Agrees(AfterGet(s, k, now), K, E)
         /\ WithinCap(AfterGet(s, k, now))
         /\ NodesOf(AfterGet(s, k, now).lru) \subseteq NodesOf(s.lru)
<1>1. CASE k \notin s.entries
  BY <1>1 DEF AfterGet
<1>2. CASE Hits(s, k, now)
  BY <1>2, PromoteAgrees DEF WithinCap
<1>3. CASE k \in s.entries /\ ~Hits(s, k, now)
  <2>1. PICK i \in 1..Len(s.lru) : i = Position(s, k)
    BY <1>3, EntryAtNode
  <2>2. AfterGet(s, k, now) = RemoveLocked(s, i)
    BY <1>3, <2>1 DEF AfterGet, Hits
  <2>3. Len(s.lru) \in Nat
    BY DEF Agrees
  <2>4. /\ Agrees(RemoveLocked(s, i), K, E)
        /\ Len(RemoveLocked(s, i).lru) = Len(s.lru) - 1
        /\ NodesOf(RemoveLocked(s, i).lru) = Without(NodesOf(s.lru), s.lru[i])
    BY RemoveLockedAgrees
  <2>5. WithinCap(RemoveLocked(s, i))
    BY <2>3, <2>4, ConfigAssumption DEF WithinCap
  <2>6. QED
    BY <2>2, <2>4, <2>5 DEF Without
<1>4. QED
  BY <1>1, <1>2, <1>3

(* The store NewMemStore makes.                                            *)
LEMMA EmptyAgrees ==
  ASSUME NEW K, NEW E
  PROVE  Agrees(Empty, K, E) /\ WithinCap(Empty) /\ NodesOf(Empty.lru) = {}
  BY ConfigAssumption
     DEF Empty, Agrees, WithinCap, NodesOf, KeysOf, Distinct
=============================================================================
