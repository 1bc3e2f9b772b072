------------------------------ MODULE OdictProofs ------------------------------
(***************************************************************************)
(* Proofs about Odict, for every set of keys, every size of the cache and  *)
(* of the ORAM, and every number of insertions and failing accesses.  What *)
(* is said of the assertion of the padding assumes PadCovers.              *)
(***************************************************************************)
EXTENDS Odict, FiniteSetTheorems, NaturalsInduction, SequenceTheorems, TLAPS

-------------------------------------------------------------------------------
(* Sequences of nodes: what is in them, not where. *)

Nodes(c) == {c[j] : j \in DOMAIN c}

\* No id is cached twice.
Unique(c) == \A i, j \in DOMAIN c : c[i].id = c[j].id => i = j

\* A node is cached under id.
IsIn(c, id) == \E n \in Nodes(c) : n.id = id

\* Removing an element keeps the others.
LEMMA RemoveAtSound ==
    ASSUME NEW S, NEW q \in Seq(S), NEW n \in DOMAIN q, NEW t, t = RemoveAt(q, n)
    PROVE  /\ t \in Seq(S) /\ Len(t) = Len(q) - 1
           /\ \A j \in DOMAIN t : t[j] = q[IF j < n THEN j ELSE j + 1]
<1> DEFINE l == Len(q)
           u == SubSeq(q, 1, n - 1)
           w == SubSeq(q, n + 1, l)
           from(j) == IF j < n THEN j ELSE j + 1
<1>1. l \in Nat /\ DOMAIN q = 1..l /\ n \in 1..l /\ \A j \in 1..l : q[j] \in S
  BY LenProperties
<1>2. /\ u \in Seq(S) /\ Len(u) = n - 1 /\ \A j \in 1..(n - 1) : u[j] = q[j]
  BY <1>1
<1>3. /\ w \in Seq(S) /\ Len(w) = l - n /\ \A j \in 1..(l - n) : w[j] = q[n + j]
  <2>1. \A i \in (n + 1)..l : q[i] \in S
    BY <1>1
  <2>2. /\ w \in Seq(S) /\ Len(w) = IF n + 1 <= l THEN l - (n + 1) + 1 ELSE 0
        /\ \A j \in 1..(l - (n + 1) + 1) : w[j] = q[(n + 1) + j - 1]
    BY <1>1, <2>1, SubSeqProperties
  <2>3. l - (n + 1) + 1 = l - n /\ \A j \in 1..(l - n) : (n + 1) + j - 1 = n + j
    BY <1>1
  <2> QED
    BY <1>1, <2>2, <2>3
<1>4. t = u \o w
  BY DEF RemoveAt
<1> HIDE DEF u, w
<1>5. t \in Seq(S) /\ Len(t) = l - 1
  <2>1. t \in Seq(S) /\ Len(t) = Len(u) + Len(w)
    BY <1>2, <1>3, <1>4, ConcatProperties
  <2>2. Len(u) + Len(w) = l - 1
    BY <1>1, <1>2, <1>3
  <2> QED
    BY <2>1, <2>2
<1>6. DOMAIN t = 1..(l - 1)
  BY <1>5, LenProperties
<1>7. ASSUME NEW j \in 1..(l - 1), j < n
      PROVE  t[j] = q[from(j)]
  BY <1>1, <1>2, <1>3, <1>4, <1>7, ConcatProperties
<1>8. ASSUME NEW j \in 1..(l - 1), ~(j < n)
      PROVE  t[j] = q[from(j)]
  <2>1. t[j] = w[j - Len(u)]
    BY SMTT(30), <1>1, <1>2, <1>3, <1>4, <1>8, ConcatProperties
  <2>2. j - Len(u) = j - n + 1 /\ j - n + 1 \in 1..(l - n) /\ n + (j - n + 1) = j + 1
    BY <1>1, <1>2, <1>8
  <2> QED
    BY <1>3, <1>8, <2>1, <2>2
<1> QED
  BY <1>5, <1>6, <1>7, <1>8

\* The cache without an id has the other nodes, and one node less if it had the id.
LEMMA OthersSound ==
    ASSUME NEW c \in Seq(Node), Unique(c), NEW id, NEW t, t = Others(c, id)
    PROVE  /\ t \in Seq(Node) /\ Unique(t)
           /\ Nodes(t) = {n \in Nodes(c) : n.id # id}
           /\ IsIn(c, id) => Len(t) = Len(c) - 1
           /\ ~IsIn(c, id) => t = c
<1>0. DOMAIN c = 1..Len(c) /\ Len(c) \in Nat
  BY LenProperties
<1>1. CASE Places(c, id) = {}
  <2>1. t = c
    BY <1>1 DEF Others
  <2>2. \A n \in Nodes(c) : n.id # id
    BY <1>1 DEF Places, Nodes
  <2> QED
    BY <2>1, <2>2 DEF IsIn
<1>2. CASE Places(c, id) # {}
  <2> DEFINE n == CHOOSE j \in Places(c, id) : TRUE
             from(j) == IF j < n THEN j ELSE j + 1
  <2>1. n \in DOMAIN c /\ c[n].id = id
    BY <1>2 DEF Places
  <2>2. t = RemoveAt(c, n)
    BY <1>2 DEF Others
  <2> HIDE DEF n
  <2>3. t \in Seq(Node) /\ Len(t) = Len(c) - 1 /\ \A j \in DOMAIN t : t[j] = c[from(j)]
    BY <2>1, <2>2, RemoveAtSound
  <2>4. DOMAIN t = 1..(Len(c) - 1)
    BY <2>3, LenProperties
  <2>5. \A j \in DOMAIN t : from(j) \in DOMAIN c /\ from(j) # n
    BY <1>0, <2>1, <2>4
  <2>6. \A i, j \in DOMAIN t : from(i) = from(j) => i = j
    BY <1>0, <2>1, <2>4
  <2>7. Unique(t)
    BY <2>3, <2>5, <2>6 DEF Unique
  <2>8. \A k \in DOMAIN c : k # n => \E j \in DOMAIN t : from(j) = k
    <3> SUFFICES ASSUME NEW k \in DOMAIN c, k # n
                 PROVE  \E j \in DOMAIN t : from(j) = k
      OBVIOUS
    <3>1. CASE k < n
      <4>1. k \in DOMAIN t /\ from(k) = k
        BY <1>0, <2>1, <2>4, <3>1
      <4> QED
        BY <4>1
    <3>2. CASE k > n
      <4>1. k - 1 \in DOMAIN t /\ from(k - 1) = k
        BY <1>0, <2>1, <2>4, <3>2
      <4> QED
        BY <4>1
    <3> QED
      BY <1>0, <2>1, <3>1, <3>2
  <2>9. \A k \in DOMAIN c : k # n => c[k].id # id
    BY <2>1 DEF Unique
  <2>10. Nodes(t) \subseteq {m \in Nodes(c) : m.id # id}
    BY <2>3, <2>5, <2>9 DEF Nodes
  <2>11. ASSUME NEW m \in Nodes(c), m.id # id PROVE m \in Nodes(t)
    <3>1. PICK k \in DOMAIN c : c[k] = m
      BY DEF Nodes
    <3>2. k # n
      BY <2>1, <2>11, <3>1
    <3>3. PICK j \in DOMAIN t : from(j) = k
      BY <2>8, <3>1, <3>2
    <3>4. t[j] = m
      BY <2>3, <3>1, <3>3
    <3> QED
      BY <3>4 DEF Nodes
  <2>12. IsIn(c, id)
    BY <2>1 DEF IsIn, Nodes
  <2> QED
    BY <2>3, <2>7, <2>10, <2>11, <2>12
<1> QED
  BY <1>1, <1>2

\* A node put in front.
LEMMA ConsSound ==
    ASSUME NEW c \in Seq(Node), Unique(c), NEW n \in Node, ~IsIn(c, n.id),
           NEW t, t = <<n>> \o c
    PROVE  /\ t \in Seq(Node) /\ Unique(t) /\ t # <<>> /\ Head(t) = n
           /\ Nodes(t) = {n} \cup Nodes(c)
           /\ Len(t) = Len(c) + 1
<1>1. <<n>> \in Seq(Node) /\ Len(<<n>>) = 1 /\ <<n>>[1] = n
  OBVIOUS
<1>2. Len(c) \in Nat /\ DOMAIN c = 1..Len(c)
  BY LenProperties
<1>3. /\ t \in Seq(Node) /\ Len(t) = Len(c) + 1
      /\ \A j \in 1..(Len(c) + 1) : t[j] = IF j <= 1 THEN n ELSE c[j - 1]
  <2>1. /\ t \in Seq(Node) /\ Len(t) = 1 + Len(c)
        /\ \A j \in 1..(1 + Len(c)) : t[j] = IF j <= 1 THEN <<n>>[j] ELSE c[j - 1]
    BY <1>1, ConcatProperties
  <2> QED
    BY <2>1, <1>1, <1>2
<1>4. DOMAIN t = 1..(Len(c) + 1)
  BY <1>3, LenProperties
<1>5. 1 \in DOMAIN t /\ t[1] = n /\ \A j \in DOMAIN c : j + 1 \in DOMAIN t /\ t[j + 1] = c[j]
  BY <1>2, <1>3, <1>4
<1>6. \A j \in DOMAIN t : j = 1 \/ (j - 1 \in DOMAIN c /\ t[j] = c[j - 1])
  BY <1>2, <1>3, <1>4
<1>7. Nodes(t) = {n} \cup Nodes(c)
  <2>1. \A m \in Nodes(t) : m = n \/ m \in Nodes(c)
    BY <1>5, <1>6 DEF Nodes
  <2>2. n \in Nodes(t) /\ \A m \in Nodes(c) : m \in Nodes(t)
    BY <1>5 DEF Nodes
  <2> QED
    BY <2>1, <2>2
<1>8. \A j \in DOMAIN c : c[j].id # n.id
  BY DEF IsIn, Nodes
<1>9. Unique(t)
  <2> SUFFICES ASSUME NEW i \in DOMAIN t, NEW j \in DOMAIN t, t[i].id = t[j].id
               PROVE  i = j
    BY DEF Unique
  <2>1. CASE i = 1 /\ j = 1
    BY <2>1
  <2>2. CASE i = 1 /\ j # 1
    BY <1>5, <1>6, <1>8, <2>2
  <2>3. CASE i # 1 /\ j = 1
    BY <1>5, <1>6, <1>8, <2>3
  <2>4. CASE i # 1 /\ j # 1
    <3>1. i - 1 = j - 1
      BY <1>6, <2>4 DEF Unique
    <3> QED
      BY <3>1, <1>4
  <2> QED
    BY <2>1, <2>2, <2>3, <2>4
<1> QED
  BY <1>3, <1>5, <1>7, <1>9

\* The last node taken off.
LEMMA FrontSound ==
    ASSUME NEW c \in Seq(Node), Unique(c), c # <<>>, NEW t, t = Front(c)
    PROVE  /\ t \in Seq(Node) /\ Unique(t) /\ Len(t) = Len(c) - 1
           /\ Last(c) \in Nodes(c)
           /\ Nodes(t) = Nodes(c) \ {Last(c)}
           /\ Len(c) > 1 => t # <<>> /\ Head(t) = Head(c)
<1>1. Len(c) \in Nat \ {0} /\ DOMAIN c = 1..Len(c) /\ \A j \in 1..Len(c) : c[j] \in Node
  BY LenProperties, EmptySeq
<1>2. /\ t \in Seq(Node) /\ Len(t) = Len(c) - 1 /\ \A j \in 1..(Len(c) - 1) : t[j] = c[j]
  BY <1>1 DEF Front
<1>3. DOMAIN t = 1..(Len(c) - 1)
  BY <1>2, LenProperties
<1>4. Last(c) = c[Len(c)] /\ Len(c) \in DOMAIN c
  BY <1>1 DEF Last
<1>5. Unique(t)
  BY <1>1, <1>2, <1>3 DEF Unique
<1>6. \A j \in DOMAIN c : j \in DOMAIN t \/ j = Len(c)
  BY <1>1, <1>3
<1>7. \A j \in DOMAIN t : j \in DOMAIN c /\ j # Len(c) /\ t[j] = c[j]
  BY <1>1, <1>2, <1>3
<1>8. \A j \in DOMAIN c : c[j] = Last(c) => j = Len(c)
  BY <1>4 DEF Unique
<1>9. Nodes(t) = Nodes(c) \ {Last(c)}
  <2>1. \A n \in Nodes(t) : n \in Nodes(c) /\ n # Last(c)
    BY <1>7, <1>8 DEF Nodes
  <2>2. ASSUME NEW n \in Nodes(c), n # Last(c) PROVE n \in Nodes(t)
    <3>1. PICK j \in DOMAIN c : c[j] = n
      BY DEF Nodes
    <3>2. j \in DOMAIN t
      BY <1>4, <1>6, <2>2, <3>1
    <3> QED
      BY <1>7, <3>1, <3>2 DEF Nodes
  <2> QED
    BY <2>1, <2>2
<1>10. Last(c) \in Nodes(c)
  BY <1>4 DEF Nodes
<1>11. Len(c) > 1 => t # <<>> /\ Head(t) = Head(c)
  BY <1>1, <1>2, <1>3
<1> QED
  BY <1>2, <1>5, <1>9, <1>10, <1>11

-------------------------------------------------------------------------------
(* The cache: what an access of a node keeps, adds and evicts. *)

USE OdictAssumption

\* The cache has room for a node at least.
LEMMA SetupType ==
    ASSUME setup \in Setups
    PROVE  setup.cache \in Nat \ {0} /\ setup.oram \in Nat \ {0}
OBVIOUS

\* The state of an operation when the ids of nodes are 1..m.
WorkOK(w, m) ==
    /\ w \in Work
    /\ Unique(w.cache)
    /\ \A n \in Nodes(w.cache) : n \in Node /\ n.id \in 1..m
    /\ Len(w.cache) <= setup.cache

LEMMA NodesType ==
    ASSUME NEW c \in Seq(Node) PROVE \A n \in Nodes(c) : n \in Node
<1>1. DOMAIN c = 1..Len(c) /\ \A j \in 1..Len(c) : c[j] \in Node
  BY LenProperties
<1> QED
  BY <1>1 DEF Nodes

\* What Put does, whether it evicts a node or not.
Keeps(w, v, n) ==
    /\ n \in Nodes(v.cache)
    /\ \A k \in Nodes(v.cache) : k = n \/ (k \in Nodes(w.cache) /\ k.id # n.id)
    /\ \A k \in Nodes(w.cache) :
          k.id = n.id \/ k \in Nodes(v.cache) \/ k.id \in v.evicted \/ memory[k.id] = k
    /\ Len(v.cache) <= Len(w.cache) + 1
    /\ IsIn(w.cache, n.id) => Len(v.cache) <= Len(w.cache)
    /\ IsIn(w.cache, n.id) \/ Len(w.cache) < setup.cache =>
          \A k \in Nodes(w.cache) : k.id = n.id \/ k \in Nodes(v.cache)

\* The fields that Put leaves alone.
SameCounts(w, v) ==
    /\ v.reads = w.reads /\ v.writes = w.writes /\ v.bad = w.bad
    /\ v.rotated = w.rotated /\ v.stale = w.stale

LEMMA PutSound ==
    ASSUME setup \in Setups, NEW m \in Nat, NEW w, WorkOK(w, m),
           NEW n \in Node, n.id \in 1..m, NEW v, v = Put(w, n)
    PROVE  /\ WorkOK(v, m) /\ v.cache # <<>> /\ Top(v) = n
           /\ SameCounts(w, v)
           /\ w.evicted \subseteq v.evicted
           /\ Keeps(w, v, n)
           /\ IsIn(w.cache, n.id) \/ Len(w.cache) < setup.cache => v.evicted = w.evicted
           /\ (\A k \in Nodes(w.cache) : memory[k.id] = k) => v.evicted = w.evicted
<1> DEFINE o == Others(w.cache, n.id)
           c == <<n>> \o o
           back == Last(c)
<1>0. setup.cache \in Nat /\ setup.cache >= 1
  BY SetupType
<1>1. /\ w.cache \in Seq(Node) /\ Unique(w.cache) /\ w.evicted \in SUBSET Ids
      /\ Len(w.cache) \in Nat /\ Len(w.cache) <= setup.cache
      /\ \A k \in Nodes(w.cache) : k \in Node /\ k.id \in 1..m
  BY LenProperties DEF WorkOK, Work
<1>2. /\ o \in Seq(Node) /\ Unique(o)
      /\ Nodes(o) = {k \in Nodes(w.cache) : k.id # n.id}
      /\ IsIn(w.cache, n.id) => Len(o) = Len(w.cache) - 1
      /\ ~IsIn(w.cache, n.id) => o = w.cache
  BY <1>1, OthersSound
<1>3. ~IsIn(o, n.id)
  BY <1>2 DEF IsIn
<1> HIDE DEF o
<1>4. /\ c \in Seq(Node) /\ Unique(c) /\ c # <<>> /\ Head(c) = n
      /\ Nodes(c) = {n} \cup Nodes(o) /\ Len(c) = Len(o) + 1
  BY <1>2, <1>3, ConsSound
<1> HIDE DEF c
<1>5. Len(o) \in Nat
  BY <1>2, LenProperties
<1>6. \A k \in Nodes(c) : k \in Node /\ k.id \in 1..m
  BY <1>1, <1>2, <1>4
<1>7. CASE ~Full(c)
  <2>1. v = [w EXCEPT !.cache = c]
    BY <1>7 DEF Put, c, o
  <2>2. v.cache = c /\ v.evicted = w.evicted /\ v \in Work
    BY <1>4, <2>1 DEF WorkOK, Work
  <2>3. SameCounts(w, v)
    BY <2>1 DEF WorkOK, Work, SameCounts
  <2>4. Len(c) <= setup.cache
    BY <1>0, <1>4, <1>5, <1>7 DEF Full
  <2>5. Keeps(w, v, n)
    BY <1>1, <1>2, <1>4, <2>2 DEF Keeps
  <2>6. WorkOK(v, m)
    BY <1>4, <1>6, <2>2, <2>4 DEF WorkOK
  <2> QED
    BY <1>4, <2>2, <2>3, <2>5, <2>6 DEF Top
<1>8. CASE Full(c)
  <2> DEFINE f == Front(c)
  <2>1. Len(c) > setup.cache /\ Len(c) > 1
    BY <1>0, <1>4, <1>5, <1>8 DEF Full
  <2>2. /\ f \in Seq(Node) /\ Unique(f) /\ Len(f) = Len(c) - 1
        /\ back \in Nodes(c) /\ Nodes(f) = Nodes(c) \ {back}
        /\ f # <<>> /\ Head(f) = n
    BY <1>4, <2>1, FrontSound
  <2>3. v = [w EXCEPT !.cache = f,
                      !.evicted = IF back # memory[back.id] THEN @ \cup {back.id} ELSE @]
    BY <1>8 DEF Put, c, o
  <2> HIDE DEF f
  <2>4. back \in Node /\ back.id \in Ids
    BY <1>6, <2>2 DEF Node
  <2> DEFINE e == IF back # memory[back.id] THEN w.evicted \cup {back.id} ELSE w.evicted
  <2>14. e \in SUBSET Ids
    BY <1>1, <2>4
  <2> HIDE DEF back
  <2>15. v = [w EXCEPT !.cache = f, !.evicted = e]
    BY <2>3 DEF WorkOK, Work
  <2> HIDE DEF e
  <2>16. v.cache = f /\ v \in Work /\ v.evicted = e
    BY <2>2, <2>14, <2>15 DEF WorkOK, Work
  <2>5. /\ v.cache = f /\ v \in Work
        /\ v.evicted = IF back # memory[back.id] THEN w.evicted \cup {back.id} ELSE w.evicted
    BY <2>16 DEF e
  <2>6. SameCounts(w, v)
    BY <2>15 DEF WorkOK, Work, SameCounts
  <2>7. ~IsIn(w.cache, n.id) /\ Len(w.cache) = setup.cache
    BY <1>0, <1>1, <1>2, <1>4, <1>5, <2>1
  <2>8. Len(f) <= setup.cache
    BY <1>0, <1>1, <1>2, <1>4, <1>5, <2>2, <2>7
  <2>9. n \in Nodes(f)
    <3>1. Len(f) \in Nat \ {0} /\ DOMAIN f = 1..Len(f) /\ f[1] = n
      BY SMTT(30), <2>2, LenProperties, EmptySeq
    <3> QED
      BY <3>1 DEF Nodes
  <2>10. back.id # n.id /\ back \in Nodes(w.cache)
    BY <1>2, <1>4, <2>2, <2>9
  <2>11. Keeps(w, v, n)
    <3>1. \A k \in Nodes(v.cache) : k = n \/ (k \in Nodes(w.cache) /\ k.id # n.id)
      BY <1>2, <1>4, <2>2, <2>5
    <3>2. ASSUME NEW k \in Nodes(w.cache)
          PROVE  k.id = n.id \/ k \in Nodes(v.cache) \/ k.id \in v.evicted \/ memory[k.id] = k
      <4>1. CASE k = back
        BY <2>5, <4>1
      <4>2. CASE k # back
        BY <1>2, <1>4, <2>2, <2>5, <4>2
      <4> QED
        BY <4>1, <4>2
    <3>3. Len(v.cache) <= Len(w.cache) + 1
      BY <1>1, <1>2, <1>4, <1>5, <2>2, <2>5, <2>7
    <3> QED
      BY <1>0, <1>1, <2>5, <2>7, <2>9, <3>1, <3>2, <3>3 DEF Keeps
  <2>12. WorkOK(v, m)
    BY <1>6, <2>2, <2>5, <2>8 DEF WorkOK
  <2>13. (\A k \in Nodes(w.cache) : memory[k.id] = k) => v.evicted = w.evicted
    BY <2>5, <2>10
  <2> QED
    BY <1>0, <1>1, <2>2, <2>5, <2>6, <2>7, <2>11, <2>12, <2>13 DEF Top
<1> QED
  BY <1>7, <1>8

\* The node of an id, if it is cached.
LEMMA UniqueNode ==
    ASSUME NEW c, Unique(c), NEW k \in Nodes(c), NEW n \in Nodes(c), k.id = n.id
    PROVE  k = n
BY DEF Unique, Nodes

LEMMA WriteSound ==
    ASSUME setup \in Setups, NEW m \in Nat, NEW w, WorkOK(w, m),
           NEW n \in Node, n.id \in 1..m, NEW v, v = OdsAccessWrite(w, n)
    PROVE  /\ WorkOK(v, m)
           /\ v.bad = w.bad /\ v.reads = w.reads /\ v.rotated = w.rotated
           /\ v.stale = w.stale
           /\ w.bad # "no" => v = w
           /\ w.bad = "no" =>
                 /\ v.cache # <<>> /\ Top(v) = n /\ v.writes = w.writes + 1
                 /\ Keeps(w, v, n) /\ w.evicted \ {n.id} \subseteq v.evicted
                 /\ n.id \notin v.evicted
                 /\ IsIn(w.cache, n.id) \/ Len(w.cache) < setup.cache =>
                       v.evicted = w.evicted \ {n.id}
<1>1. CASE w.bad # "no"
  BY <1>1 DEF OdsAccessWrite
<1>2. CASE w.bad = "no"
  <2> DEFINE p == Put(w, n)
             e == p.evicted \ {n.id}
  <2>1. /\ WorkOK(p, m) /\ p.cache # <<>> /\ Top(p) = n
        /\ SameCounts(w, p)
        /\ w.evicted \subseteq p.evicted
        /\ Keeps(w, p, n)
        /\ IsIn(w.cache, n.id) \/ Len(w.cache) < setup.cache => p.evicted = w.evicted
    <3>1. p = Put(w, n)
      OBVIOUS
    <3>2. WorkOK(w, m) /\ n \in Node /\ n.id \in 1..m /\ setup \in Setups /\ m \in Nat
      OBVIOUS
    <3> HIDE DEF p, e
    <3> QED
      BY ONLY <3>1, <3>2, PutSound
  <2>10. v = [p EXCEPT !.writes = @ + 1, !.evicted = e]
    BY <1>2 DEF OdsAccessWrite
  <2> HIDE DEF p
  <2>3. p \in Work /\ w \in Work
    BY <2>1 DEF WorkOK
  <2>4. p.writes = w.writes /\ p.reads = w.reads /\ p.bad = w.bad /\ p.rotated = w.rotated
        /\ p.stale = w.stale
    BY <2>1 DEF SameCounts
  <2> DEFINE x == w.writes + 1
  <2>11. x \in Nat
    BY <2>3 DEF Work
  <2>2. v = [p EXCEPT !.writes = x, !.evicted = e]
    BY <2>3, <2>4, <2>10 DEF Work
  <2> HIDE DEF x
  <2>5. e \in SUBSET Ids
    BY <2>3 DEF Work
  <2> HIDE DEF e
  <2>6. /\ v \in Work /\ v.cache = p.cache /\ v.writes = w.writes + 1 /\ v.evicted = e
        /\ v.reads = w.reads /\ v.bad = w.bad /\ v.rotated = w.rotated /\ v.stale = w.stale
    <3>1. /\ v \in Work /\ v.cache = p.cache /\ v.writes = x /\ v.evicted = e
          /\ v.reads = p.reads /\ v.bad = p.bad /\ v.rotated = p.rotated /\ v.stale = p.stale
      BY <2>2, <2>3, <2>5, <2>11 DEF Work
    <3> QED
      BY <2>4, <3>1 DEF x
  <2>7. WorkOK(v, m)
    BY <2>1, <2>6 DEF WorkOK
  <2>8. Top(v) = n
    BY <2>1, <2>6 DEF Top
  <2>9. Keeps(w, v, n)
    BY <2>1, <2>6 DEF Keeps, e
  <2> QED
    BY <1>2, <2>1, <2>6, <2>7, <2>8, <2>9 DEF e
<1> QED
  BY <1>1, <1>2

\* What the ORAM has under an id is a node with that id, or no node.
MemoryOK(m) ==
    \A i \in Ids : /\ memory[i] \in Node \cup {Blank, Gone}
                   /\ memory[i] \in Node => memory[i].id = i /\ i \in 1..m

LEMMA ReadSound ==
    ASSUME setup \in Setups, NEW m \in Nat, NEW w, WorkOK(w, m), MemoryOK(m),
           NEW id \in Ids, NEW v, v = OdsAccessRead(w, id)
    PROVE  /\ WorkOK(v, m) /\ v.writes = w.writes /\ v.rotated = w.rotated
           /\ w.bad # "no" => v = w
           /\ w.bad = "no" =>
                 /\ v.reads = w.reads + 1
                 /\ w.evicted \subseteq v.evicted
                 /\ IsIn(w.cache, id) => /\ v.bad = "no" /\ Top(v) \in Nodes(w.cache)
                                         /\ v.stale = w.stale
                 /\ ~IsIn(w.cache, id) /\ memory[id] \in Node =>
                       v.bad = "no" /\ Top(v) = memory[id] /\ v.stale = (w.stale \/ id \in w.evicted)
                 /\ ~IsIn(w.cache, id) /\ memory[id] \notin Node =>
                       v.bad # "no" /\ v.evicted = w.evicted /\ v.stale = w.stale
                 /\ v.bad = "no" =>
                       /\ v.cache # <<>> /\ Top(v) \in Node /\ Top(v).id = id /\ id \in 1..m
                       /\ Keeps(w, v, Top(v))
                 /\ IsIn(w.cache, id) \/ Len(w.cache) < setup.cache => v.evicted = w.evicted
                 /\ (\A k \in Nodes(w.cache) : memory[k.id] = k) => v.evicted = w.evicted
<1>0. /\ w \in Work /\ w.cache \in Seq(Node) /\ Unique(w.cache) /\ w.evicted \in SUBSET Ids
      /\ Len(w.cache) \in Nat /\ Len(w.cache) <= setup.cache
      /\ \A k \in Nodes(w.cache) : k \in Node /\ k.id \in 1..m
      /\ w.reads \in Nat /\ w.stale \in BOOLEAN
  BY LenProperties DEF WorkOK, Work
<1>1. CASE w.bad # "no"
  BY <1>1 DEF OdsAccessRead
<1>2. CASE w.bad = "no" /\ IsIn(w.cache, id)
  <2> DEFINE j == CHOOSE i \in Places(w.cache, id) : TRUE
             n == w.cache[j]
             o == Others(w.cache, id)
             c == <<n>> \o o
  <2>1. PICK k \in Nodes(w.cache) : k.id = id
    BY <1>2 DEF IsIn
  <2>2. Places(w.cache, id) # {}
    BY <2>1 DEF Places, Nodes
  <2>3. j \in DOMAIN w.cache /\ w.cache[j].id = id
    BY <2>2 DEF Places
  <2>4. n \in Nodes(w.cache) /\ n.id = id /\ n \in Node /\ id \in 1..m
    BY <1>0, <2>3 DEF Nodes
  <2>5. v = [w EXCEPT !.reads = w.reads + 1, !.cache = c]
    BY <1>0, <1>2, <2>2 DEF OdsAccessRead, Work
  <2> HIDE DEF n, j
  <2> DEFINE x == w.reads + 1
  <2>15. x \in Nat
    BY <1>0
  <2> HIDE DEF x
  <2>6. /\ o \in Seq(Node) /\ Unique(o)
        /\ Nodes(o) = {i \in Nodes(w.cache) : i.id # id} /\ Len(o) = Len(w.cache) - 1
    BY <1>0, <1>2, OthersSound
  <2>7. ~IsIn(o, n.id)
    BY <2>4, <2>6 DEF IsIn
  <2> HIDE DEF o
  <2>8. /\ c \in Seq(Node) /\ Unique(c) /\ c # <<>> /\ Head(c) = n
        /\ Nodes(c) = {n} \cup Nodes(o) /\ Len(c) = Len(o) + 1
    BY <2>4, <2>6, <2>7, ConsSound
  <2> HIDE DEF c
  <2>9. /\ v \in Work /\ v.cache = c /\ v.reads = w.reads + 1 /\ v.writes = w.writes
        /\ v.evicted = w.evicted /\ v.bad = "no" /\ v.rotated = w.rotated /\ v.stale = w.stale
    <3>1. v = [w EXCEPT !.reads = x, !.cache = c]
      BY <2>5 DEF x
    <3>2. /\ v \in Work /\ v.cache = c /\ v.reads = x /\ v.writes = w.writes
          /\ v.evicted = w.evicted /\ v.bad = w.bad /\ v.rotated = w.rotated /\ v.stale = w.stale
      BY <1>0, <2>8, <2>15, <3>1 DEF Work
    <3> QED
      BY <1>2, <3>2 DEF x
  <2>10. \A i \in Nodes(w.cache) : i.id = id => i = n
    BY <1>0, <2>4, UniqueNode
  <2>11. Nodes(c) = Nodes(w.cache) /\ Len(c) = Len(w.cache)
    BY <1>0, <2>4, <2>6, <2>8, <2>10
  <2>12. WorkOK(v, m)
    BY <1>0, <2>8, <2>9, <2>11 DEF WorkOK
  <2>13. Top(v) = n
    BY <2>8, <2>9 DEF Top
  <2>14. Keeps(w, v, n)
    BY <1>0, <2>4, <2>9, <2>10, <2>11 DEF Keeps
  <2> QED
    BY <1>0, <1>2, <2>4, <2>8, <2>9, <2>12, <2>13, <2>14
<1>3. CASE w.bad = "no" /\ ~IsIn(w.cache, id) /\ memory[id] \notin Node
  <2>1. Places(w.cache, id) = {}
    BY <1>3 DEF Places, IsIn, Nodes
  <2>2. memory[id] \in {Blank, Gone}
    BY <1>3 DEF MemoryOK
  <2> DEFINE b == IF memory[id] = Gone THEN "aborted" ELSE "garbled"
           x == w.reads + 1
  <2>3. v = [w EXCEPT !.reads = x, !.bad = b]
    BY <1>0, <1>3, <2>1, <2>2 DEF OdsAccessRead, Work
  <2>7. x \in Nat
    BY <1>0
  <2> HIDE DEF x
  <2>4. b \in {"no", "aborted", "garbled"} /\ b # "no"
    OBVIOUS
  <2> HIDE DEF b
  <2>5. /\ v \in Work /\ v.cache = w.cache /\ v.reads = w.reads + 1 /\ v.writes = w.writes
        /\ v.evicted = w.evicted /\ v.bad = b /\ v.rotated = w.rotated /\ v.stale = w.stale
    <3>1. /\ v \in Work /\ v.cache = w.cache /\ v.reads = x /\ v.writes = w.writes
          /\ v.evicted = w.evicted /\ v.bad = b /\ v.rotated = w.rotated /\ v.stale = w.stale
      BY <1>0, <2>3, <2>4, <2>7 DEF Work
    <3> QED
      BY <3>1 DEF x
  <2>6. WorkOK(v, m)
    BY <1>0, <2>5 DEF WorkOK
  <2> QED
    BY <1>3, <2>4, <2>5, <2>6
<1>4. CASE w.bad = "no" /\ ~IsIn(w.cache, id) /\ memory[id] \in Node
  <2> DEFINE u == [w EXCEPT !.reads = @ + 1]
             n == memory[id]
             p == Put(u, n)
             st == w.stale \/ id \in w.evicted
  <2>1. Places(w.cache, id) = {}
    BY <1>4 DEF Places, IsIn, Nodes
  <2>2. n \in Node /\ n.id = id /\ id \in 1..m /\ n \notin {Blank, Gone}
    BY <1>4 DEF MemoryOK
  <2>3. v = [p EXCEPT !.stale = @ \/ id \in w.evicted]
    BY <1>4, <2>1, <2>2 DEF OdsAccessRead
  <2>4. /\ u \in Work /\ u.cache = w.cache /\ u.reads = w.reads + 1 /\ u.writes = w.writes
        /\ u.evicted = w.evicted /\ u.bad = "no" /\ u.rotated = w.rotated /\ u.stale = w.stale
    <3>1. w \in Work /\ w.bad = "no" /\ w.reads \in Nat
      BY <1>0, <1>4
    <3> QED
      BY ONLY SMTT(30), <3>1 DEF Work
  <2>5. WorkOK(u, m)
    BY <1>0, <2>4 DEF WorkOK
  <2> HIDE DEF u, n
  <2>6. /\ WorkOK(p, m) /\ p.cache # <<>> /\ Top(p) = n
        /\ SameCounts(u, p)
        /\ u.evicted \subseteq p.evicted
        /\ Keeps(u, p, n)
        /\ IsIn(u.cache, n.id) \/ Len(u.cache) < setup.cache => p.evicted = u.evicted
        /\ (\A k \in Nodes(u.cache) : memory[k.id] = k) => p.evicted = u.evicted
    <3>1. p = Put(u, n)
      OBVIOUS
    <3> HIDE DEF p
    <3> QED
      BY <2>2, <2>5, <3>1, PutSound
  <2> HIDE DEF p
  <2>7. p \in Work
    BY <2>6 DEF WorkOK
  <2>8. /\ p.writes = w.writes /\ p.reads = w.reads + 1 /\ p.bad = "no"
        /\ p.rotated = w.rotated /\ p.stale = w.stale
    BY <2>4, <2>6 DEF SameCounts
  <2>9. st \in BOOLEAN /\ v = [p EXCEPT !.stale = st]
    BY <1>0, <2>3, <2>7, <2>8 DEF Work
  <2> HIDE DEF st
  <2>10. /\ v \in Work /\ v.cache = p.cache /\ v.writes = w.writes /\ v.evicted = p.evicted
         /\ v.reads = w.reads + 1 /\ v.bad = "no" /\ v.rotated = w.rotated /\ v.stale = st
    BY <2>7, <2>8, <2>9 DEF Work
  <2>11. WorkOK(v, m)
    BY <2>6, <2>10 DEF WorkOK
  <2>12. Top(v) = n
    BY <2>6, <2>10 DEF Top
  <2>13. Keeps(w, v, n)
    BY <2>4, <2>6, <2>10 DEF Keeps
  <2> QED
    BY <1>4, <2>2, <2>4, <2>6, <2>10, <2>11, <2>12, <2>13 DEF n, st
<1> QED
  BY <1>1, <1>2, <1>3, <1>4

-------------------------------------------------------------------------------
(* Nodes. *)

LEMMA OtherSide ==
    ASSUME NEW s \in Sides
    PROVE  Other(s) \in Sides /\ Other(s) # s /\ Other(Other(s)) = s
           /\ Sides = {s, Other(s)}
BY DEF Sides, Other

\* m is n with another child, of height h, on one side.
Relink1(m, n, s, c, h) ==
    /\ m \in Node /\ m.id = n.id /\ m.key = n.key /\ m.val = n.val
    /\ m.child[s] = c /\ m.child[Other(s)] = n.child[Other(s)]
    /\ m.height[s] = h /\ m.height[Other(s)] = n.height[Other(s)]

LEMMA NodeUpdate ==
    ASSUME NEW n \in Node, NEW s \in Sides, NEW c \in Ids, NEW h \in Nat
    PROVE  /\ Relink1([n EXCEPT !.child[s] = c, !.height[s] = h], n, s, c, h)
           /\ Relink1([n EXCEPT !.height[s] = h, !.child[s] = c], n, s, c, h)
<1>1. Other(s) \in Sides /\ Other(s) # s
  BY OtherSide
<1> DEFINE m == [n EXCEPT !.child[s] = c, !.height[s] = h]
           w == [n EXCEPT !.height[s] = h, !.child[s] = c]
<1>2. Relink1(m, n, s, c, h)
  <2>1. m \in Node
    BY DEF Node
  <2>2. m.child = [n.child EXCEPT ![s] = c] /\ m.height = [n.height EXCEPT ![s] = h]
        /\ m.id = n.id /\ m.key = n.key /\ m.val = n.val
    BY DEF Node
  <2>3. n.child \in [Sides -> Ids] /\ n.height \in [Sides -> Nat]
    BY DEF Node
  <2> QED
    BY <1>1, <2>1, <2>2, <2>3 DEF Relink1
<1>3. Relink1(w, n, s, c, h)
  <2>1. w \in Node
    BY DEF Node
  <2>2. w.child = [n.child EXCEPT ![s] = c] /\ w.height = [n.height EXCEPT ![s] = h]
        /\ w.id = n.id /\ w.key = n.key /\ w.val = n.val
    BY DEF Node
  <2>3. n.child \in [Sides -> Ids] /\ n.height \in [Sides -> Nat]
    BY DEF Node
  <2> QED
    BY <1>1, <2>1, <2>2, <2>3 DEF Relink1
<1> QED
  BY <1>2, <1>3

LEMMA NodeFields ==
    ASSUME NEW n \in Node
    PROVE  /\ n.id \in Ids /\ n.key \in Key /\ n.key \in Nat /\ n.val \in Val
           /\ \A s \in Sides : n.child[s] \in Ids /\ n.height[s] \in Nat
BY DEF Node

\* The height of a node is one more than the greater height of its children.
LEMMA HeightType ==
    ASSUME NEW n \in Node
    PROVE  /\ HEIGHT(n) \in Nat \ {0}
           /\ \A s \in Sides : /\ HEIGHT(n) >= n.height[s] + 1
                               /\ n.height[s] >= n.height[Other(s)] => HEIGHT(n) = n.height[s] + 1
<1>1. n.height["left"] \in Nat /\ n.height["right"] \in Nat
  BY NodeFields DEF Sides
<1> QED
  BY <1>1 DEF HEIGHT, Sides, Other

LEMMA LeafType ==
    ASSUME NEW id \in Ids, NEW k \in Key, NEW v \in Val
    PROVE  /\ TreeNode(id, k, v) \in Node
           /\ TreeNode(id, k, v).id = id /\ TreeNode(id, k, v).key = k
           /\ TreeNode(id, k, v).val = v
           /\ \A s \in Sides : /\ TreeNode(id, k, v).child[s] = invalid_mask
                               /\ TreeNode(id, k, v).height[s] = 0
           /\ HEIGHT(TreeNode(id, k, v)) = 1
<1>1. invalid_mask \in Ids
  BY DEF invalid_mask, Ids
<1> QED
  BY <1>1 DEF TreeNode, Node, Sides, HEIGHT

-------------------------------------------------------------------------------
(* Typing, of damaged trees as well. *)

Running == pc \in {"idle", "descend", "ascend", "balance", "rotate", "pad_reads",
                   "write_back"}

\* The ids of nodes are 1..used.
used == IF pc = "descend" /\ call.op = "insert" THEN node_count - 2 ELSE node_count - 1

CallOK ==
    /\ pc # "idle" => call.op \in {"find", "insert"} /\ call.key \in Key
    /\ call.op = "insert" => call.val \in Val /\ node_count >= 2
    /\ pc \in {"ascend", "balance", "rotate"} => call.op = "insert"

\* Every cached node and every block that is a node has an id that was given out,
\* and an operation goes on only while no read went wrong.
Typing ==
    /\ TypeOK
    /\ MemoryOK(used)
    /\ WorkOK(ods, used)
    /\ \A i \in DOMAIN stack : stack[i].node.id \in 1..used
    /\ \A i \in DOMAIN tasks : tasks[i].node.id \in 1..used
    /\ pc = "rotate" => tasks # <<>>
    /\ pc \in {"ascend", "balance", "rotate"} => ods.cache # <<>>
    /\ pc = "idle" => ods = Start
    /\ Running => ods.bad = "no"
    /\ CallOK

LEMMA UsedType ==
    ASSUME Typing
    PROVE  used \in Nat /\ used <= MaxInserts /\ used <= node_count - 1
BY DEF Typing, TypeOK, CallOK, used

LEMMA StartOK ==
    ASSUME setup \in Setups, NEW m \in Nat
    PROVE  WorkOK(Start, m) /\ Nodes(Start.cache) = {}
<1>1. Start.cache = <<>> /\ <<>> \in Seq(Node) /\ DOMAIN <<>> = {} /\ Len(<<>>) = 0
  BY DEF Start
<1>2. Start \in Work
  BY <1>1 DEF Start, Work
<1>3. Nodes(Start.cache) = {}
  BY <1>1 DEF Nodes
<1> QED
  BY <1>1, <1>2, <1>3, SetupType DEF WorkOK, Unique

LEMMA InitTyping ==
    ASSUME Init PROVE Typing
<1>1. setup \in Setups /\ ods = Start /\ node_count = 1 /\ pc = "idle"
  BY DEF Init
<1>2. used = 0
  BY DEF Init, used
<1>3. WorkOK(ods, used)
  BY <1>1, <1>2, StartOK
<1>4. MemoryOK(used)
  BY DEF Init, MemoryOK
<1>5. TypeOK
  <2>1. memory \in [Ids -> Node \cup {Blank, Gone}] /\ root_id \in Ids /\ cursor \in Ids
    BY DEF Init, invalid_mask, Ids
  <2>2. ods \in Work /\ Len(ods.cache) <= setup.cache
    BY <1>3 DEF WorkOK
  <2>3. call \in [op : {"none", "find", "insert"}, key : Key \cup {None}, val : Val \cup {None}]
    BY DEF Init
  <2>4. node_count \in 1..(MaxInserts + 1) /\ faults \in 0..MaxFaults
    BY DEF Init
  <2>5. stack \in Seq([node : Node, side : Sides \cup {"here"}]) /\ tasks \in Seq(Tasks)
    BY DEF Init
  <2> QED
    BY <1>1, <2>1, <2>2, <2>3, <2>4, <2>5 DEF Init, TypeOK
<1>6. DOMAIN stack = {} /\ DOMAIN tasks = {}
  BY DEF Init
<1>7. CallOK
  BY DEF Init, CallOK
<1>8. ods.bad = "no"
  BY <1>1 DEF Start
<1> QED
  BY <1>1, <1>3, <1>4, <1>5, <1>6, <1>7, <1>8 DEF Typing

LEMMA WorkMono ==
    ASSUME NEW m \in Nat, NEW p \in Nat, m <= p, NEW w, WorkOK(w, m)
    PROVE  WorkOK(w, p)
BY DEF WorkOK

Frame == [node : Node, side : Sides \cup {"here"}]
Stacks == Seq(Frame)

\* A step that leaves the memory, the call and the counters alone keeps the typing
\* when it keeps that of the operation's own state.
LEMMA KeptTyping ==
    ASSUME Typing, Kept, NEW m \in Nat, m = used', used <= m, WorkOK(ods', m),
           pc' \in {"descend", "ascend", "balance", "rotate", "pad_reads",
                    "write_back", "panicked", "aborted", "garbled", "overflowed"},
           stack' \in Stacks, \A i \in DOMAIN stack' : stack'[i].node.id \in 1..m,
           tasks' \in Seq(Tasks), \A i \in DOMAIN tasks' : tasks'[i].node.id \in 1..m,
           cursor' \in Ids, answer' \in Val \cup {None},
           dict' \in [Key -> Val \cup {None}], dropped' \in BOOLEAN,
           pc' = "rotate" => tasks' # <<>>,
           pc' \in {"ascend", "balance", "rotate"} => ods'.cache # <<>> /\ call.op = "insert",
           call.op \in {"find", "insert"}, call.key \in Key,
           Running' => ods'.bad = "no"
    PROVE  Typing'
<1>1. /\ memory' = memory /\ setup' = setup /\ node_count' = node_count
      /\ call' = call /\ root_id' = root_id /\ faults' = faults
  BY DEF Kept
<1>2. used \in Nat
  BY UsedType
<1>3. MemoryOK(used)'
  BY <1>1, <1>2 DEF Typing, MemoryOK
<1>4. WorkOK(ods, used)'
  BY <1>1 DEF WorkOK
<1>5. TypeOK'
  <2>1. ods' \in Work /\ Len(ods'.cache) <= setup'.cache
    BY <1>1 DEF WorkOK
  <2> QED
    BY <1>1, <2>1 DEF Typing, TypeOK, Stacks, Frame
<1>6. CallOK'
  BY <1>1 DEF Typing, CallOK
<1> QED
  BY <1>1, <1>3, <1>4, <1>5, <1>6 DEF Typing

LEMMA TypingFacts ==
    ASSUME Typing
    PROVE  /\ setup \in Setups /\ used \in Nat /\ WorkOK(ods, used) /\ MemoryOK(used)
           /\ cursor \in Ids /\ stack \in Stacks /\ tasks \in Seq(Tasks)
           /\ answer \in Val \cup {None} /\ dict \in [Key -> Val \cup {None}]
           /\ dropped \in BOOLEAN /\ call.val \in Val \cup {None}
           /\ \A i \in DOMAIN stack : stack[i].node.id \in 1..used
           /\ \A i \in DOMAIN tasks : tasks[i].node.id \in 1..used
           /\ CallOK
           /\ Running => ods.bad = "no"
           /\ ods.cache \in Seq(Node)
           /\ node_count \in Nat
BY UsedType DEF Typing, TypeOK, Stacks, Frame, WorkOK, Work

LEMMA BrokenTyping ==
    ASSUME Typing, Broken PROVE Typing'
<1> USE DEF Broken
<1>0. /\ setup \in Setups /\ used \in Nat /\ WorkOK(ods, used) /\ MemoryOK(used)
      /\ cursor \in Ids /\ ods.bad = "no"
  BY TypingFacts DEF Running
<1> DEFINE m == used'
<1>1. m \in Nat /\ used <= m
  BY <1>0 DEF used, Kept, Typing, TypeOK, Goto
<1>2. WorkOK(ods', used)
  BY <1>0, ReadSound
<1>3. WorkOK(ods', m)
  BY <1>0, <1>1, <1>2, WorkMono
<1>4. ods'.bad \in {"aborted", "garbled"}
  BY <1>2 DEF WorkOK, Work
<1>5. call.op \in {"find", "insert"} /\ call.key \in Key
  BY DEF Typing, CallOK
<1>6. pc' \in {"aborted", "garbled"}
  BY <1>4 DEF Goto
<1>7. \A i \in 1..used : i \in 1..m
  BY <1>0, <1>1
<1> HIDE DEF m
<1> QED
  BY <1>1, <1>3, <1>5, <1>6, <1>7, TypingFacts, KeptTyping DEF m, Running

LEMMA DescendTyping ==
    ASSUME Typing, Descend
    PROVE  /\ Typing'
           /\ Top(ods') \in Node /\ Top(ods').id = cursor /\ ods'.cache # <<>>
           /\ WorkOK(ods', used) /\ cursor \in 1..used
<1> USE DEF Descend
<1>0. /\ setup \in Setups /\ used \in Nat /\ WorkOK(ods, used) /\ MemoryOK(used)
      /\ cursor \in Ids /\ ods.bad = "no"
  BY TypingFacts DEF Running
<1> DEFINE m == used'
           n == Top(ods')
           side == Side(n, call.key)
<1>1. /\ WorkOK(ods', used) /\ ods'.cache # <<>>
      /\ n \in Node /\ n.id = cursor /\ cursor \in 1..used
  <2>1. ods' = OdsAccessRead(ods, cursor) /\ ods'.bad = "no"
    OBVIOUS
  <2> QED
    BY <1>0, <2>1, ReadSound
<1>2. call.op \in {"find", "insert"} /\ call.key \in Key
  BY DEF Typing, CallOK
<1>3. pc' \in {"descend", "pad_reads", "ascend"} /\ (pc' = "ascend" => call.op = "insert")
  BY <1>2 DEF Goto
<1>4. m \in Nat /\ used <= m /\ call' = call
  BY <1>0, <1>3 DEF used, Kept, Typing, TypeOK
<1>5. WorkOK(ods', m)
  BY <1>0, <1>1, <1>4, WorkMono
<1>6. \A i \in 1..used : i \in 1..m
  BY <1>0, <1>4
<1>7. side \in Sides \cup {"here"}
  BY DEF Side, Sides
<1>8. cursor' \in Ids
  BY <1>0, <1>1, <1>7, NodeFields
<1>9. answer' \in Val \cup {None}
  BY <1>1, NodeFields, TypingFacts
<1>10. stack' \in Stacks /\ \A i \in DOMAIN stack' : stack'[i].node.id \in 1..m
  <2>1. CASE call.op # "insert"
    BY <1>6, <2>1, TypingFacts
  <2>2. CASE call.op = "insert"
    <3> DEFINE f == [node |-> n, side |-> side]
    <3>1. f \in Frame /\ f.node.id \in 1..m
      BY <1>1, <1>6, <1>7 DEF Frame
    <3>2. stack' = Append(stack, f)
      BY <2>2
    <3> HIDE DEF f
    <3>3. stack \in Stacks /\ \A i \in DOMAIN stack : stack[i].node.id \in 1..used
      BY TypingFacts
    <3>4. /\ stack' \in Stacks /\ Len(stack') = Len(stack) + 1
          /\ \A i \in 1..Len(stack) : stack'[i] = stack[i]
          /\ stack'[Len(stack) + 1] = f
      BY <3>1, <3>2, <3>3, AppendProperties DEF Stacks
    <3>5. DOMAIN stack' = 1..(Len(stack) + 1) /\ DOMAIN stack = 1..Len(stack) /\ Len(stack) \in Nat
      BY <3>3, <3>4, LenProperties DEF Stacks
    <3>6. \A i \in DOMAIN stack' : i \in DOMAIN stack \/ i = Len(stack) + 1
      BY <3>5
    <3> QED
      BY <1>6, <3>1, <3>3, <3>4, <3>5, <3>6
  <2> QED
    BY <2>1, <2>2
<1>11. tasks' = tasks /\ dict' = dict /\ dropped' = dropped /\ ods'.bad = "no" /\ Kept
  OBVIOUS
<1> HIDE DEF m, n, side
<1>12. Typing'
  <2> HIDE DEF Descend
  <2> QED
    BY <1>1, <1>2, <1>3, <1>4, <1>5, <1>6, <1>8, <1>9, <1>10, <1>11, TypingFacts, KeptTyping
       DEF m, Running
<1> QED
  BY <1>1, <1>12 DEF n

LEMMA OverflowTyping ==
    ASSUME Typing, Overflow PROVE Typing'
<1>1. used' \in Nat /\ used <= used'
  BY DEF Overflow, Goto, Kept, used, Typing, TypeOK, CallOK
<1>2. ods' = ods /\ WorkOK(ods', used') /\ used \in Nat
  BY <1>1, TypingFacts, WorkMono DEF Overflow
<1>3. \A i \in 1..used : i \in 1..used'
  BY <1>1, TypingFacts
<1>4. call.op \in {"find", "insert"} /\ call.key \in Key
  BY DEF Overflow, Typing, CallOK
<1> QED
  BY <1>1, <1>2, <1>3, <1>4, TypingFacts, KeptTyping DEF Overflow, Goto, Running

LEMMA NotFoundTyping ==
    ASSUME Typing, NotFound PROVE Typing'
<1>1. used' \in Nat /\ used <= used'
  BY DEF NotFound, Goto, Kept, used, Typing, TypeOK, CallOK
<1>2. ods' = ods /\ WorkOK(ods', used') /\ ods.bad = "no"
  BY <1>1, TypingFacts, WorkMono DEF NotFound, Running
<1>3. \A i \in 1..used : i \in 1..used'
  BY <1>1, TypingFacts
<1>4. call.op \in {"find", "insert"} /\ call.key \in Key
  BY DEF NotFound, Typing, CallOK
<1> QED
  BY <1>1, <1>2, <1>3, <1>4, TypingFacts, KeptTyping DEF NotFound, Goto, Running

\* The node that an insertion adds.
Leaf == TreeNode(node_count - 1, call.key, call.val)

LEMMA LeafFacts ==
    ASSUME Typing, pc = "descend", call.op = "insert"
    PROVE  /\ Leaf \in Node /\ Leaf.id = node_count - 1 /\ used + 1 = node_count - 1
           /\ Leaf.key = call.key /\ Leaf.val = call.val /\ call.val \in Val
           /\ call.key \in Key
           /\ \A s \in Sides : Leaf.child[s] = invalid_mask /\ Leaf.height[s] = 0
           /\ HEIGHT(Leaf) = 1
           /\ node_count - 1 \in Ids /\ node_count - 1 # invalid_mask
<1>1. node_count - 1 \in Ids /\ node_count - 1 # invalid_mask /\ call.key \in Key
      /\ call.val \in Val /\ used + 1 = node_count - 1
  BY DEF Typing, TypeOK, CallOK, used, Ids, invalid_mask
<1> DEFINE i == node_count - 1
<1>2. Leaf = TreeNode(i, call.key, call.val) /\ i \in Ids
  BY <1>1 DEF Leaf
<1> HIDE DEF i
<1> DEFINE k == call.key
           v == call.val
           l == TreeNode(i, k, v)
<1>4. k \in Key /\ v \in Val
  BY <1>1
<1> HIDE DEF k, v
<1>5. /\ l \in Node /\ l.id = i /\ l.key = k /\ l.val = v
      /\ \A s \in Sides : l.child[s] = invalid_mask /\ l.height[s] = 0
      /\ HEIGHT(l) = 1
  BY ONLY <1>2, <1>4, LeafType
<1>6. Leaf = l
  BY <1>2 DEF k, v
<1> HIDE DEF l
<1>3. /\ Leaf \in Node /\ Leaf.id = i /\ Leaf.key = k /\ Leaf.val = v
      /\ \A s \in Sides : Leaf.child[s] = invalid_mask /\ Leaf.height[s] = 0
      /\ HEIGHT(Leaf) = 1
  BY <1>5, <1>6
<1> QED
  BY <1>1, <1>3 DEF i, k, v

LEMMA PlaceTyping ==
    ASSUME Typing, Place
    PROVE  Typing' /\ Top(ods') = Leaf /\ ods'.cache # <<>> /\ used' = used + 1
<1>1. /\ used \in Nat /\ used' = used + 1 /\ setup \in Setups /\ ods.bad = "no"
      /\ WorkOK(ods, used)
  BY TypingFacts DEF Place, Goto, Kept, used, Typing, TypeOK, Running
<1>2. Leaf \in Node /\ Leaf.id \in 1..used' /\ call.val \in Val /\ call.key \in Key
  BY <1>1, LeafFacts DEF Place
<1>3. WorkOK(ods, used')
  BY <1>1, WorkMono
<1>4. ods' = Put(ods, Leaf)
  BY DEF Place, Leaf
<1>5. WorkOK(ods', used') /\ ods'.cache # <<>> /\ Top(ods') = Leaf /\ ods'.bad = "no"
  BY <1>1, <1>2, <1>3, <1>4, PutSound DEF SameCounts
<1>6. \A i \in 1..used : i \in 1..used'
  BY <1>1
<1>7. dict' \in [Key -> Val \cup {None}]
  BY <1>2, TypingFacts DEF Place
<1>8. used <= used' /\ used' \in Nat
  BY <1>1
<1>9. /\ Kept /\ pc' = "ascend" /\ stack' = stack /\ tasks' = tasks /\ cursor' = cursor
      /\ answer' = answer /\ dropped' = dropped /\ call.op = "insert"
  BY DEF Place, Goto
<1>10. Typing'
  BY <1>2, <1>5, <1>6, <1>7, <1>8, <1>9, TypingFacts, KeptTyping DEF Running
<1> QED
  BY <1>1, <1>5, <1>10

LEMMA AscendTyping ==
    ASSUME Typing, Ascend
    PROVE  /\ Typing'
           /\ Last(stack) \in Frame /\ Top(ods) \in Node
           /\ ods' = OdsAccessWrite(ods, IF Last(stack).side = "here" THEN Last(stack).node
                                    ELSE Relinked(Last(stack).node, Last(stack).side, Top(ods)))
           /\ ods'.cache # <<>> /\ ods'.bad = "no" /\ used' = used
<1> DEFINE above == Last(stack)
           root == IF above.side = "here" THEN above.node
                   ELSE Relinked(above.node, above.side, Top(ods))
<1>1. /\ used \in Nat /\ setup \in Setups /\ ods.bad = "no" /\ WorkOK(ods, used)
      /\ stack \in Stacks /\ \A i \in DOMAIN stack : stack[i].node.id \in 1..used
      /\ pc = "ascend" /\ stack # <<>> /\ call.op = "insert" /\ call.key \in Key
  BY TypingFacts DEF Ascend, Running, CallOK
<1>2. used' = used
  BY <1>1 DEF Ascend, Goto, Kept, used
<1>3. /\ Len(stack) \in Nat \ {0} /\ DOMAIN stack = 1..Len(stack) /\ Last(stack) = stack[Len(stack)]
      /\ \A i \in 1..Len(stack) : stack[i] \in Frame
  BY <1>1, LenProperties, EmptySeq DEF Stacks, Last
<1>4. above \in Frame /\ above.node \in Node /\ above.node.id \in 1..used
      /\ above.side \in Sides \cup {"here"}
  BY <1>1, <1>3 DEF Frame
<1>5. Top(ods) \in Node
  <2>1. ods.cache # <<>> /\ ods.cache \in Seq(Node)
    BY <1>1, TypingFacts DEF Typing
  <2> QED
    BY <2>1 DEF Top
<1>6. root \in Node /\ root.id \in 1..used
  <2>1. CASE above.side = "here"
    BY <1>4, <2>1
  <2>2. CASE above.side # "here"
    <3>1. above.side \in Sides /\ Top(ods).id \in Ids /\ HEIGHT(Top(ods)) \in Nat
      BY SMTT(30), <1>4, <1>5, <2>2, NodeFields, HeightType
    <3>2. Relink1(root, above.node, above.side, Top(ods).id, HEIGHT(Top(ods)))
      BY <1>4, <2>2, <3>1, NodeUpdate DEF Relinked
    <3> QED
      BY <1>4, <3>2 DEF Relink1
  <2> QED
    BY <2>1, <2>2
<1>7. ods' = OdsAccessWrite(ods, root)
  BY DEF Ascend
<1> HIDE DEF root
<1>8. WorkOK(ods', used) /\ ods'.bad = "no" /\ ods'.cache # <<>>
  BY <1>1, <1>6, <1>7, WriteSound
<1>9. stack' \in Stacks /\ \A i \in DOMAIN stack' : stack'[i].node.id \in 1..used
  <2>1. stack' = SubSeq(stack, 1, Len(stack) - 1)
    BY DEF Ascend, Front
  <2>2. stack' \in Stacks /\ Len(stack') = Len(stack) - 1
        /\ \A i \in 1..(Len(stack) - 1) : stack'[i] = stack[i]
    BY <1>3, <2>1 DEF Stacks
  <2>3. DOMAIN stack' = 1..(Len(stack) - 1)
    BY <2>2, LenProperties DEF Stacks
  <2> QED
    BY <1>1, <1>3, <2>2, <2>3
<1>10. Kept /\ pc' = "balance" /\ UNCHANGED <<tasks, cursor, answer, dict, dropped>>
  BY DEF Ascend, Goto
<1>11. Typing'
  BY <1>1, <1>2, <1>8, <1>9, <1>10, TypingFacts, KeptTyping DEF Running
<1> QED
  BY <1>2, <1>4, <1>5, <1>7, <1>8, <1>11 DEF root

LEMMA InsertReturnsTyping ==
    ASSUME Typing, InsertReturns PROVE Typing' /\ Top(ods) \in Node
<1>1. /\ used \in Nat /\ setup \in Setups /\ ods.bad = "no" /\ WorkOK(ods, used)
      /\ ods.cache # <<>> /\ ods.cache \in Seq(Node) /\ CallOK
  BY TypingFacts DEF InsertReturns, Running, Typing
<1>2. Top(ods) \in Node /\ Top(ods).id \in Ids
  <2>1. Top(ods) \in Node
    BY <1>1 DEF Top
  <2> QED
    BY <2>1, NodeFields
<1>3. used' = used
  BY DEF InsertReturns, Goto, used
<1>4. TypeOK'
  BY <1>2 DEF Typing, TypeOK, InsertReturns, Goto
<1>5. MemoryOK(used)' /\ WorkOK(ods, used)'
  BY <1>1, <1>3 DEF InsertReturns, MemoryOK, WorkOK, Typing
<1>6. CallOK'
  BY <1>1 DEF InsertReturns, Goto, CallOK
<1> QED
  BY <1>1, <1>2, <1>3, <1>4, <1>5, <1>6 DEF Typing, InsertReturns, Goto, Running

LEMMA BadStays ==
    ASSUME NEW w, w.bad # "no", NEW id, NEW n
    PROVE  OdsAccessRead(w, id) = w /\ OdsAccessWrite(w, n) = w
BY DEF OdsAccessRead, OdsAccessWrite

LEMMA ProceedTyping ==
    ASSUME Typing, NEW w, NEW rest, Proceed(w, rest), pc \in {"balance", "rotate"},
           WorkOK(w, used), w.bad = "no" => w.cache # <<>>,
           rest \in Seq(Tasks), \A i \in DOMAIN rest : rest[i].node.id \in 1..used
    PROVE  Typing' /\ used' = used
<1>1. w.bad \in {"no", "aborted", "garbled"}
  BY DEF WorkOK, Work
<1>2. /\ used \in Nat /\ call.op = "insert" /\ call.key \in Key
      /\ stack \in Stacks /\ \A i \in DOMAIN stack : stack[i].node.id \in 1..used
      /\ cursor \in Ids /\ answer \in Val \cup {None} /\ dict \in [Key -> Val \cup {None}]
      /\ dropped \in BOOLEAN
  BY TypingFacts DEF CallOK
<1>3. /\ Kept /\ ods' = w /\ tasks' = rest
      /\ pc' = IF w.bad # "no" THEN w.bad ELSE IF rest = <<>> THEN "ascend" ELSE "rotate"
      /\ UNCHANGED <<stack, cursor, answer, dict, dropped>>
  BY DEF Proceed, Goto
<1>4. pc' \in {"aborted", "garbled", "ascend", "rotate"}
      /\ (pc' \in {"ascend", "rotate"} => w.bad = "no")
      /\ (pc' = "rotate" => rest # <<>>)
  BY <1>1, <1>3
<1>5. used' = used
  BY <1>3, <1>4 DEF Kept, used
<1>6. Typing'
  BY <1>2, <1>3, <1>4, <1>5, KeptTyping DEF Running
<1> QED
  BY <1>5, <1>6

\* A list of at most three tasks.
LEMMA TaskLists ==
    ASSUME NEW r \in Node, r.id \in 1..used, NEW side \in Sides
    PROVE  /\ SingleRotation(side, r) \in Seq(Tasks)
           /\ \A i \in DOMAIN SingleRotation(side, r) :
                 SingleRotation(side, r)[i].node.id \in 1..used
           /\ DoubleRotation(side, r) \in Seq(Tasks)
           /\ \A i \in DOMAIN DoubleRotation(side, r) :
                 DoubleRotation(side, r)[i].node.id \in 1..used
<1>1. Other(side) \in Sides /\ Relinking(side) \in {"relink left", "relink right"}
  BY OtherSide DEF Relinking
<1>2. r.id \in Ids /\ r.child[side] \in Ids
  BY NodeFields
<1> DEFINE a == Task(Other(side), r.id, r)
           b == Task(side, r.child[side], r)
           c == Task(Relinking(side), r.id, r)
<1>3. /\ a \in Tasks /\ b \in Tasks /\ c \in Tasks
      /\ a.node.id \in 1..used /\ b.node.id \in 1..used /\ c.node.id \in 1..used
  BY <1>1, <1>2 DEF Task, Tasks
<1>4. SingleRotation(side, r) = <<a>> /\ DoubleRotation(side, r) = <<b, c, a>>
  BY DEF SingleRotation, DoubleRotation
<1> HIDE DEF a, b, c
<1>5. /\ <<a>> \in Seq(Tasks) /\ DOMAIN <<a>> = {1} /\ <<a>>[1] = a
      /\ <<b, c, a>> \in Seq(Tasks) /\ DOMAIN <<b, c, a>> = {1, 2, 3}
      /\ <<b, c, a>>[1] = b /\ <<b, c, a>>[2] = c /\ <<b, c, a>>[3] = a
  BY <1>3
<1> QED
  BY <1>3, <1>4, <1>5

LEMMA BalanceTyping ==
    ASSUME Typing, Balance
    PROVE  Typing' /\ Top(ods) \in Node /\ Top(ods).id \in 1..used
<1> DEFINE root == Top(ods)
<1>1. /\ used \in Nat /\ setup \in Setups /\ ods.bad = "no" /\ WorkOK(ods, used)
      /\ MemoryOK(used) /\ ods.cache # <<>> /\ ods.cache \in Seq(Node) /\ pc = "balance"
  BY TypingFacts DEF Balance, Running, Typing
<1>2. root \in Node /\ root.id \in 1..used
  <2>1. Len(ods.cache) \in Nat \ {0} /\ DOMAIN ods.cache = 1..Len(ods.cache)
        /\ Head(ods.cache) = ods.cache[1]
    BY <1>1, EmptySeq, LenProperties
  <2>2. Head(ods.cache) \in Nodes(ods.cache)
    BY <2>1 DEF Nodes
  <2> QED
    BY <1>1, <2>2 DEF Top, WorkOK
<1> HIDE DEF root
<1>3. CASE Proceed(ods, <<>>)
  <2>1. <<>> \in Seq(Tasks) /\ DOMAIN <<>> = {}
    OBVIOUS
  <2> QED
    BY <1>1, <1>2, <1>3, <2>1, ProceedTyping DEF root
<1>4. ASSUME NEW side \in Sides,
             NEW w, w = OdsAccessRead([ods EXCEPT !.rotated = TRUE], root.child[side]),
             \/ Proceed(w, SingleRotation(side, root))
             \/ Proceed(OdsAccessRead(w, root.id), DoubleRotation(side, root))
      PROVE  Typing'
  <2> DEFINE u == [ods EXCEPT !.rotated = TRUE]
             v == OdsAccessRead(w, root.id)
  <2>1. WorkOK(u, used) /\ u.bad = "no"
    BY <1>1 DEF WorkOK, Work
  <2> HIDE DEF u
  <2>2. root.child[side] \in Ids /\ root.id \in Ids
    BY <1>2, NodeFields
  <2>3. w = OdsAccessRead(u, root.child[side])
    BY <1>4 DEF u
  <2>4. WorkOK(w, used) /\ (w.bad = "no" => w.cache # <<>>)
    BY <1>1, <2>1, <2>2, <2>3, ReadSound
  <2>5. WorkOK(v, used) /\ (v.bad = "no" => v.cache # <<>>)
    <3>1. CASE w.bad # "no"
      BY <2>4, <3>1, BadStays
    <3>2. CASE w.bad = "no"
      BY <1>1, <2>2, <2>4, <3>2, ReadSound
    <3> QED
      BY <3>1, <3>2
  <2> HIDE DEF v
  <2>6. CASE Proceed(w, SingleRotation(side, root))
    BY <1>1, <1>2, <2>4, <2>6, TaskLists, ProceedTyping
  <2>7. CASE Proceed(v, DoubleRotation(side, root))
    BY <1>1, <1>2, <2>5, <2>7, TaskLists, ProceedTyping
  <2> QED
    BY <1>4, <2>6, <2>7 DEF v
<1> QED
  BY <1>2, <1>3, <1>4 DEF Balance, root

LEMMA ReadWork ==
    ASSUME setup \in Setups, NEW m \in Nat, NEW w, WorkOK(w, m), MemoryOK(m), w.bad = "no",
           NEW id \in Ids, NEW v, v = OdsAccessRead(w, id)
    PROVE  /\ WorkOK(v, m)
           /\ v.bad = "no" => Top(v) \in Node /\ Top(v).id = id /\ id \in 1..m
BY ONLY OdictAssumption, setup \in Setups, WorkOK(w, m), MemoryOK(m), w.bad = "no",
        v = OdsAccessRead(w, id), ReadSound

LEMMA WriteWork ==
    ASSUME setup \in Setups, NEW m \in Nat, NEW w, WorkOK(w, m), w.bad = "no",
           NEW n \in Node, n.id \in 1..m, NEW v, v = OdsAccessWrite(w, n)
    PROVE  WorkOK(v, m) /\ v.bad = "no" /\ v.cache # <<>> /\ Top(v) = n
BY ONLY OdictAssumption, setup \in Setups, WorkOK(w, m), w.bad = "no", n.id \in 1..m,
        v = OdsAccessWrite(w, n), WriteSound

\* The accesses of a rotation: two reads, two writes.
RotateSteps(side, id, w, w1, w2, down, w3, up, w4) ==
    /\ w1 = OdsAccessRead(w, id)
    /\ w2 = OdsAccessRead(w1, Top(w1).child[Other(side)])
    /\ down = [Top(w1) EXCEPT !.child[Other(side)] = Top(w2).child[side],
                              !.height[Other(side)] = Top(w2).height[side]]
    /\ w3 = OdsAccessWrite(w2, down)
    /\ up = [Top(w2) EXCEPT !.height[side] = HEIGHT(down), !.child[side] = id]
    /\ w4 = OdsAccessWrite(w3, up)

\* What a rotation does, as long as its reads go well.
LEMMA RotationWork ==
    ASSUME setup \in Setups, NEW m \in Nat, NEW w, WorkOK(w, m), MemoryOK(m), w.bad = "no",
           NEW side \in Sides, NEW id \in Ids, NEW w1, NEW w2, NEW down, NEW w3, NEW up,
           NEW w4, RotateSteps(side, id, w, w1, w2, down, w3, up, w4)
    PROVE  /\ WorkOK(w1, m) /\ WorkOK(w2, m) /\ WorkOK(w3, m) /\ WorkOK(w4, m)
           /\ w1.bad # "no" => w4 = w1
           /\ w1.bad = "no" /\ w2.bad # "no" => w4 = w2
           /\ w1.bad = "no" => /\ Top(w1) \in Node /\ Top(w1).id = id /\ id \in 1..m
                               /\ Top(w1).child[Other(side)] \in Ids
           /\ w1.bad = "no" /\ w2.bad = "no" =>
                 /\ Top(w2) \in Node /\ Top(w2).id = Top(w1).child[Other(side)]
                 /\ Top(w2).id \in 1..m
                 /\ Relink1(down, Top(w1), Other(side), Top(w2).child[side], Top(w2).height[side])
                 /\ Relink1(up, Top(w2), side, id, HEIGHT(down))
                 /\ w4.bad = "no" /\ w4.cache # <<>> /\ Top(w4) = up
                 /\ w3.bad = "no"
<1>1. Other(side) \in Sides
  BY Zenon, OtherSide
<1> DEFINE x == Top(w1)
           y == Top(w2)
           b == x.child[Other(side)]
           c == y.child[side]
           h == y.height[side]
           g == HEIGHT(down)
<1>5. w1 = OdsAccessRead(w, id)
  BY DEF RotateSteps
<1>6. w2 = OdsAccessRead(w1, b)
  BY DEF RotateSteps
<1>7. down = [x EXCEPT !.child[Other(side)] = c, !.height[Other(side)] = h]
  BY DEF RotateSteps
<1>8. w3 = OdsAccessWrite(w2, down)
  BY Zenon DEF RotateSteps
<1>9. up = [y EXCEPT !.height[side] = g, !.child[side] = id]
  BY DEF RotateSteps
<1>10. w4 = OdsAccessWrite(w3, up)
  BY DEF RotateSteps
<1>2. /\ WorkOK(w1, m)
      /\ w1.bad = "no" => x \in Node /\ x.id = id /\ id \in 1..m
  BY <1>5, ReadWork
<1>3. CASE w1.bad # "no"
  <2> HIDE DEF x, y, b, c, h, g
  <2> QED
    BY <1>2, <1>3, <1>6, <1>8, <1>10, BadStays
<1>4. CASE w1.bad = "no"
  <2>1. x \in Node /\ x.id = id /\ id \in 1..m /\ b \in Ids
    BY <1>1, <1>2, <1>4, NodeFields
  <2> HIDE DEF x, y, b
  <2>2. /\ WorkOK(w2, m)
        /\ w2.bad = "no" => y \in Node /\ y.id = b /\ b \in 1..m
    BY <1>2, <1>4, <1>6, <2>1, ReadWork DEF y
  <2>3. CASE w2.bad # "no"
    <3> HIDE DEF c, h, g
    <3> QED
      BY <1>2, <1>4, <1>8, <1>10, <2>1, <2>2, <2>3, BadStays DEF x, b
  <2>4. CASE w2.bad = "no"
    <3>1. y \in Node /\ y.id = b /\ b \in 1..m
      BY <2>2, <2>4
    <3>2. c \in Ids /\ h \in Nat
      BY SMTT(30), <3>1, NodeFields
    <3> HIDE DEF c, h
    <3>3. Relink1(down, x, Other(side), c, h)
      BY <1>1, <1>7, <2>1, <3>2, NodeUpdate
    <3>4. down \in Node /\ down.id = id
      BY <2>1, <3>3 DEF Relink1
    <3>5. g \in Nat
      BY SMTT(30), <3>4, HeightType
    <3> HIDE DEF g
    <3>6. Relink1(up, y, side, id, g)
      BY <1>9, <3>1, <3>5, NodeUpdate
    <3>7. WorkOK(w3, m) /\ w3.bad = "no"
      BY <1>8, <2>1, <2>2, <2>4, <3>4, WriteWork
    <3>8. up \in Node /\ up.id = b
      BY <3>1, <3>6 DEF Relink1
    <3>9. WorkOK(w4, m) /\ w4.bad = "no" /\ w4.cache # <<>> /\ Top(w4) = up
      BY SMTT(30), <1>10, <3>1, <3>7, <3>8, WriteWork
    <3> QED
      BY <1>2, <1>4, <2>1, <2>2, <2>4, <3>1, <3>3, <3>6, <3>7, <3>9 DEF x, y, b, c, h, g
  <2> QED
    BY <2>3, <2>4
<1> QED
  BY <1>3, <1>4

\* A step of Rotate is such a rotation, and what it leaves is the work to go on with.
LEMMA RotateStep ==
    ASSUME NEW side, Rotate(side)
    PROVE  \E w1, w2, down, w3, up, w4 :
              /\ RotateSteps(side, Head(tasks).id, ods, w1, w2, down, w3, up, w4)
              /\ Proceed(w4, Tail(tasks))
<1> DEFINE far == Other(side)
           id == Head(tasks).id
<1>3. PICK w1 \in {OdsAccessRead(ods, id)} :
      \E w2 \in {OdsAccessRead(w1, Top(w1).child[far])} :
      \E down \in {[Top(w1) EXCEPT !.child[far] = Top(w2).child[side],
                                   !.height[far] = Top(w2).height[side]]} :
      \E w3 \in {OdsAccessWrite(w2, down)} :
         Proceed(OdsAccessWrite(w3, [Top(w2) EXCEPT !.height[side] = HEIGHT(down),
                                                    !.child[side] = id]),
                 Tail(tasks))
  BY ZenonT(30) DEF Rotate
<1>4. PICK w2 \in {OdsAccessRead(w1, Top(w1).child[far])} :
      \E down \in {[Top(w1) EXCEPT !.child[far] = Top(w2).child[side],
                                   !.height[far] = Top(w2).height[side]]} :
      \E w3 \in {OdsAccessWrite(w2, down)} :
         Proceed(OdsAccessWrite(w3, [Top(w2) EXCEPT !.height[side] = HEIGHT(down),
                                                    !.child[side] = id]),
                 Tail(tasks))
  BY ZenonT(30), <1>3
<1>5. PICK down \in {[Top(w1) EXCEPT !.child[far] = Top(w2).child[side],
                                     !.height[far] = Top(w2).height[side]]} :
      \E w3 \in {OdsAccessWrite(w2, down)} :
         Proceed(OdsAccessWrite(w3, [Top(w2) EXCEPT !.height[side] = HEIGHT(down),
                                                    !.child[side] = id]),
                 Tail(tasks))
  BY ZenonT(30), <1>4
<1>6. PICK w3 \in {OdsAccessWrite(w2, down)} :
         Proceed(OdsAccessWrite(w3, [Top(w2) EXCEPT !.height[side] = HEIGHT(down),
                                                    !.child[side] = id]),
                 Tail(tasks))
  BY ZenonT(30), <1>5
<1> DEFINE up == [Top(w2) EXCEPT !.height[side] = HEIGHT(down), !.child[side] = id]
           w4 == OdsAccessWrite(w3, up)
<1>7. RotateSteps(side, id, ods, w1, w2, down, w3, up, w4)
  BY ZenonT(30), <1>3, <1>4, <1>5, <1>6 DEF RotateSteps
<1>8. Proceed(w4, Tail(tasks))
  BY Zenon, <1>6
<1> QED
  BY ONLY ZenonT(30), <1>7, <1>8

LEMMA HeadTask ==
    ASSUME Typing, pc = "rotate"
    PROVE  /\ Head(tasks) \in Tasks /\ Head(tasks).node.id \in 1..used
           /\ Tail(tasks) \in Seq(Tasks)
           /\ \A i \in DOMAIN Tail(tasks) : Tail(tasks)[i].node.id \in 1..used
<1>1. /\ tasks \in Seq(Tasks) /\ tasks # <<>>
      /\ \A i \in DOMAIN tasks : tasks[i].node.id \in 1..used
  BY TypingFacts DEF Typing
<1>2. Len(tasks) \in Nat \ {0} /\ DOMAIN tasks = 1..Len(tasks) /\ Head(tasks) = tasks[1]
  BY <1>1, EmptySeq, LenProperties
<1>3. /\ Head(tasks) \in Tasks /\ Tail(tasks) \in Seq(Tasks)
      /\ Len(Tail(tasks)) = Len(tasks) - 1
      /\ \A i \in 1..Len(Tail(tasks)) : Tail(tasks)[i] = tasks[i + 1]
  BY <1>1, HeadTailProperties
<1>4. DOMAIN Tail(tasks) = 1..(Len(tasks) - 1)
  BY <1>3, LenProperties
<1>5. \A i \in DOMAIN Tail(tasks) : i + 1 \in DOMAIN tasks
  BY <1>2, <1>4
<1>6. 1 \in DOMAIN tasks
  BY <1>2
<1> QED
  BY <1>1, <1>2, <1>3, <1>4, <1>5, <1>6

LEMMA RotateTyping ==
    ASSUME Typing, NEW side \in Sides, Rotate(side) PROVE Typing'
<1>1. /\ used \in Nat /\ setup \in Setups /\ ods.bad = "no" /\ WorkOK(ods, used)
      /\ MemoryOK(used) /\ pc = "rotate"
  BY Zenon, TypingFacts DEF Rotate, Running
<1>2. Head(tasks).id \in Ids
  BY <1>1, HeadTask DEF Tasks
<1>3. PICK w1, w2, down, w3, up, w4 :
              /\ RotateSteps(side, Head(tasks).id, ods, w1, w2, down, w3, up, w4)
              /\ Proceed(w4, Tail(tasks))
  BY RotateStep
<1>4. WorkOK(w4, used) /\ (w4.bad = "no" => w4.cache # <<>>)
  BY <1>1, <1>2, <1>3, RotationWork
<1> QED
  BY Zenon, <1>1, <1>3, <1>4, HeadTask, ProceedTyping

LEMMA RelinkTyping ==
    ASSUME Typing, NEW side \in Sides, Relink(side)
    PROVE  /\ Typing' /\ Top(ods) \in Node
           /\ LET n == Relinked(Head(tasks).node, side, Top(ods)) IN
              /\ ods' = OdsAccessWrite(ods, n) /\ used' = used
              /\ Relink1(n, Head(tasks).node, side, Top(ods).id, HEIGHT(Top(ods)))
              /\ Head(tasks).node \in Node /\ Head(tasks).node.id \in 1..used
<1> DEFINE n == Relinked(Head(tasks).node, side, Top(ods))
           w == OdsAccessWrite(ods, n)
<1>1. /\ used \in Nat /\ setup \in Setups /\ ods.bad = "no" /\ WorkOK(ods, used)
      /\ MemoryOK(used) /\ pc = "rotate" /\ ods.cache # <<>> /\ ods.cache \in Seq(Node)
  BY TypingFacts DEF Relink, Running, Typing
<1>2. Head(tasks).node \in Node /\ Head(tasks).node.id \in 1..used
  BY <1>1, HeadTask DEF Tasks
<1>3. Top(ods) \in Node
  BY <1>1 DEF Top
<1>4. Top(ods).id \in Ids /\ HEIGHT(Top(ods)) \in Nat
  BY SMTT(30), <1>3, NodeFields, HeightType
<1>5. Relink1(n, Head(tasks).node, side, Top(ods).id, HEIGHT(Top(ods)))
  BY <1>2, <1>4, NodeUpdate DEF Relinked
<1>6. n \in Node /\ n.id \in 1..used
  BY <1>2, <1>5 DEF Relink1
<1> HIDE DEF n
<1>7. WorkOK(w, used) /\ (w.bad = "no" => w.cache # <<>>)
  BY <1>1, <1>6, WriteSound
<1>8. Proceed(w, Tail(tasks))
  BY DEF Relink, n
<1> HIDE DEF w
<1>9. Typing' /\ used' = used
  BY <1>1, <1>7, <1>8, HeadTask, ProceedTyping
<1>10. ods' = w
  BY <1>8 DEF Proceed
<1> QED
  BY <1>2, <1>3, <1>5, <1>9, <1>10 DEF n, w

\* A memory in which blocks are what MemoryOK says.
MemOK(mem, m) ==
    /\ mem \in [Ids -> Node \cup {Blank, Gone}]
    /\ \A i \in Ids : mem[i] \in Node => mem[i].id = i /\ i \in 1..m

LEMMA FailsTyping ==
    ASSUME Typing, NEW mem, MemOK(mem, used), Fails(mem)
    PROVE  MemOK(memory', used) /\ faults' \in 0..MaxFaults /\ faults' = faults + 1
<1>1. MemOK(memory, used)
  BY DEF Typing, TypeOK, MemoryOK, MemOK
<1>2. PICK before \in {memory, mem} :
         \E S \in SUBSET {id \in Ids : before[id] # Gone} :
             /\ Cardinality(S) <= MaxLost
             /\ memory' = [id \in Ids |-> IF id \in S THEN Gone ELSE before[id]]
  BY DEF Fails
<1>3. PICK S \in SUBSET {id \in Ids : before[id] # Gone} :
             memory' = [id \in Ids |-> IF id \in S THEN Gone ELSE before[id]]
  BY <1>2
<1>4. MemOK(before, used)
  BY <1>1, <1>2
<1>5. MemOK(memory', used)
  BY <1>3, <1>4 DEF MemOK
<1>6. faults \in 0..MaxFaults /\ faults < MaxFaults /\ faults' = faults + 1
  BY DEF Typing, TypeOK, Fails
<1> QED
  BY <1>5, <1>6

\* The steps outside a walk through the tree.
LEMMA RestTyping ==
    ASSUME Typing, NEW m \in Nat, m = used', used <= m, WorkOK(ods', m), MemOK(memory', m),
           UNCHANGED <<root_id, node_count, setup, call, stack, tasks, cursor, answer, dict>>,
           pc' \in {"idle", "write_back", "panicked", "aborted"}, pc # "idle",
           faults' \in 0..MaxFaults, dropped' \in BOOLEAN,
           Running' => ods'.bad = "no", pc' = "idle" => ods' = Start
    PROVE  Typing'
<1>1. used \in Nat /\ \A i \in 1..used : i \in 1..m
  BY UsedType
<1>2. MemoryOK(used)'
  BY <1>1 DEF MemoryOK, MemOK
<1>3. WorkOK(ods, used)'
  BY DEF WorkOK
<1>4. TypeOK'
  <2>1. ods' \in Work /\ Len(ods'.cache) <= setup'.cache
    BY DEF WorkOK
  <2>2. memory' \in [Ids -> Node \cup {Blank, Gone}]
    BY DEF MemOK
  <2> QED
    BY <2>1, <2>2 DEF Typing, TypeOK
<1>5. CallOK'
  BY DEF Typing, CallOK
<1>6. /\ \A i \in DOMAIN stack : stack[i].node.id \in 1..m
      /\ \A i \in DOMAIN tasks : tasks[i].node.id \in 1..m
  BY <1>1, TypingFacts
<1> QED
  BY <1>2, <1>3, <1>4, <1>5, <1>6 DEF Typing

LEMMA MemFacts ==
    ASSUME Typing
    PROVE  MemOK(memory, used) /\ faults \in 0..MaxFaults
BY DEF Typing, TypeOK, MemoryOK, MemOK

LEMMA MemMono ==
    ASSUME NEW m \in Nat, NEW p \in Nat, m <= p, NEW mem, MemOK(mem, m)
    PROVE  MemOK(mem, p)
BY DEF MemOK

LEMMA ReadFailsTyping ==
    ASSUME Typing, ReadFails PROVE Typing' /\ faults' = faults + 1
<1>1. Fails(memory) /\ pc' = "aborted" /\ ods' = ods /\ pc # "idle"
      /\ UNCHANGED <<root_id, node_count, setup, call, stack, tasks, cursor, answer, dict>>
      /\ dropped' = dropped /\ dropped \in BOOLEAN
  <2>1. LookedUp # {}
    BY DEF ReadFails
  <2>2. pc # "idle"
    BY <2>1 DEF LookedUp
  <2> QED
    BY <2>2, TypingFacts DEF ReadFails, Goto
<1>2. used' \in Nat /\ used <= used' /\ used \in Nat
  BY <1>1, UsedType DEF used, Typing, TypeOK
<1>3. MemOK(memory', used) /\ faults' \in 0..MaxFaults /\ faults' = faults + 1
  BY <1>1, MemFacts, FailsTyping
<1>4. MemOK(memory', used') /\ WorkOK(ods', used')
  BY <1>1, <1>2, <1>3, TypingFacts, MemMono, WorkMono
<1> QED
  BY <1>1, <1>2, <1>3, <1>4, RestTyping DEF Running

\* Padding goes on, ends the process, or fails.
LEMMA DoPadCases ==
    ASSUME Typing, NEW num, NEW next, DoPad(num, next)
    PROVE  /\ pc' \in {next, "panicked", "aborted"}
           /\ MemOK(memory', used) /\ faults' \in 0..MaxFaults
           /\ \/ memory' = memory /\ faults' = faults
              \/ pc' = "aborted" /\ faults' = faults + 1
<1>1. CASE Fails(memory) /\ Goto("aborted")
  BY <1>1, MemFacts, FailsTyping DEF Goto
<1>2. CASE ~(Fails(memory) /\ Goto("aborted"))
  BY <1>2, MemFacts DEF DoPad, Goto
<1> QED
  BY <1>1, <1>2

LEMMA PadReadsTyping ==
    ASSUME Typing, PadReads PROVE Typing'
<1>1. DoPad(pad_val - ods.reads, "write_back")
      /\ UNCHANGED <<root_id, node_count, setup, call, stack, tasks, cursor, answer, dict>>
      /\ dropped' = dropped /\ dropped \in BOOLEAN /\ ods' = ods /\ pc = "pad_reads"
  BY TypingFacts DEF PadReads
<1>2. /\ pc' \in {"write_back", "panicked", "aborted"}
      /\ MemOK(memory', used) /\ faults' \in 0..MaxFaults
  BY <1>1, DoPadCases
<1>3. used' = used /\ used \in Nat
  BY <1>1, <1>2, UsedType DEF used
<1>4. ods.bad = "no" /\ WorkOK(ods', used)
  BY <1>1, TypingFacts DEF Running
<1> QED
  BY <1>1, <1>2, <1>3, <1>4, RestTyping

LEMMA PadWritesTyping ==
    ASSUME Typing, PadWrites PROVE Typing'
<1>1. DoPad(pad_val - ods.writes, "idle")
      /\ UNCHANGED <<root_id, node_count, setup, call, stack, tasks, cursor, answer, dict>>
      /\ dropped' \in BOOLEAN /\ ods' = Start /\ pc = "write_back"
  BY TypingFacts DEF PadWrites, Typing, TypeOK, Work
<1>2. /\ pc' \in {"idle", "panicked", "aborted"}
      /\ MemOK(memory', used) /\ faults' \in 0..MaxFaults
  BY <1>1, DoPadCases
<1>3. used' = used /\ used \in Nat
  BY <1>1, <1>2, UsedType DEF used
<1>4. Start.bad = "no" /\ WorkOK(Start, used)
  BY <1>3, StartOK, TypingFacts DEF Start
<1> QED
  BY <1>1, <1>2, <1>3, <1>4, RestTyping

\* The cache without its first node.
LEMMA TailSound ==
    ASSUME NEW c \in Seq(Node), Unique(c), c # <<>>, NEW t, t = Tail(c)
    PROVE  /\ t \in Seq(Node) /\ Unique(t) /\ Len(t) = Len(c) - 1
           /\ Head(c) \in Nodes(c) /\ Nodes(t) = Nodes(c) \ {Head(c)}
<1>1. Len(c) \in Nat \ {0} /\ DOMAIN c = 1..Len(c) /\ Head(c) = c[1]
  BY LenProperties, EmptySeq
<1>2. /\ t \in Seq(Node) /\ Len(t) = Len(c) - 1 /\ \A j \in 1..Len(t) : t[j] = c[j + 1]
  BY HeadTailProperties
<1>3. DOMAIN t = 1..(Len(c) - 1)
  BY <1>2, LenProperties
<1>4. \A j \in DOMAIN t : j + 1 \in DOMAIN c /\ t[j] = c[j + 1] /\ j + 1 # 1
  BY <1>1, <1>2, <1>3
<1>5. \A j \in DOMAIN c : j = 1 \/ (j - 1 \in DOMAIN t /\ t[j - 1] = c[j])
  BY <1>1, <1>2, <1>3
<1>6. Unique(t)
  <2> SUFFICES ASSUME NEW i \in DOMAIN t, NEW j \in DOMAIN t, t[i].id = t[j].id
               PROVE  i = j
    BY DEF Unique
  <2>1. i + 1 = j + 1
    BY <1>4 DEF Unique
  <2> QED
    BY <1>3, <2>1
<1>7. 1 \in DOMAIN c
  BY <1>1
<1>8. \A n \in Nodes(t) : n \in Nodes(c) /\ n # Head(c)
  <2>1. \A j \in DOMAIN t : c[j + 1].id # c[1].id
    BY <1>4, <1>7 DEF Unique
  <2> QED
    BY <1>1, <1>4, <2>1 DEF Nodes
<1>9. ASSUME NEW n \in Nodes(c), n # Head(c) PROVE n \in Nodes(t)
  <2>1. PICK j \in DOMAIN c : c[j] = n
    BY DEF Nodes
  <2>2. j - 1 \in DOMAIN t /\ t[j - 1] = n
    BY <1>1, <1>5, <1>9, <2>1
  <2> QED
    BY <2>2 DEF Nodes
<1>10. Head(c) \in Nodes(c)
  BY <1>1, <1>7 DEF Nodes
<1> QED
  BY <1>2, <1>6, <1>8, <1>9, <1>10

LEMMA WriteBackFacts ==
    ASSUME Typing, WriteBack
    PROVE  LET n == Head(ods.cache)
               m == IF memory[n.id] # Gone THEN [memory EXCEPT ![n.id] = n] ELSE memory IN
           /\ Typing' /\ used' = used
           /\ n \in Nodes(ods.cache) /\ n \in Node /\ n.id \in 1..used /\ n.id \in Ids
           /\ MemOK(m, used)
           /\ Nodes(ods'.cache) = Nodes(ods.cache) \ {n}
           /\ SameCounts(ods, ods') /\ ods'.evicted = ods.evicted
           /\ faults' \in Nat
<1> DEFINE n == Head(ods.cache)
           m == IF memory[n.id] # Gone THEN [memory EXCEPT ![n.id] = n] ELSE memory
<1>1. /\ ods \in Work /\ ods.cache \in Seq(Node) /\ Unique(ods.cache) /\ ods.cache # <<>>
      /\ WorkOK(ods, used) /\ ods.bad = "no" /\ used \in Nat /\ pc = "write_back"
      /\ Len(ods.cache) <= setup.cache /\ setup.cache \in Nat /\ Len(ods.cache) \in Nat
  BY TypingFacts, SetupType, LenProperties DEF WriteBack, Running, WorkOK, Work
<1> DEFINE t == Tail(ods.cache)
<1>2. /\ t \in Seq(Node) /\ Unique(t) /\ Len(t) = Len(ods.cache) - 1
      /\ n \in Nodes(ods.cache) /\ Nodes(t) = Nodes(ods.cache) \ {n}
  BY <1>1, TailSound
<1>3. n \in Node /\ n.id \in 1..used /\ n.id \in Ids
  BY <1>1, <1>2, NodeFields DEF WorkOK
<1> HIDE DEF n, t
<1>4. ods' = [ods EXCEPT !.cache = t]
  BY DEF WriteBack, Popped, t
<1>5. /\ ods' \in Work /\ ods'.cache = t /\ SameCounts(ods, ods') /\ ods'.evicted = ods.evicted
  BY <1>1, <1>2, <1>4 DEF Work, SameCounts
<1>6. WorkOK(ods', used)
  BY <1>1, <1>2, <1>5 DEF WorkOK
<1>7. MemOK(m, used)
  BY <1>3, MemFacts DEF MemOK
<1>8. /\ \/ memory' = m /\ faults' = faults
         \/ Fails(m)
      /\ dropped' \in BOOLEAN
      /\ UNCHANGED <<root_id, node_count, setup, pc, call, stack, tasks, cursor, answer, dict>>
  BY TypingFacts DEF WriteBack, n
<1> HIDE DEF m
<1>9. MemOK(memory', used) /\ faults' \in 0..MaxFaults
  BY <1>7, <1>8, MemFacts, FailsTyping
<1>10. used' = used
  BY <1>8 DEF used
<1>11. Typing'
  BY <1>1, <1>5, <1>6, <1>8, <1>9, <1>10, RestTyping DEF SameCounts
<1> QED
  BY <1>2, <1>3, <1>5, <1>7, <1>9, <1>10, <1>11 DEF n, m

LEMMA BeginTyping ==
    ASSUME Typing, NEW k \in Key, Find(k) \/ Insert(k, node_count)
    PROVE  Typing' /\ used' = used
<1>1. /\ pc = "idle" /\ pc' = "descend" /\ ods = Start /\ used = node_count - 1
      /\ used \in Nat /\ setup \in Setups /\ setup' = setup
      /\ UNCHANGED <<memory, root_id, tasks, faults, dict, dropped>>
      /\ stack' = <<>> /\ cursor' = root_id /\ answer' = None
      /\ ods' = [ods EXCEPT !.cache = <<>>]
  BY TypingFacts DEF Find, Insert, Begin, used, Typing
<1>2. ods' = Start
  BY <1>1 DEF Start
<1>3. WorkOK(Start, used) /\ ods'.bad = "no"
  BY <1>1, <1>2, StartOK DEF Start
<1>4. /\ used' = used /\ node_count' \in 1..(MaxInserts + 1)
      /\ call' \in [op : {"find", "insert"}, key : Key, val : Val \cup {None}]
      /\ call'.op = "insert" => call'.val \in Val /\ node_count' >= 2
  <2>0. node_count \in 1..(MaxInserts + 1)
    BY DEF Typing, TypeOK
  <2>1. CASE Find(k)
    <3>1. call' = [op |-> "find", key |-> k, val |-> None] /\ node_count' = node_count
      BY <2>1 DEF Find, Begin
    <3> QED
      BY <1>1, <2>0, <3>1 DEF used
  <2>2. CASE Insert(k, node_count)
    <3>1. call' = [op |-> "insert", key |-> k, val |-> node_count] /\ node_count' = node_count + 1
          /\ node_count <= MaxInserts
      BY <2>2 DEF Insert, Begin
    <3> QED
      BY <1>1, <2>0, <3>1 DEF used, Val
  <2> QED
    BY <2>1, <2>2
<1>5. MemoryOK(used)' /\ WorkOK(ods, used)'
  BY <1>1, <1>2, <1>3, <1>4 DEF MemoryOK, WorkOK, Typing
<1>6. <<>> \in Seq(Frame) /\ DOMAIN <<>> = {}
  OBVIOUS
<1>7. TypeOK'
  <2>1. ods' \in Work /\ Len(ods'.cache) <= setup'.cache
    BY <1>1, <1>2, <1>3 DEF WorkOK
  <2>2. stack' \in Seq([node : Node, side : Sides \cup {"here"}])
    BY <1>1, <1>6 DEF Frame
  <2> QED
    BY <1>1, <1>4, <2>1, <2>2 DEF Typing, TypeOK
<1>8. CallOK'
  BY <1>1, <1>4 DEF CallOK
<1>9. \A i \in DOMAIN tasks : tasks[i].node.id \in 1..used
  BY TypingFacts
<1>10. /\ \A i \in DOMAIN stack' : stack'[i].node.id \in 1..used'
       /\ \A i \in DOMAIN tasks' : tasks'[i].node.id \in 1..used'
  BY <1>1, <1>4, <1>6, <1>9
<1> QED
  BY <1>1, <1>3, <1>4, <1>5, <1>7, <1>8, <1>10 DEF Typing

LEMMA StutterTyping ==
    ASSUME Typing, UNCHANGED vars PROVE Typing'
BY DEF Typing, vars, TypeOK, MemoryOK, WorkOK, used, CallOK, Running

LEMMA NextTyping ==
    ASSUME Typing, [Next]_vars PROVE Typing'
<1>1. CASE Call
  BY <1>1, BeginTyping DEF Call
<1>2. CASE Step
  BY <1>2, BrokenTyping, ReadFailsTyping, OverflowTyping, DescendTyping, NotFoundTyping,
     PlaceTyping, AscendTyping, InsertReturnsTyping, BalanceTyping, RotateTyping, RelinkTyping,
     PadReadsTyping, WriteBackFacts, PadWritesTyping
     DEF Step, LeftRotate, RightRotate, Sides
<1>3. CASE UNCHANGED vars
  BY <1>3, StutterTyping
<1> QED
  BY <1>1, <1>2, <1>3 DEF Next

-------------------------------------------------------------------------------
(* The padding. *)

\* The walk down, as the memory has it: nodes that were passed, each followed by one
\* of them or by the node to be read next.
Passed(V) ==
    /\ \A v \in V : /\ memory[v] \in Node /\ Side(memory[v], call.key) \in Sides
                    /\ memory[v].child[Side(memory[v], call.key)] \in V \cup {cursor}
    /\ cursor \notin V => Cardinality(V) = ods.reads

\* Nothing is changed before the walk is over.
Walking ==
    /\ \A n \in Nodes(ods.cache) : memory[n.id] = n
    /\ ods.evicted = {} /\ ~ods.stale /\ ods.writes = 0 /\ ~ods.rotated
    /\ stack # <<>> => call.op = "insert"
    /\ call.op = "insert" => Len(stack) = ods.reads
    /\ answer = None
    /\ \E V \in SUBSET Ids : Passed(V)

\* The padding has one access for every node.
PadCovers ==
    \A x \in 1..(MaxInserts + 1) : ComputePadVal(x) \in Nat /\ ComputePadVal(x) >= x - 1

\* A level of the recursion is one read and, on the way back, one write; a rotation
\* adds as many reads as writes or more.
Counted ==
    /\ pc = "descend" => Walking
    /\ pc \in {"ascend", "balance"} => ods.writes + Len(stack) <= ods.reads
    /\ pc = "rotate" => /\ ods.writes + Len(stack) + Len(tasks) <= ods.reads + 1
                        /\ Last(tasks).do \in Sides
                        /\ ods.rotated
    /\ pc \in {"pad_reads", "write_back"} => ods.writes <= ods.reads
    /\ pc = "write_back" /\ PadCovers => ods.reads <= pad_val
    /\ pc \in {"ascend", "balance", "pad_reads"} /\ ~ods.rotated =>
          ods.reads <= node_count - 1
    /\ PadCovers => PanicJustified

\* The table covers twelve insertions.
LEMMA PadEnough ==
    ASSUME MaxInserts <= 12
    PROVE  PadCovers
<1> SUFFICES ASSUME NEW x \in 1..(MaxInserts + 1)
             PROVE  ComputePadVal(x) \in Nat /\ ComputePadVal(x) >= x - 1
  BY DEF PadCovers
<1>1. x \in 1..13
  BY OdictAssumption
<1>2. CASE x = 1 BY <1>2 DEF ComputePadVal
<1>3. CASE x = 2 BY <1>3 DEF ComputePadVal
<1>4. CASE x = 3 BY <1>4 DEF ComputePadVal
<1>5. CASE x = 4 BY <1>5 DEF ComputePadVal
<1>6. CASE x = 5 BY <1>6 DEF ComputePadVal
<1>7. CASE x = 6 BY <1>7 DEF ComputePadVal
<1>8. CASE x = 7 BY <1>8 DEF ComputePadVal
<1>9. CASE x = 8 BY <1>9 DEF ComputePadVal
<1>10. CASE x = 9 BY <1>10 DEF ComputePadVal
<1>11. CASE x = 10 BY <1>11 DEF ComputePadVal
<1>12. CASE x = 11 BY <1>12 DEF ComputePadVal
<1>13. CASE x = 12 BY <1>13 DEF ComputePadVal
<1>14. CASE x = 13 BY <1>14 DEF ComputePadVal
<1> QED
  BY <1>1, <1>2, <1>3, <1>4, <1>5, <1>6, <1>7, <1>8, <1>9, <1>10, <1>11, <1>12, <1>13, <1>14

LEMMA CountTypes ==
    ASSUME Typing
    PROVE  /\ ods.reads \in Nat /\ ods.writes \in Nat /\ Len(stack) \in Nat
           /\ Len(tasks) \in Nat /\ node_count \in Nat
           /\ PadCovers => pad_val \in Nat /\ pad_val >= node_count - 1
<1>1. ods \in Work /\ stack \in Stacks /\ tasks \in Seq(Tasks) /\ node_count \in 1..(MaxInserts + 1)
  BY TypingFacts DEF Typing, TypeOK
<1>2. Len(stack) \in Nat /\ Len(tasks) \in Nat
  BY <1>1, LenProperties DEF Stacks
<1> QED
  BY <1>1, <1>2 DEF Work, pad_val, PadCovers

LEMMA InitCounted ==
    ASSUME Init PROVE Counted
BY DEF Init, Counted, PanicJustified

\* Nodes that were passed are as many as were read, or fewer than the nodes there are.
LEMMA PassedBound ==
    ASSUME Typing, Walking, pc = "descend", NEW V \in SUBSET Ids, Passed(V)
    PROVE  /\ IsFiniteSet(V) /\ Cardinality(V) \in Nat /\ V \subseteq 1..used
           /\ invalid_mask \notin V
           /\ cursor \notin V => ods.reads <= used
           /\ cursor \in (1..used) \ V => ods.reads + 1 <= used
<1>1. used \in Nat /\ MemoryOK(used)
  BY TypingFacts
<1>2. V \subseteq 1..used
  BY <1>1 DEF MemoryOK, Passed
<1>3. IsFiniteSet(1..used) /\ Cardinality(1..used) = used
  BY <1>1, FS_Interval
<1>4. IsFiniteSet(V) /\ Cardinality(V) \in Nat /\ Cardinality(V) <= used
  BY <1>2, <1>3, FS_Subset, FS_CardinalityType
<1>5. invalid_mask \notin V
  BY <1>2 DEF invalid_mask
<1>6. ASSUME cursor \in (1..used) \ V PROVE ods.reads + 1 <= used
  <2>1. Cardinality(V \cup {cursor}) = Cardinality(V) + 1
    BY <1>4, <1>6, FS_AddElement
  <2>2. Cardinality(V \cup {cursor}) <= used
    BY <1>2, <1>3, <1>6, FS_Subset
  <2> QED
    BY <1>6, <2>1, <2>2 DEF Passed
<1> QED
  BY <1>2, <1>4, <1>5, <1>6 DEF Passed

\* The node that is read on the way down is what the memory has.
LEMMA ReadOnWay ==
    ASSUME Typing, Counted, Descend
    PROVE  /\ Top(ods') = memory[cursor] /\ memory[cursor] \in Node
           /\ ods'.evicted = {} /\ ~ods'.stale /\ ods'.writes = 0 /\ ~ods'.rotated
           /\ ods'.reads = ods.reads + 1 /\ cursor \in 1..used
           /\ \A n \in Nodes(ods'.cache) : memory[n.id] = n
<1>1. /\ setup \in Setups /\ used \in Nat /\ WorkOK(ods, used) /\ MemoryOK(used)
      /\ cursor \in Ids /\ ods.bad = "no" /\ Walking /\ pc = "descend"
      /\ ods' = OdsAccessRead(ods, cursor) /\ ods'.bad = "no"
  BY TypingFacts DEF Running, Descend, Counted
<1>2. /\ ods'.writes = ods.writes /\ ods'.rotated = ods.rotated /\ ods'.reads = ods.reads + 1
      /\ Top(ods').id = cursor /\ cursor \in 1..used /\ Keeps(ods, ods', Top(ods'))
      /\ IsIn(ods.cache, cursor) => Top(ods') \in Nodes(ods.cache) /\ ods'.stale = ods.stale
      /\ ~IsIn(ods.cache, cursor) => Top(ods') = memory[cursor]
                                     /\ ods'.stale = (ods.stale \/ cursor \in ods.evicted)
      /\ (\A k \in Nodes(ods.cache) : memory[k.id] = k) => ods'.evicted = ods.evicted
      /\ Top(ods') \in Node
  BY <1>1, ReadSound
<1>3. Top(ods') = memory[cursor] /\ memory[cursor] \in Node
  BY <1>1, <1>2 DEF Walking
<1>4. \A n \in Nodes(ods'.cache) : memory[n.id] = n
  BY <1>1, <1>2, <1>3 DEF Keeps, Walking
<1> QED
  BY <1>1, <1>2, <1>3, <1>4 DEF Walking

LEMMA DescendCounted ==
    ASSUME Typing, Counted, Descend PROVE Counted'
<1> DEFINE n == memory[cursor]
           side == Side(n, call.key)
<1>1. /\ Top(ods') = n /\ n \in Node
      /\ ods'.evicted = {} /\ ~ods'.stale /\ ods'.writes = 0 /\ ~ods'.rotated
      /\ ods'.reads = ods.reads + 1 /\ cursor \in 1..used
      /\ \A k \in Nodes(ods'.cache) : memory[k.id] = k
  BY ReadOnWay
<1>2. /\ pc = "descend" /\ memory' = memory /\ call' = call /\ node_count' = node_count
      /\ answer = None /\ (stack # <<>> => call.op = "insert")
      /\ call.op = "insert" => Len(stack) = ods.reads
  BY DEF Descend, Kept, Counted, Walking
<1>3. /\ \/ side # "here" /\ cursor' = n.child[side] /\ pc' = pc /\ answer' = answer
         \/ side = "here" /\ pc' = IF call.op = "find" THEN "pad_reads" ELSE "ascend"
      /\ stack' = IF call.op = "insert" THEN Append(stack, [node |-> n, side |-> side])
                  ELSE stack
  BY <1>1 DEF Descend, Goto
<1>4. PICK V \in SUBSET Ids : Passed(V)
  BY <1>2 DEF Counted, Walking
<1>5. /\ used \in Nat /\ used <= node_count - 1 /\ ods.reads \in Nat /\ node_count \in Nat
      /\ stack \in Stacks /\ cursor \in Ids
      /\ call.op \in {"find", "insert"}
  BY <1>2, UsedType, CountTypes, TypingFacts DEF CallOK
<1>6. call.op = "insert" => Len(stack') = ods'.reads
  BY <1>1, <1>2, <1>3, <1>5, AppendProperties DEF Stacks
<1>7. side \in Sides \cup {"here"}
  BY DEF Side, Sides
<1>8. /\ IsFiniteSet(V) /\ Cardinality(V) \in Nat /\ V \subseteq 1..used
      /\ cursor \in (1..used) \ V => ods.reads + 1 <= used
  BY <1>2, <1>4, PassedBound DEF Counted
<1>9. CASE side # "here"
  <2>1. PICK W \in SUBSET Ids : W = V \cup {cursor}
    BY <1>5
  <2>2. \A v \in W : /\ memory[v] \in Node /\ Side(memory[v], call.key) \in Sides
                     /\ memory[v].child[Side(memory[v], call.key)] \in W \cup {cursor'}
    <3>1. \A v \in V : /\ memory[v] \in Node /\ Side(memory[v], call.key) \in Sides
                       /\ memory[v].child[Side(memory[v], call.key)] \in W
      BY <1>4, <2>1 DEF Passed
    <3>2. n \in Node /\ side \in Sides /\ n.child[side] = cursor'
      BY <1>1, <1>3, <1>7, <1>9
    <3> QED
      BY <2>1, <3>1, <3>2
  <2>3. cursor' \notin W => Cardinality(W) = ods'.reads
    <3>1. CASE cursor \in V
      <4>1. n.child[side] \in V \cup {cursor}
        BY <1>4, <3>1 DEF Passed
      <4> QED
        BY <1>3, <1>9, <2>1, <4>1
    <3>2. CASE cursor \notin V
      <4>1. Cardinality(V) = ods.reads
        BY <1>4, <3>2 DEF Passed
      <4>2. Cardinality(V \cup {cursor}) = Cardinality(V) + 1
        BY <1>8, <3>2, FS_AddElement
      <4> QED
        BY <1>1, <2>1, <4>1, <4>2
    <3> QED
      BY <3>1, <3>2
  <2>4. Passed(W)'
    BY <1>2, <2>2, <2>3 DEF Passed
  <2>5. pc' = "descend"
    BY <1>2, <1>3, <1>9
  <2>6. Walking'
    BY <1>1, <1>2, <1>3, <1>6, <1>9, <2>1, <2>4 DEF Walking
  <2> QED
    BY <2>5, <2>6 DEF Counted, PanicJustified
<1>10. CASE side = "here"
  <2>1. cursor \notin V
    BY <1>4, <1>10 DEF Passed, Sides
  <2>2. ods'.reads <= node_count - 1
    BY <1>1, <1>5, <1>8, <2>1
  <2>3. pc' = IF call.op = "find" THEN "pad_reads" ELSE "ascend"
    BY <1>3, <1>10
  <2>4. pc' = "ascend" => ods'.writes + Len(stack') <= ods'.reads
    BY <1>1, <1>5, <1>6, <2>3
  <2>5. ods'.writes <= ods'.reads
    BY <1>1, <1>5
  <2> QED
    BY <1>2, <2>2, <2>3, <2>4, <2>5 DEF Counted, PanicJustified
<1> QED
  BY <1>9, <1>10

\* The sequence without its last and without its first element.
LEMMA FrontTail ==
    ASSUME NEW S, NEW q \in Seq(S), q # <<>>, NEW l, l = Len(q)
    PROVE  /\ l \in Nat \ {0} /\ DOMAIN q = 1..l /\ Head(q) = q[1] /\ Last(q) = q[l]
           /\ Head(q) \in S /\ Last(q) \in S
           /\ Front(q) \in Seq(S) /\ Len(Front(q)) = l - 1 /\ DOMAIN Front(q) = 1..(l - 1)
           /\ \A i \in DOMAIN Front(q) : Front(q)[i] = q[i]
           /\ Tail(q) \in Seq(S) /\ Len(Tail(q)) = l - 1 /\ DOMAIN Tail(q) = 1..(l - 1)
           /\ \A i \in DOMAIN Tail(q) : Tail(q)[i] = q[i + 1]
           /\ l = 1 => Tail(q) = <<>> /\ Front(q) = <<>>
           /\ l # 1 => Tail(q) # <<>> /\ Front(q) # <<>> /\ Last(Tail(q)) = Last(q)
<1>1. l \in Nat \ {0} /\ DOMAIN q = 1..l /\ Head(q) = q[1] /\ Last(q) = q[l]
      /\ \A i \in 1..l : q[i] \in S
  BY LenProperties, EmptySeq DEF Last
<1>2. Head(q) \in S /\ Last(q) \in S
  BY <1>1
<1>3. /\ Front(q) \in Seq(S) /\ Len(Front(q)) = l - 1
      /\ \A i \in 1..(l - 1) : Front(q)[i] = q[i]
  BY <1>1 DEF Front
<1>4. /\ Tail(q) \in Seq(S) /\ Len(Tail(q)) = l - 1
      /\ \A i \in 1..(l - 1) : Tail(q)[i] = q[i + 1]
  BY <1>1, HeadTailProperties
<1> DEFINE f == Front(q)
           t == Tail(q)
<1> HIDE DEF f, t
<1>5. DOMAIN f = 1..(l - 1) /\ DOMAIN t = 1..(l - 1)
  BY <1>3, <1>4, LenProperties DEF f, t
<1>6. l = 1 => t = <<>> /\ f = <<>>
  <2>1. l = 1 => Len(t) = 0 /\ Len(f) = 0
    BY <1>3, <1>4 DEF f, t
  <2> QED
    BY <1>3, <1>4, <2>1, EmptySeq DEF f, t
<1>7. l # 1 => t # <<>> /\ f # <<>> /\ Last(t) = q[l]
  <2>1. l # 1 => Len(t) # 0 /\ Len(f) # 0 /\ l - 1 \in 1..(l - 1) /\ (l - 1) + 1 = l
    BY <1>1, <1>3, <1>4 DEF f, t
  <2>2. l # 1 => t[l - 1] = q[l]
    BY <1>4, <2>1 DEF t
  <2>3. Len(<<>>) = 0
    OBVIOUS
  <2>4. Last(t) = t[Len(t)] /\ Len(t) = l - 1
    BY <1>4 DEF Last, t
  <2> QED
    BY <2>1, <2>2, <2>3, <2>4
<1> QED
  BY <1>1, <1>2, <1>3, <1>4, <1>5, <1>6, <1>7 DEF f, t

LEMMA WriteStale ==
    ASSUME setup \in Setups, NEW m \in Nat, NEW w, WorkOK(w, m), NEW n \in Node, n.id \in 1..m
    PROVE  OdsAccessWrite(w, n).stale = w.stale
BY ONLY OdictAssumption, setup \in Setups, WorkOK(w, m), n.id \in 1..m, WriteSound

LEMMA WriteCounts ==
    ASSUME setup \in Setups, NEW m \in Nat, NEW w, WorkOK(w, m), w.bad = "no",
           NEW n \in Node, n.id \in 1..m, NEW v, v = OdsAccessWrite(w, n)
    PROVE  v.reads = w.reads /\ v.writes = w.writes + 1 /\ v.rotated = w.rotated
BY ONLY OdictAssumption, setup \in Setups, WorkOK(w, m), w.bad = "no", n.id \in 1..m,
        v = OdsAccessWrite(w, n), WriteSound

LEMMA ReadCounts ==
    ASSUME setup \in Setups, NEW m \in Nat, NEW w, WorkOK(w, m), MemoryOK(m), w.bad = "no",
           NEW id \in Ids, NEW v, v = OdsAccessRead(w, id)
    PROVE  v.reads = w.reads + 1 /\ v.writes = w.writes /\ v.rotated = w.rotated
BY ONLY OdictAssumption, setup \in Setups, WorkOK(w, m), MemoryOK(m), w.bad = "no",
        v = OdsAccessRead(w, id), ReadSound

LEMMA NotFoundCounted ==
    ASSUME Typing, Counted, NotFound PROVE Counted'
<1>1. /\ pc = "descend" /\ cursor = invalid_mask /\ pc' = "pad_reads" /\ Walking
      /\ ods' = ods /\ node_count' = node_count
  BY DEF NotFound, Goto, Kept, Counted
<1>2. PICK V \in SUBSET Ids : Passed(V)
  BY <1>1 DEF Walking
<1>3. ods.reads <= used
  BY <1>1, <1>2, PassedBound
<1>4. ods.reads <= node_count - 1 /\ ods.writes <= ods.reads
  BY <1>1, <1>3, UsedType, CountTypes DEF Walking
<1> QED
  BY <1>1, <1>4 DEF Counted, PanicJustified

LEMMA PlaceCounted ==
    ASSUME Typing, Counted, Place PROVE Counted'
<1>1. /\ pc = "descend" /\ cursor = invalid_mask /\ pc' = "ascend" /\ Walking
      /\ node_count' = node_count /\ stack' = stack /\ call.op = "insert"
      /\ ods' = Put(ods, Leaf)
  BY DEF Place, Goto, Kept, Counted, Leaf
<1>2. PICK V \in SUBSET Ids : Passed(V)
  BY <1>1 DEF Walking
<1>3. ods.reads <= used
  BY <1>1, <1>2, PassedBound
<1>4. ods'.reads = ods.reads /\ ods'.writes = ods.writes
  <2>1. /\ WorkOK(ods, used) /\ used \in Nat /\ setup \in Setups /\ used + 1 \in Nat
        /\ used <= used + 1
    BY TypingFacts
  <2>2. WorkOK(ods, used + 1)
    BY <2>1, WorkMono
  <2>3. Leaf \in Node /\ Leaf.id \in 1..(used + 1)
    BY <1>1, <2>1, LeafFacts
  <2> QED
    BY <1>1, <2>1, <2>2, <2>3, PutSound DEF SameCounts
<1>5. ods.reads <= node_count - 1 /\ ods.writes + Len(stack) <= ods.reads
  BY <1>1, <1>3, UsedType, CountTypes DEF Walking
<1> QED
  BY <1>1, <1>4, <1>5 DEF Counted, PanicJustified

LEMMA AscendCounted ==
    ASSUME Typing, Counted, Ascend PROVE Counted'
<1> DEFINE above == Last(stack)
           root == IF above.side = "here" THEN above.node
                   ELSE Relinked(above.node, above.side, Top(ods))
<1>1. /\ pc = "ascend" /\ pc' = "balance" /\ stack # <<>> /\ stack' = Front(stack)
      /\ node_count' = node_count /\ ods' = OdsAccessWrite(ods, root)
      /\ ods.bad = "no"
  BY TypingFacts DEF Ascend, Goto, Kept, Running
<1> HIDE DEF root
<1>2. /\ ods.writes + Len(stack) <= ods.reads
      /\ ~ods.rotated => ods.reads <= node_count - 1
  BY <1>1 DEF Counted
<1>3. Len(stack') = Len(stack) - 1
  BY <1>1, TypingFacts, FrontTail DEF Stacks
<1>4. ods'.writes = ods.writes + 1 /\ ods'.reads = ods.reads /\ ods'.rotated = ods.rotated
  <2> DEFINE p == Put(ods, root)
             e == p.evicted \ {root.id}
             x == p.writes + 1
  <2>1. ods' = [p EXCEPT !.writes = @ + 1, !.evicted = e]
    BY <1>1 DEF OdsAccessWrite
  <2>2. ods \in Work
    BY TypingFacts DEF WorkOK
  <2>3. p.writes = ods.writes /\ p.reads = ods.reads /\ p.rotated = ods.rotated
    BY <2>2 DEF Put, Work
  <2> QED
    BY <1>1, <2>2 DEF OdsAccessWrite, Put, Work
<1> QED
  BY <1>1, <1>2, <1>3, <1>4, CountTypes DEF Counted, PanicJustified

LEMMA InsertReturnsCounted ==
    ASSUME Typing, Counted, InsertReturns PROVE Counted'
<1>1. /\ pc = "ascend" /\ pc' = "pad_reads" /\ stack = <<>> /\ ods' = ods
      /\ node_count' = node_count
  BY DEF InsertReturns, Goto
<1>2. Len(stack) = 0
  BY <1>1
<1> QED
  BY <1>1, <1>2, CountTypes DEF Counted, PanicJustified

\* What Proceed leaves.
LEMMA ProceedCounted ==
    ASSUME Typing, NEW w, NEW rest, Proceed(w, rest), WorkOK(w, used),
           rest \in Seq(Tasks), rest # <<>> => Last(rest).do \in Sides,
           w.bad = "no" =>
              \/ /\ rest # <<>> /\ w.rotated
                 /\ w.writes + Len(stack) + Len(rest) <= w.reads + 1
              \/ /\ rest = <<>> /\ w.writes + Len(stack) <= w.reads
                 /\ ~w.rotated => w.reads <= node_count - 1
    PROVE  Counted'
<1>1. /\ ods' = w /\ tasks' = rest /\ stack' = stack /\ node_count' = node_count
      /\ pc' = IF w.bad # "no" THEN w.bad ELSE IF rest = <<>> THEN "ascend" ELSE "rotate"
  BY DEF Proceed, Goto, Kept
<1>2. w.bad \in {"no", "aborted", "garbled"}
  BY DEF WorkOK, Work
<1>3. CASE w.bad # "no"
  BY <1>1, <1>2, <1>3 DEF Counted, PanicJustified
<1>4. CASE w.bad = "no" /\ rest = <<>>
  BY <1>1, <1>4 DEF Counted, PanicJustified
<1>5. CASE w.bad = "no" /\ rest # <<>>
  BY <1>1, <1>5 DEF Counted, PanicJustified
<1> QED
  BY <1>3, <1>4, <1>5

LEMMA BalanceCounted ==
    ASSUME Typing, Counted, Balance PROVE Counted'
<1> DEFINE root == Top(ods)
<1>1. /\ used \in Nat /\ setup \in Setups /\ ods.bad = "no" /\ WorkOK(ods, used)
      /\ MemoryOK(used) /\ pc = "balance" /\ root \in Node /\ root.id \in 1..used
      /\ ods.writes + Len(stack) <= ods.reads
      /\ ~ods.rotated => ods.reads <= node_count - 1
  BY TypingFacts, BalanceTyping DEF Balance, Running, Counted
<1> HIDE DEF root
<1>2. CASE Proceed(ods, <<>>)
  <2>1. <<>> \in Seq(Tasks)
    OBVIOUS
  <2> QED
    BY <1>1, <1>2, <2>1, ProceedCounted
<1>3. ASSUME NEW side \in Sides,
             NEW w, w = OdsAccessRead([ods EXCEPT !.rotated = TRUE], root.child[side]),
             \/ Proceed(w, SingleRotation(side, root))
             \/ Proceed(OdsAccessRead(w, root.id), DoubleRotation(side, root))
      PROVE  Counted'
  <2> DEFINE u == [ods EXCEPT !.rotated = TRUE]
             v == OdsAccessRead(w, root.id)
  <2>1. /\ WorkOK(u, used) /\ u.bad = "no" /\ u.rotated /\ u.reads = ods.reads
        /\ u.writes = ods.writes
    BY <1>1 DEF WorkOK, Work
  <2> HIDE DEF u
  <2>2. root.child[side] \in Ids /\ root.id \in Ids
    BY <1>1, NodeFields
  <2>3. w = OdsAccessRead(u, root.child[side])
    BY <1>3 DEF u
  <2>4. /\ WorkOK(w, used) /\ w.reads = ods.reads + 1 /\ w.writes = ods.writes /\ w.rotated
    BY <1>1, <2>1, <2>2, <2>3, ReadSound
  <2>5. /\ WorkOK(v, used)
        /\ w.bad = "no" => v.reads = w.reads + 1
        /\ v.writes = w.writes /\ v.rotated
        /\ w.bad # "no" => v = w
    <3>1. CASE w.bad # "no"
      BY <2>4, <3>1, BadStays
    <3>2. CASE w.bad = "no"
      BY <1>1, <2>2, <2>4, <3>2, ReadSound
    <3> QED
      BY <3>1, <3>2
  <2> HIDE DEF v
  <2>6. Other(side) \in Sides
    BY OtherSide
  <2>7. CASE Proceed(w, SingleRotation(side, root))
    <3>1. Len(SingleRotation(side, root)) = 1 /\ Last(SingleRotation(side, root)).do = Other(side)
          /\ SingleRotation(side, root) # <<>>
      BY DEF SingleRotation, Task, Last
    <3>2. w.writes + Len(stack) + 1 <= w.reads + 1
      BY <1>1, <2>4, CountTypes
    <3> QED
      BY <1>1, <2>4, <2>6, <2>7, <3>1, <3>2, TaskLists, ProceedCounted
  <2>8. CASE Proceed(v, DoubleRotation(side, root))
    <3>1. Len(DoubleRotation(side, root)) = 3 /\ Last(DoubleRotation(side, root)).do = Other(side)
          /\ DoubleRotation(side, root) # <<>>
      BY DEF DoubleRotation, Task, Last
    <3>2. v.bad = "no" => v.writes + Len(stack) + 3 <= v.reads + 1
      <4>1. v.bad = "no" => w.bad = "no"
        BY <2>5
      <4>2. v.bad = "no" => v.reads = ods.reads + 2 /\ v.writes = ods.writes
        BY <2>4, <2>5, <4>1, CountTypes
      <4>3. ods.writes + Len(stack) <= ods.reads
        BY <1>1
      <4> QED
        BY SMTT(30), <4>2, <4>3, CountTypes
    <3> QED
      BY <1>1, <2>5, <2>6, <2>8, <3>1, <3>2, TaskLists, ProceedCounted
  <2> QED
    BY <1>3, <2>7, <2>8 DEF v
<1> QED
  BY <1>2, <1>3 DEF Balance, root

\* The tasks that are left, after one of them.
LEMMA RestOfTasks ==
    ASSUME Typing, Counted, pc = "rotate"
    PROVE  /\ Tail(tasks) # <<>> => Last(Tail(tasks)) = Last(tasks)
           /\ Tail(tasks) = <<>> => Head(tasks) = Last(tasks)
           /\ Len(Tail(tasks)) = Len(tasks) - 1
<1>1. tasks \in Seq(Tasks) /\ tasks # <<>>
  BY TypingFacts DEF Typing
<1> HIDE DEF Tasks
<1> QED
  BY <1>1, FrontTail

LEMMA Sums ==
    ASSUME NEW r \in Nat, NEW w \in Nat, NEW s \in Nat, NEW t \in Nat, w + s + t <= r + 1
    PROVE  /\ (w + 2) + s + (t - 1) <= (r + 2) + 1
           /\ (w + 1) + s + (t - 1) <= r + 1
           /\ t - 1 = 0 => (w + 2) + s <= r + 2
OBVIOUS

LEMMA RotateCounted ==
    ASSUME Typing, Counted, NEW side \in Sides, Rotate(side) PROVE Counted'
<1>1. /\ used \in Nat /\ setup \in Setups /\ ods.bad = "no" /\ WorkOK(ods, used)
      /\ MemoryOK(used) /\ pc = "rotate" /\ Head(tasks).id \in Ids /\ ods.rotated
      /\ ods.writes + Len(stack) + Len(tasks) <= ods.reads + 1
      /\ Last(tasks).do \in Sides
  BY Zenon, TypingFacts, HeadTask DEF Rotate, Running, Counted, Tasks
<1>2. PICK w1, w2, down, w3, up, w4 :
              /\ RotateSteps(side, Head(tasks).id, ods, w1, w2, down, w3, up, w4)
              /\ Proceed(w4, Tail(tasks))
  BY SMTT(30), RotateStep
<1>3. w1 = OdsAccessRead(ods, Head(tasks).id) /\ w2 = OdsAccessRead(w1, Top(w1).child[Other(side)])
      /\ w3 = OdsAccessWrite(w2, down) /\ w4 = OdsAccessWrite(w3, up)
  BY Zenon, <1>2 DEF RotateSteps
<1>4. /\ WorkOK(w1, used) /\ WorkOK(w2, used) /\ WorkOK(w3, used) /\ WorkOK(w4, used)
      /\ w1.bad # "no" => w4 = w1
      /\ w1.bad = "no" /\ w2.bad # "no" => w4 = w2
      /\ w1.bad = "no" => /\ Top(w1) \in Node /\ Top(w1).id = Head(tasks).id
                          /\ Head(tasks).id \in 1..used /\ Top(w1).child[Other(side)] \in Ids
      /\ w1.bad = "no" /\ w2.bad = "no" =>
            /\ Top(w2) \in Node /\ Top(w2).id \in 1..used
            /\ Relink1(down, Top(w1), Other(side), Top(w2).child[side], Top(w2).height[side])
            /\ Relink1(up, Top(w2), side, Head(tasks).id, HEIGHT(down))
            /\ w3.bad = "no"
  BY <1>1, <1>2, RotationWork
<1>5. CASE w4.bad # "no"
  BY <1>1, <1>2, <1>4, <1>5, HeadTask, RestOfTasks, ProceedCounted
<1>6. CASE w4.bad = "no"
  <2>1. w1.bad = "no" /\ w2.bad = "no" /\ w3.bad = "no"
    BY <1>4, <1>6
  <2>2. w1.reads = ods.reads + 1 /\ w1.writes = ods.writes /\ w1.rotated
    <3>1. /\ setup \in Setups /\ used \in Nat /\ WorkOK(ods, used) /\ MemoryOK(used)
          /\ ods.bad = "no" /\ Head(tasks).id \in Ids /\ ods.rotated
      BY <1>1
    <3>2. w1 = OdsAccessRead(ods, Head(tasks).id)
      BY Zenon, <1>2 DEF RotateSteps
    <3> QED
      BY ONLY SMTT(30), <3>1, <3>2, ReadCounts
  <2>3. w2.reads = w1.reads + 1 /\ w2.writes = w1.writes /\ w2.rotated
    BY <1>1, <1>3, <1>4, <2>1, <2>2, ReadCounts
  <2>4. down \in Node /\ down.id \in 1..used /\ up \in Node /\ up.id \in 1..used
    BY <1>4, <2>1 DEF Relink1
  <2>5. w3.reads = w2.reads /\ w3.writes = w2.writes + 1 /\ w3.rotated
    <3>1. setup \in Setups /\ used \in Nat /\ WorkOK(w2, used)
      BY <1>1, <1>4
    <3>2. w3 = OdsAccessWrite(w2, down)
      BY Zenon, <1>2 DEF RotateSteps
    <3> QED
      BY ONLY SMTT(30), <3>2, <2>1, <2>3, <2>4, <3>1, WriteCounts
  <2>6. w4.reads = w3.reads /\ w4.writes = w3.writes + 1 /\ w4.rotated
    <3>1. setup \in Setups /\ used \in Nat /\ WorkOK(w3, used)
      BY <1>1, <1>4
    <3>2. w4 = OdsAccessWrite(w3, up)
      BY Zenon, <1>2 DEF RotateSteps
    <3> QED
      BY ONLY SMTT(30), <3>2, <2>1, <2>4, <2>5, <3>1, WriteCounts
  <2>7. w4.reads = ods.reads + 2 /\ w4.writes = ods.writes + 2
    <3>1. ods.reads \in Nat /\ ods.writes \in Nat
      BY CountTypes
    <3>2. w4.reads = (ods.reads + 1) + 1 /\ w4.writes = (ods.writes + 1) + 1
      BY <2>2, <2>3, <2>5, <2>6
    <3> QED
      BY <3>1, <3>2
  <2>8. CASE Tail(tasks) = <<>>
    <3>1. w4.writes + Len(stack) <= w4.reads
      <4>1. Len(tasks) - 1 = 0
        <5>1. Len(<<>>) = 0
          OBVIOUS
        <5>2. Len(Tail(tasks)) = Len(tasks) - 1 /\ pc = "rotate"
          BY <1>1, RestOfTasks
        <5> QED
          BY <2>8, <5>1, <5>2
      <4>2. ods.writes + Len(stack) + Len(tasks) <= ods.reads + 1
        BY <1>1
      <4>3. (ods.writes + 2) + Len(stack) <= ods.reads + 2
        BY <4>1, <4>2, CountTypes, Sums
      <4> QED
        BY <2>7, <4>3
    <3> QED
      BY <1>1, <1>2, <1>4, <2>6, <2>8, <3>1, HeadTask, ProceedCounted
  <2>9. CASE Tail(tasks) # <<>>
    <3>1. w4.writes + Len(stack) + Len(Tail(tasks)) <= w4.reads + 1
      <4>1. Len(Tail(tasks)) = Len(tasks) - 1
        BY <1>1, RestOfTasks
      <4>2. ods.writes + Len(stack) + Len(tasks) <= ods.reads + 1
        BY <1>1
      <4> QED
        BY <2>7, <4>1, <4>2, CountTypes, Sums
    <3> QED
      BY <1>1, <1>2, <1>4, <2>6, <2>9, <3>1, HeadTask, RestOfTasks, ProceedCounted
  <2> QED
    BY <2>8, <2>9
<1> QED
  BY SMTT(30), <1>5, <1>6

LEMMA RelinkCounted ==
    ASSUME Typing, Counted, NEW side \in Sides, Relink(side) PROVE Counted'
<1> DEFINE n == Relinked(Head(tasks).node, side, Top(ods))
           w == OdsAccessWrite(ods, n)
<1>1. /\ used \in Nat /\ setup \in Setups /\ ods.bad = "no" /\ WorkOK(ods, used)
      /\ pc = "rotate" /\ ods.rotated /\ Head(tasks).do = Relinking(side)
      /\ ods.writes + Len(stack) + Len(tasks) <= ods.reads + 1
      /\ Last(tasks).do \in Sides
  BY TypingFacts DEF Relink, Running, Counted
<1>2. n \in Node /\ n.id \in 1..used
  BY RelinkTyping DEF Relink1
<1>3. Proceed(w, Tail(tasks))
  BY DEF Relink
<1> HIDE DEF n
<1>4. WorkOK(w, used) /\ w.reads = ods.reads /\ w.writes = ods.writes + 1 /\ w.rotated
  BY <1>1, <1>2, WriteSound
<1> HIDE DEF w
<1>5. Tail(tasks) # <<>>
  <2>1. Relinking(side) \notin Sides
    BY DEF Relinking, Sides
  <2> QED
    BY <1>1, <2>1, RestOfTasks
<1>6. w.writes + Len(stack) + Len(Tail(tasks)) <= w.reads + 1
  <2>1. Len(Tail(tasks)) = Len(tasks) - 1
    BY <1>1, RestOfTasks
  <2>2. ods.writes + Len(stack) + Len(tasks) <= ods.reads + 1
    BY <1>1
  <2>3. w.reads = ods.reads /\ w.writes = ods.writes + 1
    BY <1>4
  <2> QED
    BY <2>1, <2>2, <2>3, CountTypes, Sums
<1> QED
  BY <1>1, <1>3, <1>4, <1>5, <1>6, HeadTask, RestOfTasks, ProceedCounted

LEMMA PadReadsCounted ==
    ASSUME Typing, Counted, PadReads PROVE Counted'
<1>1. /\ pc = "pad_reads" /\ ods' = ods /\ node_count' = node_count
      /\ DoPad(pad_val - ods.reads, "write_back") /\ pad_val' = pad_val
      /\ ods.writes <= ods.reads
      /\ ~ods.rotated => ods.reads <= node_count - 1
  BY DEF PadReads, Counted, pad_val
<1>2. \/ pc' = "panicked" /\ pad_val - ods.reads < 0
      \/ pc' = "aborted"
      \/ pc' = "write_back" /\ pad_val - ods.reads >= 0
  BY <1>1 DEF DoPad, Goto
<1> QED
  BY <1>1, <1>2, CountTypes DEF Counted, PanicJustified

LEMMA PadWritesCounted ==
    ASSUME Typing, Counted, PadWrites PROVE Counted'
<1>1. /\ pc = "write_back" /\ DoPad(pad_val - ods.writes, "idle")
      /\ ods.writes <= ods.reads /\ (PadCovers => ods.reads <= pad_val)
  BY DEF PadWrites, Counted
<1>2. PadCovers => ~(pad_val - ods.writes < 0)
  BY <1>1, CountTypes
<1>3. pc' \in {"aborted", "idle", "panicked"} /\ (PadCovers => pc' # "panicked")
  BY <1>1, <1>2 DEF DoPad, Goto
<1> QED
  BY <1>3 DEF Counted, PanicJustified

LEMMA WriteBackCounted ==
    ASSUME Typing, Counted, WriteBack PROVE Counted'
<1>1. pc = "write_back" /\ pc' = pc /\ pad_val' = pad_val
  BY DEF WriteBack, pad_val
<1>2. SameCounts(ods, ods')
  BY WriteBackFacts
<1> QED
  BY <1>1, <1>2 DEF Counted, PanicJustified, SameCounts

LEMMA BeginCounted ==
    ASSUME Typing, Counted, NEW k \in Key, Find(k) \/ Insert(k, node_count)
    PROVE  Counted'
<1>1. /\ pc' = "descend" /\ ods = Start /\ ods' = [ods EXCEPT !.cache = <<>>]
      /\ stack' = <<>> /\ answer' = None
  BY DEF Find, Insert, Begin, Typing
<1>2. /\ ods'.cache = <<>> /\ ods'.evicted = {} /\ ods'.stale = FALSE /\ ods'.writes = 0
      /\ ods'.reads = 0 /\ ods'.rotated = FALSE
  BY <1>1 DEF Start
<1>3. Nodes(ods'.cache) = {} /\ Len(stack') = 0
  BY <1>1, <1>2 DEF Nodes
<1>4. Passed({})'
  BY <1>2, FS_EmptySet DEF Passed
<1>5. Walking'
  <2>1. {} \in SUBSET Ids
    OBVIOUS
  <2> QED
    BY <1>1, <1>2, <1>3, <1>4, <2>1 DEF Walking
<1> QED
  BY <1>1, <1>5 DEF Counted, PanicJustified

LEMMA NextCounted ==
    ASSUME Typing, Counted, [Next]_vars PROVE Counted'
<1>1. CASE Call
  BY <1>1, BeginCounted DEF Call
<1>2. CASE Broken \/ ReadFails \/ Overflow
  <2>1. pc' \in {"aborted", "garbled", "overflowed"}
    <3>1. CASE Broken
      BY <3>1, BrokenTyping DEF Broken, Goto, Typing, TypeOK, Work
    <3> QED
      BY <1>2, <3>1 DEF ReadFails, Overflow, Goto
  <2> QED
    BY <2>1 DEF Counted, PanicJustified
<1>3. CASE UNCHANGED vars
  BY <1>3 DEF vars, Counted, PanicJustified, Walking, Passed, pad_val
<1>4. CASE Step /\ ~(Broken \/ ReadFails \/ Overflow)
  BY <1>4, DescendCounted, NotFoundCounted, PlaceCounted, AscendCounted, InsertReturnsCounted,
     BalanceCounted, RotateCounted, RelinkCounted, PadReadsCounted, WriteBackCounted,
     PadWritesCounted
     DEF Step, LeftRotate, RightRotate, Sides
<1> QED
  BY <1>1, <1>2, <1>3, <1>4 DEF Next

-------------------------------------------------------------------------------
\* Every variable has its type, whatever fails: the identifiers of nodes are those
\* that were given out, no node is cached twice, and the cache has its size at most.
THEOREM TypeCorrect == Spec => []Typing
<1>1. Init => Typing
  BY InitTyping
<1>2. Typing /\ [Next]_vars => Typing'
  BY NextTyping
<1> QED
  BY <1>1, <1>2, PTL DEF Spec

\* The assertion of the padding fails only for an insertion that rotates, as long as the
\* padding has one access for every node.
THEOREM PanicOnlyAfterRotation == PadCovers => (Spec => []PanicJustified)
<1> SUFFICES ASSUME PadCovers PROVE Spec => []PanicJustified
  OBVIOUS
<1>1. Init => Typing /\ Counted
  BY InitTyping, InitCounted
<1>2. Typing /\ Counted /\ [Next]_vars => Typing' /\ Counted'
  BY NextTyping, NextCounted
<1>3. Counted => PanicJustified
  BY DEF Counted
<1> QED
  BY <1>1, <1>2, <1>3, PTL DEF Spec

-------------------------------------------------------------------------------
(* Search trees: L[j] is the node of id j, and U[j] the ids of the tree under j. *)

Under(s, a, b) == IF s = "left" THEN a < b ELSE a > b

Tree(L, U, r) ==
    /\ r \in Ids /\ U[invalid_mask] = {} /\ U[r] \subseteq Ids \ {invalid_mask}
    /\ r # invalid_mask => r \in U[r]
    /\ \A j \in U[r] :
          /\ L[j] \in Node /\ L[j].id = j
          /\ U[j] \subseteq U[r]
          /\ U[j] = {j} \cup UNION {U[L[j].child[s]] : s \in Sides}
          /\ \A s \in Sides : /\ L[j].child[s] \in U[r] \cup {invalid_mask}
                              /\ \A i \in U[L[j].child[s]] : Under(s, L[i].key, L[j].key)
    /\ \A i, j \in U[r] : \A s, z \in Sides :
          L[i].child[s] = L[j].child[z] /\ L[i].child[s] # invalid_mask => i = j

LEMMA TreeNodes ==
    ASSUME NEW L, NEW U, NEW r, Tree(L, U, r), NEW j \in U[r]
    PROVE  /\ j \in Ids /\ j # invalid_mask /\ L[j] \in Node /\ L[j].id = j
           /\ j \in U[j] /\ U[j] \subseteq U[r]
           /\ \A i : i \in U[j] <=> i = j \/ \E s \in Sides : i \in U[L[j].child[s]]
BY DEF Tree

\* A child: its tree is part of the parent's, without the parent and without the
\* tree of the other child; it is not the root, and nobody else's child.
LEMMA TreeChild ==
    ASSUME NEW L, NEW U, NEW r, Tree(L, U, r), NEW j \in U[r], NEW s \in Sides,
           NEW c, c = L[j].child[s]
    PROVE  /\ c \in Ids /\ U[c] \subseteq U[j] /\ U[c] \subseteq U[r] /\ j \notin U[c]
           /\ c # invalid_mask => c \in U[c] /\ c \in U[r]
           /\ c # j /\ (c # invalid_mask => c # r)
           /\ \A i \in U[c] : Under(s, L[i].key, L[j].key)
           /\ \A i \in U[L[j].child[Other(s)]] : i \notin U[c]
           /\ c # invalid_mask =>
                 \A i \in U[r] : \A z \in Sides : L[i].child[z] = c => i = j /\ z = s
<1>1. /\ L[j] \in Node /\ j \in U[j] /\ U[j] \subseteq U[r] /\ L[j].key \in Nat
      /\ j \in Ids /\ j # invalid_mask
  BY NodeFields, TreeNodes
<1>2. c \in U[r] \cup {invalid_mask} /\ \A i \in U[c] : Under(s, L[i].key, L[j].key)
  BY DEF Tree
<1>3. U[c] \subseteq U[j]
  BY TreeNodes
<1>4. c # invalid_mask => c \in U[c]
  BY <1>2, TreeNodes
<1>5. c \in Ids
  BY <1>1, NodeFields
<1>6. j \notin U[c]
  BY <1>1, <1>2 DEF Under
<1>7. \A i \in U[L[j].child[Other(s)]] : i \notin U[c]
  <2> SUFFICES ASSUME NEW i \in U[L[j].child[Other(s)]], i \in U[c]
               PROVE  FALSE
    OBVIOUS
  <2>1. Other(s) \in Sides /\ Other(s) # s
    BY OtherSide
  <2>2. Under(s, L[i].key, L[j].key) /\ Under(Other(s), L[i].key, L[j].key)
    BY <1>2, <2>1 DEF Tree
  <2>3. L[i].key \in Nat
    BY <1>1, <1>3, TreeNodes, NodeFields
  <2> QED
    BY <1>1, <2>1, <2>2, <2>3 DEF Under, Sides
<1>8. ASSUME c # invalid_mask, NEW i \in U[r], NEW z \in Sides, L[i].child[z] = c
      PROVE  i = j /\ z = s
  <2>1. i = j
    BY <1>8 DEF Tree
  <2>2. CASE z # s
    <3>1. z = Other(s)
      BY <2>2, OtherSide
    <3> QED
      BY <1>4, <1>7, <1>8, <2>1, <3>1
  <2> QED
    BY <2>1, <2>2
<1>9. c # invalid_mask => c # r
  <2> SUFFICES ASSUME c # invalid_mask, c = r
               PROVE  FALSE
    OBVIOUS
  <2> QED
    BY <1>6
<1>10. c # j
  BY <1>1, <1>4, <1>6
<1> QED
  BY <1>1, <1>2, <1>3, <1>4, <1>5, <1>6, <1>7, <1>8, <1>9, <1>10

\* The parent of a node is the only one.
LEMMA OnlyParent ==
    ASSUME NEW L, NEW U, NEW r, Tree(L, U, r), NEW j \in U[r], NEW s \in Sides,
           NEW i \in U[r], NEW z \in Sides, L[i].child[z] = L[j].child[s],
           L[j].child[s] # invalid_mask
    PROVE  i = j /\ z = s
BY TreeChild

(* A path from the root, sp, down to t: nodes with the side taken at each.  The node
   that the path has is the node of the tree, but for the child on that side. *)

RootOf(t, sp) == IF sp = <<>> THEN t ELSE sp[1].node.id
NextId(t, sp, i) == IF i = Len(sp) THEN t ELSE sp[i + 1].node.id
SpineIds(sp) == {sp[i].node.id : i \in DOMAIN sp}

\* n is m but for the child on a side and the height kept for it.
Alike(n, m, s) ==
    /\ n.id = m.id /\ n.key = m.key /\ n.val = m.val
    /\ n.child[Other(s)] = m.child[Other(s)] /\ n.height[Other(s)] = m.height[Other(s)]

OnPath(L, U, t, sp, r, i) ==
    LET f == sp[i] IN
    /\ f.side \in Sides
    /\ f.node.id \in U[r] /\ f.node.id \notin U[t]
    /\ Alike(L[f.node.id], f.node, f.side)
    /\ L[f.node.id].height[f.side] = f.node.height[f.side]
    /\ L[f.node.id].child[f.side] = NextId(t, sp, i)
    /\ \A j \in DOMAIN sp : i < j => f.node.id \notin U[sp[j].node.id]

Context(L, U, t, sp) ==
    /\ sp \in Stacks
    /\ Tree(L, U, RootOf(t, sp))
    /\ t \in Ids /\ (t # invalid_mask => t \in U[RootOf(t, sp)])
    /\ \A i \in DOMAIN sp : OnPath(L, U, t, sp, RootOf(t, sp), i)

LEMMA ContextFacts ==
    ASSUME NEW L, NEW U, NEW t, NEW sp, Context(L, U, t, sp), NEW r, r = RootOf(t, sp)
    PROVE  /\ sp \in Stacks /\ Tree(L, U, r) /\ t \in Ids /\ (t # invalid_mask => t \in U[r])
           /\ Len(sp) \in Nat /\ DOMAIN sp = 1..Len(sp)
           /\ U[t] \subseteq U[r] /\ (t # invalid_mask => t \in U[t])
           /\ SpineIds(sp) \subseteq U[r] \ U[t]
           /\ t \notin SpineIds(sp)
           /\ \A i \in DOMAIN sp : sp[i] \in Frame /\ sp[i].node \in Node
<1>1. /\ sp \in Stacks /\ Tree(L, U, r) /\ t \in Ids /\ (t # invalid_mask => t \in U[r])
      /\ Len(sp) \in Nat /\ DOMAIN sp = 1..Len(sp)
      /\ \A i \in 1..Len(sp) : sp[i] \in Frame
  BY LenProperties DEF Context, Stacks
<1>2. U[t] \subseteq U[r] /\ (t # invalid_mask => t \in U[t])
  BY <1>1, TreeNodes DEF Tree
<1>3. \A i \in DOMAIN sp : sp[i].node.id \in U[r] \ U[t]
  BY DEF Context, OnPath
<1>4. \A i \in DOMAIN sp : sp[i].node.id # t
  <2>1. CASE t = invalid_mask
    BY <1>1, <1>3, <2>1, TreeNodes
  <2>2. CASE t # invalid_mask
    BY <1>2, <1>3, <2>2
  <2> QED
    BY <2>1, <2>2
<1>5. SpineIds(sp) \subseteq U[r] \ U[t] /\ t \notin SpineIds(sp)
  BY <1>3, <1>4 DEF SpineIds
<1>6. \A i \in DOMAIN sp : sp[i].node \in Node
  BY <1>1 DEF Frame
<1> QED
  BY <1>1, <1>2, <1>5, <1>6

\* The ids of a path are different.
LEMMA SpineUnique ==
    ASSUME NEW L, NEW U, NEW t, NEW sp, Context(L, U, t, sp),
           NEW i \in DOMAIN sp, NEW j \in DOMAIN sp, sp[i].node.id = sp[j].node.id
    PROVE  i = j
<1>1. i \in Nat /\ j \in Nat
  BY ContextFacts
<1>2. sp[i].node.id \in U[sp[i].node.id]
  BY ContextFacts, TreeNodes DEF Context, OnPath
<1> QED
  BY <1>1, <1>2 DEF Context, OnPath

\* The parent of a node of the path is the node before it, and the first has none.
LEMMA SpineParent ==
    ASSUME NEW L, NEW U, NEW t, NEW sp, Context(L, U, t, sp), NEW r, r = RootOf(t, sp),
           NEW i \in DOMAIN sp, NEW j \in U[r], NEW s \in Sides,
           L[j].child[s] = sp[i].node.id
    PROVE  i - 1 \in DOMAIN sp /\ j = sp[i - 1].node.id /\ s = sp[i - 1].side
<1> DEFINE c == sp[i].node.id
<1>1. /\ Tree(L, U, r) /\ Len(sp) \in Nat /\ DOMAIN sp = 1..Len(sp) /\ c \in U[r]
      /\ c # invalid_mask
  BY ContextFacts, TreeNodes DEF Context, OnPath
<1>2. i # 1
  <2>1. c # r
    BY <1>1, TreeChild
  <2> QED
    BY <1>1, <2>1 DEF RootOf
<1>3. i - 1 \in DOMAIN sp /\ (i - 1) + 1 = i /\ i - 1 # Len(sp)
  BY <1>1, <1>2
<1>4. /\ L[sp[i - 1].node.id].child[sp[i - 1].side] = c
      /\ sp[i - 1].node.id \in U[r] /\ sp[i - 1].side \in Sides
  BY <1>3 DEF Context, OnPath, NextId
<1>5. j = sp[i - 1].node.id /\ s = sp[i - 1].side
  BY <1>1, <1>4, TreeChild
<1> QED
  BY <1>3, <1>5

\* The parent of t, if it has one, is the last node of the path.
LEMMA FocusParent ==
    ASSUME NEW L, NEW U, NEW t, NEW sp, Context(L, U, t, sp), NEW r, r = RootOf(t, sp),
           t # invalid_mask, NEW j \in U[r], NEW s \in Sides, L[j].child[s] = t
    PROVE  sp # <<>> /\ j = Last(sp).node.id /\ s = Last(sp).side
<1>1. Tree(L, U, r) /\ t \in U[r] /\ sp \in Stacks /\ Len(sp) \in Nat /\ DOMAIN sp = 1..Len(sp)
  BY ContextFacts
<1>2. t # r
  BY <1>1, TreeChild
<1>3. sp # <<>>
  BY <1>2 DEF RootOf
<1>4. Len(sp) \in DOMAIN sp /\ Last(sp) = sp[Len(sp)]
  BY <1>1, <1>3, EmptySeq DEF Stacks, Last
<1>5. /\ L[Last(sp).node.id].child[Last(sp).side] = t
      /\ Last(sp).node.id \in U[r] /\ Last(sp).side \in Sides
  BY <1>4 DEF Context, OnPath, NextId
<1>6. j = Last(sp).node.id /\ s = Last(sp).side
  BY <1>1, <1>5, TreeChild
<1> QED
  BY <1>3, <1>6

\* One step further down a path.
LEMMA ContextExtend ==
    ASSUME NEW L, NEW U, NEW t, NEW sp, Context(L, U, t, sp), t # invalid_mask,
           NEW s \in Sides, NEW f, f = [node |-> L[t], side |-> s]
    PROVE  LET q == Append(sp, f) IN
           Context(L, U, L[t].child[s], q) /\ RootOf(L[t].child[s], q) = RootOf(t, sp)
<1>0. PICK q, c, n, r : /\ q = Append(sp, f) /\ c = L[t].child[s] /\ n = Len(sp)
                        /\ r = RootOf(t, sp)
  OBVIOUS
<1> USE <1>0
<1>1. /\ sp \in Stacks /\ Tree(L, U, r) /\ t \in U[r] /\ n \in Nat /\ DOMAIN sp = 1..n
      /\ SpineIds(sp) \subseteq U[r] \ U[t]
  BY ContextFacts
<1>2. L[t] \in Node /\ L[t].id = t /\ t \in Ids
  BY <1>1, TreeNodes
<1>3. f \in Frame /\ f.node = L[t] /\ f.side = s
  BY <1>2 DEF Frame
<1>4. /\ q \in Stacks /\ Len(q) = n + 1 /\ \A i \in 1..n : q[i] = sp[i]
      /\ q[n + 1] = f
  BY <1>1, <1>3, AppendProperties DEF Stacks
<1>5. DOMAIN q = 1..(n + 1)
  BY <1>4, LenProperties DEF Stacks
<1>6. q # <<>> /\ q[1].node.id = r /\ RootOf(c, q) = r
  <2>1. q # <<>>
    BY <1>1, <1>4, EmptySeq
  <2>2. CASE sp = <<>>
    <3>1. n = 0 /\ r = t
      BY <2>2 DEF RootOf
    <3> QED
      BY <1>2, <1>3, <1>4, <2>1, <3>1 DEF RootOf
  <2>3. CASE sp # <<>>
    <3>1. n # 0 /\ r = sp[1].node.id
      BY <1>1, <2>3, EmptySeq DEF RootOf, Stacks
    <3> QED
      BY <1>1, <1>4, <2>1, <3>1 DEF RootOf
  <2> QED
    BY <2>2, <2>3
<1>7. /\ c \in Ids /\ U[c] \subseteq U[t] /\ t \notin U[c]
      /\ c # invalid_mask => c \in U[r]
  BY SMTT(30), <1>1, TreeChild
<1>8. ASSUME NEW i \in 1..n
      PROVE  OnPath(L, U, c, q, r, i)
  <2>1. /\ q[i] = sp[i] /\ i \in DOMAIN sp /\ i # n + 1
    BY <1>1, <1>4
  <2>2. /\ sp[i].side \in Sides /\ sp[i].node.id \in U[r] /\ sp[i].node.id \notin U[t]
        /\ Alike(L[sp[i].node.id], sp[i].node, sp[i].side)
        /\ L[sp[i].node.id].height[sp[i].side] = sp[i].node.height[sp[i].side]
        /\ L[sp[i].node.id].child[sp[i].side] = NextId(t, sp, i)
        /\ \A j \in DOMAIN sp : i < j => sp[i].node.id \notin U[sp[j].node.id]
    BY <2>1 DEF Context, OnPath
  <2>3. NextId(t, sp, i) = NextId(c, q, i)
    <3>1. CASE i = n
      <4>1. NextId(t, sp, i) = t
        BY <3>1 DEF NextId
      <4>2. NextId(c, q, i) = q[n + 1].node.id
        BY <1>4, <2>1, <3>1 DEF NextId
      <4>3. q[n + 1].node.id = t
        BY <1>2, <1>3, <1>4
      <4> QED
        BY <4>1, <4>2, <4>3
    <3>2. CASE i # n
      <4>1. i + 1 \in 1..n
        BY <1>1, <3>2
      <4> QED
        BY <1>4, <2>1, <3>2, <4>1 DEF NextId
    <3> QED
      BY <3>1, <3>2
  <2>4. \A j \in DOMAIN q : i < j => sp[i].node.id \notin U[q[j].node.id]
    <3> SUFFICES ASSUME NEW j \in DOMAIN q, i < j
                 PROVE  sp[i].node.id \notin U[q[j].node.id]
      OBVIOUS
    <3>1. CASE j = n + 1
      BY <1>2, <1>3, <1>4, <2>2, <3>1
    <3>2. CASE j # n + 1
      <4>1. j \in 1..n /\ q[j] = sp[j]
        BY SMTT(30), <1>1, <1>4, <1>5, <3>2
      <4> QED
        BY <1>1, <2>2, <4>1
    <3> QED
      BY <3>1, <3>2
  <2> QED
    BY <1>7, <2>1, <2>2, <2>3, <2>4 DEF OnPath
<1>9. OnPath(L, U, c, q, r, n + 1)
  <2>1. \A j \in DOMAIN q : ~(n + 1 < j)
    BY <1>1, <1>5
  <2> QED
    BY <1>1, <1>2, <1>3, <1>4, <1>7, <2>1 DEF NextId, Alike, OnPath
<1>10. \A i \in DOMAIN q : i \in 1..n \/ i = n + 1
  BY SMTT(30), <1>1, <1>5
<1> QED
  BY <1>1, <1>4, <1>6, <1>7, <1>8, <1>9, <1>10 DEF Context

\* One step back up.
LEMMA ContextPop ==
    ASSUME NEW L, NEW U, NEW t, NEW sp, Context(L, U, t, sp), NEW r, r = RootOf(t, sp),
           sp # <<>>, NEW q, q = Front(sp), NEW f, f = Last(sp), NEW p, p = f.node.id,
           NEW n, n = Len(sp)
    PROVE  /\ Context(L, U, p, q) /\ RootOf(p, q) = r
           /\ p # invalid_mask /\ p \in U[r] /\ f \in Frame /\ f.node \in Node /\ f.side \in Sides
           /\ L[p].child[f.side] = t /\ Alike(L[p], f.node, f.side)
           /\ L[p].height[f.side] = f.node.height[f.side]
           /\ p # t /\ p \notin U[t] /\ SpineIds(sp) = SpineIds(q) \cup {p}
           /\ p \notin SpineIds(q)
<1>1. /\ sp \in Stacks /\ Tree(L, U, r) /\ DOMAIN sp = 1..n /\ t \notin SpineIds(sp)
      /\ \A i \in DOMAIN sp : sp[i] \in Frame /\ sp[i].node \in Node
  BY ContextFacts
<1>2. /\ n \in Nat \ {0} /\ f = sp[n] /\ q \in Stacks /\ Len(q) = n - 1 /\ DOMAIN q = 1..(n - 1)
      /\ \A i \in 1..(n - 1) : q[i] = sp[i]
      /\ (n = 1 => q = <<>>) /\ (n # 1 => q # <<>>)
  <2>1. sp \in Seq(Frame)
    BY <1>1 DEF Stacks
  <2>3. n \in Nat \ {0} /\ Last(sp) = sp[n]
    BY <2>1, FrontTail
  <2>4. Front(sp) \in Seq(Frame) /\ Len(Front(sp)) = n - 1 /\ DOMAIN Front(sp) = 1..(n - 1)
    BY <2>1, FrontTail
  <2>5. \A i \in DOMAIN Front(sp) : Front(sp)[i] = sp[i]
    BY <2>1, FrontTail
  <2>6. (n = 1 => Front(sp) = <<>>) /\ (n # 1 => Front(sp) # <<>>)
    BY <2>1, FrontTail
  <2> QED
    BY <2>3, <2>4, <2>5, <2>6 DEF Stacks
<1>3. n \in DOMAIN sp
  BY <1>1, <1>2
<1>4. /\ p \in U[r] /\ f.side \in Sides /\ p \notin U[t]
      /\ Alike(L[p], f.node, f.side) /\ L[p].height[f.side] = f.node.height[f.side]
      /\ L[p].child[f.side] = t
  BY <1>2, <1>3 DEF Context, OnPath, NextId
<1>5. p # t
  BY <1>1, <1>2, <1>3 DEF SpineIds
<1>6. RootOf(p, q) = r
  <2>1. r = sp[1].node.id
    BY DEF RootOf
  <2>2. CASE n = 1
    BY <1>2, <2>1, <2>2 DEF RootOf
  <2>3. CASE n # 1
    <3>1. 1 \in 1..(n - 1)
      BY <1>2, <2>3
    <3> QED
      BY <1>2, <2>1, <2>3, <3>1 DEF RootOf
  <2> QED
    BY <2>2, <2>3
<1>7. p # invalid_mask /\ p \in Ids
  BY <1>1, <1>4, TreeNodes
<1>8. ASSUME NEW i \in DOMAIN q
      PROVE  OnPath(L, U, p, q, r, i)
  <2>1. /\ q[i] = sp[i] /\ i \in DOMAIN sp /\ i < n /\ i # n /\ i \in Nat
    BY <1>1, <1>2
  <2>2. /\ sp[i].side \in Sides /\ sp[i].node.id \in U[r]
        /\ Alike(L[sp[i].node.id], sp[i].node, sp[i].side)
        /\ L[sp[i].node.id].height[sp[i].side] = sp[i].node.height[sp[i].side]
        /\ L[sp[i].node.id].child[sp[i].side] = NextId(t, sp, i)
        /\ \A j \in DOMAIN sp : i < j => sp[i].node.id \notin U[sp[j].node.id]
    BY <2>1 DEF Context, OnPath
  <2>3. sp[i].node.id \notin U[p]
    BY <1>2, <1>3, <2>1, <2>2
  <2>4. NextId(t, sp, i) = NextId(p, q, i)
    <3>1. CASE i = n - 1
      <4>1. i + 1 = n
        BY <1>2, <2>1, <3>1
      <4>2. NextId(t, sp, i) = sp[n].node.id
        BY <2>1, <4>1 DEF NextId
      <4>3. NextId(p, q, i) = p
        BY <1>2, <3>1 DEF NextId
      <4> QED
        BY <1>2, <4>2, <4>3
    <3>2. CASE i # n - 1
      <4>1. i + 1 \in 1..(n - 1)
        BY <1>2, <2>1, <3>2
      <4> QED
        BY <1>2, <2>1, <3>2, <4>1 DEF NextId
    <3> QED
      BY <3>1, <3>2
  <2>5. \A j \in DOMAIN q : j \in DOMAIN sp /\ q[j] = sp[j]
    BY <1>1, <1>2
  <2> QED
    BY <2>1, <2>2, <2>3, <2>4, <2>5 DEF OnPath
<1>9. SpineIds(sp) = SpineIds(q) \cup {p}
  <2>1. \A i \in DOMAIN sp : i \in DOMAIN q \/ i = n
    BY <1>1, <1>2
  <2>2. \A i \in DOMAIN q : i \in DOMAIN sp /\ q[i] = sp[i]
    BY <1>1, <1>2
  <2> QED
    BY <1>2, <1>3, <2>1, <2>2 DEF SpineIds
<1>10. p \notin SpineIds(q)
  <2>1. p \in U[p]
    BY <1>1, <1>4, TreeNodes
  <2> QED
    BY <1>8, <2>1 DEF SpineIds, OnPath
<1>11. Context(L, U, p, q)
  BY <1>1, <1>2, <1>4, <1>6, <1>7, <1>8 DEF Context
<1> QED
  BY <1>1, <1>2, <1>3, <1>4, <1>5, <1>6, <1>7, <1>9, <1>10, <1>11

\* Only heights and values of nodes change.
SameShape(L, M, T) ==
    \A j \in T : /\ M[j] \in Node /\ M[j].id = L[j].id /\ M[j].key = L[j].key
                 /\ \A s \in Sides : M[j].child[s] = L[j].child[s]

LEMMA SameShapeTree ==
    ASSUME NEW L, NEW U, NEW r, Tree(L, U, r), NEW M, SameShape(L, M, U[r])
    PROVE  Tree(M, U, r)
<1>1. \A j \in U[r] : \A s \in Sides : U[L[j].child[s]] \subseteq U[r]
  BY TreeChild
<1>2. ASSUME NEW j \in U[r]
      PROVE  {U[L[j].child[s]] : s \in Sides} = {U[M[j].child[s]] : s \in Sides}
  <2>1. \A s \in Sides : U[M[j].child[s]] = U[L[j].child[s]]
    BY DEF SameShape
  <2> QED
    BY <2>1
<1>3. ASSUME NEW j \in U[r]
      PROVE  /\ M[j] \in Node /\ M[j].id = j
             /\ U[j] \subseteq U[r]
             /\ U[j] = {j} \cup UNION {U[M[j].child[s]] : s \in Sides}
             /\ \A s \in Sides : /\ M[j].child[s] \in U[r] \cup {invalid_mask}
                                 /\ \A i \in U[M[j].child[s]] : Under(s, M[i].key, M[j].key)
  BY <1>1, <1>2 DEF Tree, SameShape
<1>4. \A i, j \in U[r] : \A s, z \in Sides :
          M[i].child[s] = M[j].child[z] /\ M[i].child[s] # invalid_mask => i = j
  BY DEF Tree, SameShape
<1> QED
  BY <1>3, <1>4 DEF Tree

LEMMA SameShapeContext ==
    ASSUME NEW L, NEW U, NEW t, NEW sp, Context(L, U, t, sp), NEW r, r = RootOf(t, sp),
           NEW M, SameShape(L, M, U[r]), \A j \in SpineIds(sp) : M[j] = L[j]
    PROVE  Context(M, U, t, sp)
<1>1. Tree(M, U, r)
  BY ContextFacts, SameShapeTree
<1>2. \A i \in DOMAIN sp : M[sp[i].node.id] = L[sp[i].node.id]
  BY DEF SpineIds
<1> QED
  BY <1>1, <1>2 DEF Context, OnPath

-------------------------------------------------------------------------------
(* A rotation: y, the child of x on one side, takes the place of x, and x becomes the
   child of y on the other side. *)

\* b, c and d are the other subtrees, in the order of that other side.
RotatedAt(L, U, x, y, s, b, c, d) ==
    /\ s \in Sides /\ y = L[x].child[Other(s)] /\ y # invalid_mask
    /\ b = L[x].child[s] /\ c = L[y].child[s] /\ d = L[y].child[Other(s)]

RotatedTree(L, U, r, M, W, x, y, s, b, c, d) ==
    /\ M[x] \in Node /\ M[x].id = x /\ M[x].key = L[x].key
    /\ M[x].child[s] = b /\ M[x].child[Other(s)] = c
    /\ M[y] \in Node /\ M[y].id = y /\ M[y].key = L[y].key
    /\ M[y].child[s] = x /\ M[y].child[Other(s)] = d
    /\ W[x] = {x} \cup U[b] \cup U[c] /\ W[y] = U[x]
    /\ \A j \in Ids : j \notin {x, y} => W[j] = U[j]
    /\ \A j \in U[r] : j \notin {x, y} =>
          /\ M[j] \in Node /\ M[j].id = j /\ M[j].key = L[j].key
          /\ \A z \in Sides : M[j].child[z] = IF L[j].child[z] = x THEN y ELSE L[j].child[z]

LEMMA ChildFacts ==
    ASSUME NEW L, NEW U, NEW r, Tree(L, U, r)
    PROVE  \A j \in U[r] : \A s \in Sides :
              /\ L[j].child[s] \in Ids /\ U[L[j].child[s]] \subseteq U[j]
              /\ U[L[j].child[s]] \subseteq U[r] /\ L[j].child[s] # j
              /\ L[j].child[s] # invalid_mask =>
                    L[j].child[s] \in U[L[j].child[s]] /\ L[j].child[s] \in U[r]
BY TreeChild

LEMMA RotationFacts ==
    ASSUME NEW L, NEW U, NEW r, Tree(L, U, r), NEW x \in U[r], NEW y, NEW s, NEW b, NEW c,
           NEW d, RotatedAt(L, U, x, y, s, b, c, d)
    PROVE  /\ x \in Ids /\ y \in Ids /\ b \in Ids /\ c \in Ids /\ d \in Ids
           /\ y \in U[r] /\ y # x /\ y # r /\ x # invalid_mask
           /\ b # x /\ b # y /\ c # x /\ c # y /\ d # x /\ d # y
           /\ U[x] = {x} \cup U[b] \cup U[y] /\ U[y] = {y} \cup U[c] \cup U[d]
           /\ U[x] \subseteq U[r] /\ U[y] \subseteq U[r] /\ U[b] \subseteq U[r]
           /\ U[c] \subseteq U[r] /\ U[d] \subseteq U[r]
           /\ c # invalid_mask => c # d
           /\ \A i \in U[r], z \in Sides : L[i].child[z] = y => i = x
           /\ \A i \in U[r], z \in Sides :
                 L[i].child[z] # invalid_mask =>
                   /\ L[i].child[z] = b => i = x /\ z = s
                   /\ L[i].child[z] = c => i = y /\ z = s
                   /\ L[i].child[z] = d => i = y /\ z = Other(s)
           /\ b \in U[r] \cup {invalid_mask} /\ c \in U[r] \cup {invalid_mask}
           /\ d \in U[r] \cup {invalid_mask}
<1>1. /\ s \in Sides /\ Other(s) \in Sides /\ Other(s) # s /\ Sides = {s, Other(s)}
      /\ Other(Other(s)) = s
  BY OtherSide DEF RotatedAt
<1>2. /\ y = L[x].child[Other(s)] /\ y # invalid_mask
      /\ b = L[x].child[s] /\ c = L[y].child[s] /\ d = L[y].child[Other(s)]
  BY DEF RotatedAt
<1> DEFINE Only(j, e, v) ==
             v # invalid_mask => \A i \in U[r], z \in Sides : L[i].child[z] = v => i = j /\ z = e
\* Every child has one place.
<1>13. \A j \in U[r] : \A e \in Sides : Only(j, e, L[j].child[e])
  BY OnlyParent
<1> HIDE DEF Only
<1>3. /\ y \in Ids /\ y \in U[r] /\ y \in U[y] /\ x \notin U[y] /\ U[y] \subseteq U[r] /\ y # x
      /\ y # r
      /\ \A i \in U[r], z \in Sides : L[i].child[z] = y => i = x /\ z = Other(s)
  <2>1. \A i \in U[r], z \in Sides : L[i].child[z] = y => i = x /\ z = Other(s)
    <3>1. Only(x, Other(s), L[x].child[Other(s)])
      BY <1>1, <1>13
    <3>2. Only(x, Other(s), y)
      BY Zenon, <3>1 DEF RotatedAt
    <3>3. y # invalid_mask
      BY Zenon DEF RotatedAt
    <3> QED
      BY <3>2, <3>3 DEF Only
  <2>2. /\ y \in Ids /\ y \in U[r] /\ y \in U[y] /\ x \notin U[y] /\ U[y] \subseteq U[r] /\ y # x
        /\ y # r
    BY <1>1, <1>2, TreeChild
  <2> QED
    BY Zenon, <2>1, <2>2
<1>4. /\ b \in Ids /\ U[b] \subseteq U[r] /\ x \notin U[b] /\ b # x
      /\ b # invalid_mask => b \in U[b] /\ b \in U[r]
      /\ b # invalid_mask => \A i \in U[r], z \in Sides : L[i].child[z] = b => i = x /\ z = s
  <2>1. b # invalid_mask => \A i \in U[r], z \in Sides : L[i].child[z] = b => i = x /\ z = s
    <3>1. Only(x, s, L[x].child[s])
      BY <1>1, <1>13
    <3>2. Only(x, s, b)
      BY Zenon, <3>1 DEF RotatedAt
    <3> QED
      BY <3>2 DEF Only
  <2>2. /\ b \in Ids /\ U[b] \subseteq U[r] /\ x \notin U[b] /\ b # x
        /\ b # invalid_mask => b \in U[b] /\ b \in U[r]
    BY SMTT(30), <1>1, <1>2, TreeChild
  <2> QED
    BY Zenon, <2>1, <2>2
<1> DEFINE Facts(j, e, v) == /\ v \in Ids /\ U[v] \subseteq U[j]
                             /\ U[v] \subseteq U[r] /\ v # j
                             /\ v # invalid_mask => v \in U[v] /\ v \in U[r]
<1>0. Facts(y, s, c) /\ Facts(y, Other(s), d)
  <2>1. \A j \in U[r] : \A e \in Sides : Facts(j, e, L[j].child[e])
    BY ChildFacts
  <2>2. Facts(y, s, L[y].child[s]) /\ Facts(y, Other(s), L[y].child[Other(s)])
    <3>1. y \in U[r]
      BY <1>3
    <3> HIDE DEF Facts
    <3> QED
      BY <1>1, <2>1, <3>1
  <2> QED
    BY Zenon, <1>2, <2>2
<1>5. /\ c \in Ids /\ U[c] \subseteq U[y] /\ U[c] \subseteq U[r] /\ c # y
      /\ c # invalid_mask => c \in U[c] /\ c \in U[r]
      /\ c # invalid_mask => \A i \in U[r], z \in Sides : L[i].child[z] = c => i = y /\ z = s
  <2>0. y \in U[r]
    BY <1>3
  <2>1. c # invalid_mask => \A i \in U[r], z \in Sides : L[i].child[z] = c => i = y /\ z = s
    <3>1. Only(y, s, L[y].child[s])
      BY <1>1, <1>13, <2>0
    <3>2. Only(y, s, c)
      BY Zenon, <3>1 DEF RotatedAt
    <3> QED
      BY <3>2 DEF Only
  <2>2. c \in Ids /\ U[c] \subseteq U[y] /\ U[c] \subseteq U[r] /\ c # y
    BY <1>0
  <2>3. c # invalid_mask => c \in U[c] /\ c \in U[r]
    BY <1>0
  <2> QED
    BY Zenon, <2>1, <2>2, <2>3
<1>6. /\ d \in Ids /\ U[d] \subseteq U[y] /\ U[d] \subseteq U[r] /\ d # y
      /\ d # invalid_mask => d \in U[d] /\ d \in U[r]
      /\ d # invalid_mask =>
            \A i \in U[r], z \in Sides : L[i].child[z] = d => i = y /\ z = Other(s)
  <2>0. y \in U[r]
    BY <1>3
  <2>1. d # invalid_mask =>
            \A i \in U[r], z \in Sides : L[i].child[z] = d => i = y /\ z = Other(s)
    <3>1. Only(y, Other(s), L[y].child[Other(s)])
      BY <1>1, <1>13, <2>0
    <3>2. Only(y, Other(s), d)
      BY Zenon, <3>1 DEF RotatedAt
    <3> QED
      BY <3>2 DEF Only
  <2>2. d \in Ids /\ U[d] \subseteq U[y] /\ U[d] \subseteq U[r] /\ d # y
    BY <1>0
  <2>3. d # invalid_mask => d \in U[d] /\ d \in U[r]
    BY <1>0
  <2> QED
    BY Zenon, <2>1, <2>2, <2>3
<1>7. x \in Ids /\ x # invalid_mask /\ U[x] \subseteq U[r]
  BY SMTT(30), TreeNodes
<1>8. b # y
  BY <1>1, <1>2, <1>3
<1>9. c # x /\ d # x
  BY SMTT(30), <1>3, <1>5, <1>6, <1>7
<1>10. U[x] = {x} \cup U[b] \cup U[y]
  <2>1. \A i : i \in U[x] <=> i = x \/ \E z \in Sides : i \in U[L[x].child[z]]
    BY SMTT(30), TreeNodes
  <2> QED
    BY <1>1, <1>2, <2>1
<1>11. U[y] = {y} \cup U[c] \cup U[d]
  <2>1. \A i : i \in U[y] <=> i = y \/ \E z \in Sides : i \in U[L[y].child[z]]
    BY SMTT(30), <1>3, TreeNodes
  <2> QED
    BY Zenon, <1>1, <1>2, <2>1
<1>12. c # invalid_mask => c # d
  BY Zenon, <1>1, <1>2, <1>3, <1>5
<1> QED
  BY <1>3, <1>4, <1>5, <1>6, <1>7, <1>8, <1>9, <1>10, <1>11, <1>12

LEMMA RotateTree ==
    ASSUME NEW L, NEW U, NEW r, Tree(L, U, r), NEW x \in U[r], NEW y, NEW s, NEW b, NEW c,
           NEW d, RotatedAt(L, U, x, y, s, b, c, d), NEW M, NEW W,
           RotatedTree(L, U, r, M, W, x, y, s, b, c, d),
           NEW q, q = IF r = x THEN y ELSE r
    PROVE  Tree(M, W, q) /\ W[q] = U[r]
<1>1. /\ s \in Sides /\ Other(s) \in Sides /\ Other(s) # s /\ Sides = {s, Other(s)}
  BY OtherSide DEF RotatedAt
<1>2. /\ x \in Ids /\ y \in Ids /\ b \in Ids /\ c \in Ids /\ d \in Ids
      /\ y \in U[r] /\ y # x /\ y # r /\ x # invalid_mask
      /\ b # x /\ b # y /\ c # x /\ c # y /\ d # x /\ d # y
      /\ U[x] = {x} \cup U[b] \cup U[y] /\ U[y] = {y} \cup U[c] \cup U[d]
      /\ U[x] \subseteq U[r] /\ U[y] \subseteq U[r] /\ U[b] \subseteq U[r]
      /\ U[c] \subseteq U[r] /\ U[d] \subseteq U[r]
      /\ c # invalid_mask => c # d
      /\ y # invalid_mask
      /\ b \in U[r] \cup {invalid_mask} /\ c \in U[r] \cup {invalid_mask}
      /\ d \in U[r] \cup {invalid_mask}
  <2>1. y # invalid_mask
    BY DEF RotatedAt
  <2> QED
    BY <2>1, RotationFacts
<1>3. /\ \A i \in U[r], z \in Sides : L[i].child[z] = y => i = x
      /\ \A i \in U[r], z \in Sides :
            L[i].child[z] # invalid_mask =>
              /\ L[i].child[z] = b => i = x /\ z = s
              /\ L[i].child[z] = c => i = y /\ z = s
              /\ L[i].child[z] = d => i = y /\ z = Other(s)
  BY RotationFacts
<1>4. /\ r \in Ids /\ U[invalid_mask] = {} /\ U[r] \subseteq Ids \ {invalid_mask}
      /\ r \in U[r]
  BY DEF Tree
<1>5. W[q] = U[r]
  <2>1. CASE r = x
    BY <2>1 DEF RotatedTree
  <2>2. CASE r # x
    BY <1>2, <1>4, <2>2 DEF RotatedTree
  <2> QED
    BY <2>1, <2>2
<1>6. q \in Ids /\ q # invalid_mask /\ q \in W[q] /\ W[invalid_mask] = {}
  <2>1. invalid_mask \in Ids
    BY DEF invalid_mask, Ids
  <2>2. W[invalid_mask] = {}
    BY <1>2, <1>4, <2>1 DEF RotatedTree
  <2> QED
    BY <1>2, <1>4, <1>5, <2>2
<1>7. \A j \in U[r] : M[j] \in Node /\ M[j].id = j /\ M[j].key = L[j].key
  BY DEF RotatedTree
<1>8. W[b] = U[b] /\ W[c] = U[c] /\ W[d] = U[d] /\ W[x] = {x} \cup U[b] \cup U[c] /\ W[y] = U[x]
  BY <1>2 DEF RotatedTree
<1>9. /\ M[x].child[s] = b /\ M[x].child[Other(s)] = c
      /\ M[y].child[s] = x /\ M[y].child[Other(s)] = d
  BY DEF RotatedTree
<1> DEFINE Good(j) == /\ W[j] \subseteq U[r]
                      /\ W[j] = {j} \cup UNION {W[M[j].child[z]] : z \in Sides}
                      /\ \A z \in Sides : M[j].child[z] \in U[r] \cup {invalid_mask}
           Ordered(j) == \A z \in Sides : \A i \in W[M[j].child[z]] :
                            Under(z, L[i].key, L[j].key)
<1>10. Good(x)
  <2>1. UNION {W[M[x].child[z]] : z \in Sides} = U[b] \cup U[c]
    <3>1. {W[M[x].child[z]] : z \in Sides} = {U[b], U[c]}
      BY <1>1, <1>8, <1>9
    <3> QED
      BY <3>1
  <2> QED
    BY <1>1, <1>2, <1>8, <1>9, <2>1
<1>11. Good(y)
  <2>1. UNION {W[M[y].child[z]] : z \in Sides} = W[x] \cup U[d]
    <3>1. {W[M[y].child[z]] : z \in Sides} = {W[x], U[d]}
      BY <1>1, <1>8, <1>9
    <3> QED
      BY <3>1
  <2>2. W[y] = {y} \cup (W[x] \cup U[d])
    <3>1. \A i : i \in W[y] <=> i = x \/ i \in U[b] \/ i = y \/ i \in U[c] \/ i \in U[d]
      BY <1>2, <1>8
    <3>2. \A i : i \in {y} \cup (W[x] \cup U[d]) <=>
                    i = x \/ i \in U[b] \/ i = y \/ i \in U[c] \/ i \in U[d]
      BY <1>8
    <3> QED
      BY <3>1, <3>2
  <2> QED
    BY <1>1, <1>2, <1>8, <1>9, <2>1, <2>2
<1>12. ASSUME NEW j \in U[r], j \notin {x, y}
       PROVE  /\ W[j] = U[j]
              /\ \A z \in Sides : /\ W[M[j].child[z]] = U[L[j].child[z]]
                                  /\ M[j].child[z] \in U[r] \cup {invalid_mask}
  <2>1. W[j] = U[j]
    BY <1>4, <1>12 DEF RotatedTree
  <2>2. ASSUME NEW z \in Sides
        PROVE  /\ W[M[j].child[z]] = U[L[j].child[z]]
               /\ M[j].child[z] \in U[r] \cup {invalid_mask}
    <3>1. M[j].child[z] = IF L[j].child[z] = x THEN y ELSE L[j].child[z]
      BY <1>12 DEF RotatedTree
    <3>2. L[j].child[z] \in Ids /\ L[j].child[z] \in U[r] \cup {invalid_mask}
      <4>1. L[j].child[z] # invalid_mask => L[j].child[z] \in U[r]
        BY TreeChild
      <4>2. L[j].child[z] \in Ids
        BY TreeChild
      <4> QED
        BY <4>1, <4>2
    <3>3. CASE L[j].child[z] = x
      BY <1>2, <1>8, <3>1, <3>3
    <3>4. CASE L[j].child[z] # x
      <4>1. L[j].child[z] # y
        BY <1>3, <1>12
      <4> QED
        BY <3>1, <3>2, <3>4, <4>1 DEF RotatedTree
    <3> QED
      BY <3>3, <3>4
  <2> QED
    BY <2>1, <2>2
<1>13. ASSUME NEW j \in U[r], j \notin {x, y} PROVE Good(j)
  <2>1. U[j] \subseteq U[r] /\ U[j] = {j} \cup UNION {U[L[j].child[z]] : z \in Sides}
    BY DEF Tree
  <2>2. {W[M[j].child[z]] : z \in Sides} = {U[L[j].child[z]] : z \in Sides}
    BY <1>12, <1>13
  <2> QED
    BY <1>12, <1>13, <2>1, <2>2
<1>14. /\ \A i \in U[r] : L[i].key \in Nat
       /\ \A i \in U[b] : Under(s, L[i].key, L[x].key)
       /\ \A i \in U[y] : Under(Other(s), L[i].key, L[x].key)
       /\ \A i \in U[c] : Under(s, L[i].key, L[y].key)
       /\ \A i \in U[d] : Under(Other(s), L[i].key, L[y].key)
       /\ y \in U[y]
  <2>1. \A i \in U[r] : L[i].key \in Nat
    BY ONLY SMTT(30), Tree(L, U, r), TreeNodes, NodeFields
  <2>6. \A j \in U[r] : \A e \in Sides : \A i \in U[L[j].child[e]] : Under(e, L[i].key, L[j].key)
    BY DEF Tree
  <2>7. /\ \A i \in U[L[x].child[s]] : Under(s, L[i].key, L[x].key)
        /\ \A i \in U[L[x].child[Other(s)]] : Under(Other(s), L[i].key, L[x].key)
    BY <1>1, <2>6
  <2>2. \A i \in U[b] : Under(s, L[i].key, L[x].key)
    BY Zenon, <2>7 DEF RotatedAt
  <2>3. \A i \in U[y] : Under(Other(s), L[i].key, L[x].key)
    BY Zenon, <2>7 DEF RotatedAt
  <2>4. \A i \in U[c] : Under(s, L[i].key, L[y].key)
    BY ZenonT(30), <1>1, <1>2, <2>6 DEF RotatedAt
  <2>5. \A i \in U[d] : Under(Other(s), L[i].key, L[y].key)
    BY Zenon, <1>1, <1>2, <2>6 DEF RotatedAt
  <2> QED
    BY <1>2, <2>1, <2>2, <2>3, <2>4, <2>5
<1>15. Ordered(x)
  <2>1. \A i \in U[c] : Under(Other(s), L[i].key, L[x].key)
    BY <1>2, <1>14
  <2> QED
    BY <1>1, <1>8, <1>9, <1>14, <2>1
<1>16. Ordered(y)
  <2>1. Under(s, L[x].key, L[y].key)
    BY <1>1, <1>2, <1>14 DEF Under, Sides
  <2>2. \A i \in U[b] : Under(s, L[i].key, L[y].key)
    BY <1>1, <1>2, <1>14, <2>1 DEF Under, Sides
  <2>3. \A i \in W[x] : Under(s, L[i].key, L[y].key)
    BY <1>8, <1>14, <2>1, <2>2
  <2> QED
    BY <1>1, <1>8, <1>9, <1>14, <2>3
<1>17. ASSUME NEW j \in U[r], j \notin {x, y} PROVE Ordered(j)
  BY <1>12, <1>17 DEF Tree
<1>18. ASSUME NEW i \in U[r], NEW j \in U[r], NEW z \in Sides, NEW w \in Sides,
              M[i].child[z] = M[j].child[w], M[i].child[z] # invalid_mask
       PROVE  i = j
  <2> DEFINE v == M[i].child[z]
             Up(k, e) == \* where the link to v was
                 \/ k \notin {x, y} /\ v = y /\ L[k].child[e] = x
                 \/ k \notin {x, y} /\ v \notin {x, y} /\ L[k].child[e] = v
                 \/ k = x /\ e = s /\ v = b
                 \/ k = x /\ e = Other(s) /\ v = c
                 \/ k = y /\ e = s /\ v = x
                 \/ k = y /\ e = Other(s) /\ v = d
  <2>1. ASSUME NEW k \in U[r], NEW e \in Sides, M[k].child[e] = v PROVE Up(k, e)
    <3>1. CASE k \notin {x, y}
      <4>1. v = IF L[k].child[e] = x THEN y ELSE L[k].child[e]
        BY <2>1, <3>1 DEF RotatedTree
      <4>2. L[k].child[e] # y
        BY <1>3, <3>1
      <4> QED
        BY <3>1, <4>1, <4>2
    <3>2. CASE k = x
      BY <1>1, <1>9, <2>1, <3>2
    <3>3. CASE k = y
      BY <1>1, <1>9, <2>1, <3>3
    <3> QED
      BY <3>1, <3>2, <3>3
  <2>2. Up(i, z) /\ Up(j, w) /\ v # invalid_mask
    BY <1>18, <2>1
  <2> HIDE DEF v
  <2>3. CASE v = y
    <3>1. L[i].child[z] = x /\ L[j].child[w] = x
      BY <1>2, <2>2, <2>3
    <3> QED
      BY <1>2, <3>1 DEF Tree
  <2>4. CASE v = x
    BY <1>2, <2>2, <2>4
  <2>5. CASE v \notin {x, y}
    <3>1. \/ i \notin {x, y} /\ L[i].child[z] = v
          \/ i = x /\ v = b
          \/ i = x /\ v = c
          \/ i = y /\ v = d
      BY <1>2, <2>2, <2>5
    <3>2. \/ j \notin {x, y} /\ L[j].child[w] = v
          \/ j = x /\ v = b
          \/ j = x /\ v = c
          \/ j = y /\ v = d
      BY <1>2, <2>2, <2>5
    <3>3. \A k \in U[r], e \in Sides : k \notin {x, y} /\ L[k].child[e] = v =>
             v # b /\ v # c /\ v # d
      BY <1>3, <2>2
    <3>4. v = d => v # b /\ v # c
      <4>1. L[y].child[Other(s)] = d
        BY DEF RotatedAt
      <4>2. v = d => v # b
        BY <1>1, <1>2, <1>3, <2>2, <4>1
      <4> QED
        BY <1>2, <2>2, <4>2
    <3>5. CASE i \notin {x, y}
      <4>1. j \notin {x, y} /\ L[j].child[w] = v /\ L[i].child[z] = v
        BY <3>1, <3>2, <3>3, <3>5
      <4> QED
        BY <2>2, <4>1 DEF Tree
    <3>6. CASE i \in {x, y}
      <4>1. j \in {x, y}
        BY <3>1, <3>2, <3>3, <3>6
      <4> QED
        BY <1>2, <3>1, <3>2, <3>4, <3>6, <4>1
    <3> QED
      BY <3>5, <3>6
  <2> QED
    BY <2>3, <2>4, <2>5
<1>19. \A j \in U[r] : Good(j) /\ Ordered(j)
  BY <1>10, <1>11, <1>13, <1>15, <1>16, <1>17
<1>20. ASSUME NEW j \in U[r], NEW z \in Sides, NEW i \in W[M[j].child[z]]
       PROVE  Under(z, M[i].key, M[j].key)
  <2>1. W[M[j].child[z]] \subseteq W[j] /\ W[j] \subseteq U[r]
    BY <1>19
  <2> HIDE DEF Good
  <2> QED
    BY <1>7, <1>19, <2>1
<1>21. \A j \in W[q] :
          /\ M[j] \in Node /\ M[j].id = j
          /\ W[j] \subseteq W[q]
          /\ W[j] = {j} \cup UNION {W[M[j].child[z]] : z \in Sides}
          /\ \A z \in Sides : /\ M[j].child[z] \in W[q] \cup {invalid_mask}
                              /\ \A i \in W[M[j].child[z]] : Under(z, M[i].key, M[j].key)
  BY <1>5, <1>7, <1>19, <1>20
<1>22. \A i, j \in W[q] : \A z, w \in Sides :
          M[i].child[z] = M[j].child[w] /\ M[i].child[z] # invalid_mask => i = j
  BY <1>5, <1>18
<1>23. W[q] \subseteq Ids \ {invalid_mask}
  BY <1>4, <1>5
<1> HIDE DEF Good, Ordered
<1> QED
  BY Zenon, <1>5, <1>6, <1>21, <1>22, <1>23 DEF Tree

\* The path to a subtree that is rotated leads to its new root.
LEMMA RotateContext ==
    ASSUME NEW L, NEW U, NEW x, NEW sp, Context(L, U, x, sp), NEW r, r = RootOf(x, sp),
           x # invalid_mask, NEW y, NEW s, NEW b, NEW c, NEW d,
           RotatedAt(L, U, x, y, s, b, c, d), NEW M, NEW W,
           RotatedTree(L, U, r, M, W, x, y, s, b, c, d),
           \A j \in SpineIds(sp) : M[j].val = L[j].val /\ M[j].height = L[j].height
    PROVE  Context(M, W, y, sp) /\ W[RootOf(y, sp)] = U[r]
<1>1. /\ sp \in Stacks /\ Tree(L, U, r) /\ x \in U[r] /\ DOMAIN sp = 1..Len(sp)
      /\ Len(sp) \in Nat /\ SpineIds(sp) \subseteq U[r] \ U[x] /\ x \notin SpineIds(sp)
  BY ContextFacts
<1>2. x \in Ids /\ y \in Ids /\ y \in U[r] /\ U[x] = {x} \cup U[b] \cup U[y] /\ y \in U[y]
  <2>1. x \in Ids /\ y \in Ids /\ y \in U[r] /\ U[x] = {x} \cup U[b] \cup U[y]
    BY <1>1, RotationFacts
  <2>2. y \in U[y]
    BY <1>1, <2>1, TreeNodes
  <2> QED
    BY <2>1, <2>2
<1> DEFINE q == RootOf(y, sp)
<1>3. q = IF r = x THEN y ELSE r
  <2>1. CASE sp = <<>>
    BY <2>1 DEF RootOf
  <2>2. CASE sp # <<>>
    <3>1. 1 \in DOMAIN sp
      BY <1>1, <2>2, EmptySeq DEF Stacks
    <3>2. r = sp[1].node.id /\ q = sp[1].node.id /\ r \in SpineIds(sp)
      BY <2>2, <3>1 DEF RootOf, SpineIds
    <3> QED
      BY <1>1, <3>2
  <2> QED
    BY <2>1, <2>2
<1> HIDE DEF q
<1>4. Tree(M, W, q) /\ W[q] = U[r]
  BY <1>1, <1>3, RotateTree
<1>5. ASSUME NEW i \in DOMAIN sp
      PROVE  OnPath(M, W, y, sp, q, i)
  <2> DEFINE f == sp[i]
             j == sp[i].node.id
  <2>1. /\ f.side \in Sides /\ j \in U[r] /\ j \notin U[x]
        /\ Alike(L[j], f.node, f.side) /\ L[j].height[f.side] = f.node.height[f.side]
        /\ L[j].child[f.side] = NextId(x, sp, i)
        /\ \A k \in DOMAIN sp : i < k => j \notin U[sp[k].node.id]
    BY DEF Context, OnPath
  <2>2. j \in SpineIds(sp)
    BY DEF SpineIds
  <2>3. j \notin {x, y}
    BY <1>1, <1>2, <2>1, <2>2
  <2>4. /\ M[j].id = j /\ M[j].key = L[j].key
        /\ \A z \in Sides : M[j].child[z] = IF L[j].child[z] = x THEN y ELSE L[j].child[z]
        /\ M[j].val = L[j].val /\ M[j].height = L[j].height
    BY <2>1, <2>2, <2>3 DEF RotatedTree
  <2>5. L[j].id = j /\ i \in 1..Len(sp)
    BY <1>1, <2>1, TreeNodes
  <2>6. M[j].child[f.side] = NextId(y, sp, i)
    <3>1. CASE i = Len(sp)
      BY <2>1, <2>4, <3>1 DEF NextId
    <3>2. CASE i # Len(sp)
      <4>1. i + 1 \in DOMAIN sp
        BY <1>1, <3>2
      <4>2. NextId(x, sp, i) = sp[i + 1].node.id /\ NextId(y, sp, i) = sp[i + 1].node.id
        BY <3>2 DEF NextId
      <4>3. sp[i + 1].node.id # x
        BY <1>1, <4>1 DEF SpineIds
      <4> QED
        BY <2>1, <2>4, <4>2, <4>3
    <3> QED
      BY Zenon, <3>1, <3>2
  <2>7. M[j].child[Other(f.side)] = L[j].child[Other(f.side)]
    <3>1. Other(f.side) \in Sides /\ Other(f.side) # f.side
      BY <2>1, OtherSide
    <3>2. ASSUME L[j].child[Other(f.side)] = x PROVE FALSE
      <4>1. sp # <<>> /\ j = Last(sp).node.id /\ Other(f.side) = Last(sp).side
        BY <2>1, <3>1, <3>2, FocusParent
      <4>2. Last(sp) = sp[Len(sp)] /\ Len(sp) \in DOMAIN sp
        BY <1>1, <4>1, EmptySeq DEF Last, Stacks
      <4>3. i = Len(sp)
        BY SMTT(30), <4>1, <4>2, SpineUnique
      <4> QED
        BY <3>1, <4>1, <4>2, <4>3
    <3> QED
      BY <2>4, <3>1, <3>2
  <2>8. Alike(M[j], f.node, f.side) /\ M[j].height[f.side] = f.node.height[f.side]
    BY <2>1, <2>4, <2>5, <2>7 DEF Alike
  <2>9. j \notin W[y] /\ j \in W[q]
    BY <1>4, <2>1 DEF RotatedTree
  <2>10. ASSUME NEW k \in DOMAIN sp, i < k PROVE j \notin W[sp[k].node.id]
    <3>1. sp[k].node.id \in SpineIds(sp)
      BY DEF SpineIds
    <3>2. sp[k].node.id \in Ids /\ sp[k].node.id \notin {x, y}
      BY <1>1, <1>2, <3>1, TreeNodes
    <3>3. W[sp[k].node.id] = U[sp[k].node.id]
      BY <3>2 DEF RotatedTree
    <3> QED
      BY <2>1, <2>10, <3>3
  <2> QED
    BY <2>1, <2>6, <2>8, <2>9, <2>10 DEF OnPath
<1>6. y \in W[q]
  BY <1>2, <1>4
<1> QED
  BY <1>1, <1>2, <1>4, <1>5, <1>6 DEF Context, q

-------------------------------------------------------------------------------
(* A new leaf m at the end of a path that ends nowhere. *)

PlacedTree(L, U, r, M, W, m, sp) ==
    /\ M[m] \in Node /\ M[m].id = m /\ \A z \in Sides : M[m].child[z] = invalid_mask
    /\ W[m] = {m}
    /\ \A j \in Ids : j # m => W[j] = IF j \in SpineIds(sp) THEN U[j] \cup {m} ELSE U[j]
    /\ \A j \in U[r] :
          /\ M[j] \in Node /\ M[j].id = j /\ M[j].key = L[j].key /\ M[j].val = L[j].val
          /\ M[j].height = L[j].height
          /\ \A z \in Sides : M[j].child[z] =
                IF sp # <<>> /\ j = Last(sp).node.id /\ z = Last(sp).side
                THEN m ELSE L[j].child[z]

\* The path takes side z of node j.
Takes(sp, j, z) == \E i \in DOMAIN sp : j = sp[i].node.id /\ z = sp[i].side

LEMMA PlaceRoot ==
    ASSUME NEW L, NEW U, Context(L, U, invalid_mask, <<>>), NEW m \in Ids, m # invalid_mask,
           NEW M, NEW W, PlacedTree(L, U, invalid_mask, M, W, m, <<>>)
    PROVE  Context(M, W, m, <<>>) /\ W[m] = {m}
<1>1. U[invalid_mask] = {} /\ invalid_mask \in Ids
  BY DEF Context, RootOf, Tree
<1>2. W[invalid_mask] = {}
  BY <1>1 DEF PlacedTree, SpineIds
<1>3. /\ M[m] \in Node /\ M[m].id = m /\ \A z \in Sides : M[m].child[z] = invalid_mask
      /\ W[m] = {m}
  BY DEF PlacedTree
<1>4. UNION {W[M[m].child[z]] : z \in Sides} = {}
  BY <1>2, <1>3
<1>5. Tree(M, W, m)
  BY <1>2, <1>3, <1>4 DEF Tree
<1>6. <<>> \in Stacks /\ DOMAIN <<>> = {}
  BY DEF Stacks
<1> QED
  BY <1>3, <1>5, <1>6 DEF Context, RootOf

LEMMA PlaceContext ==
    ASSUME NEW L, NEW U, NEW sp, Context(L, U, invalid_mask, sp),
           NEW r, r = RootOf(invalid_mask, sp), NEW m \in Ids, m # invalid_mask, m \notin U[r],
           NEW M, NEW W, PlacedTree(L, U, r, M, W, m, sp),
           \A i \in DOMAIN sp : Under(sp[i].side, M[m].key, sp[i].node.key)
    PROVE  Context(M, W, m, sp) /\ W[RootOf(m, sp)] = U[r] \cup {m}
<1>1. /\ sp \in Stacks /\ Tree(L, U, r) /\ DOMAIN sp = 1..Len(sp)
      /\ Len(sp) \in Nat /\ SpineIds(sp) \subseteq U[r]
      /\ U[invalid_mask] = {} /\ U[r] \subseteq Ids \ {invalid_mask}
  <2>1. /\ sp \in Stacks /\ Tree(L, U, r) /\ DOMAIN sp = 1..Len(sp)
        /\ Len(sp) \in Nat /\ SpineIds(sp) \subseteq U[r]
    BY ContextFacts
  <2> QED
    BY <2>1 DEF Tree
<1>2. CASE sp = <<>>
  <2>1. r = invalid_mask /\ RootOf(m, sp) = m
    BY <1>2 DEF RootOf
  <2> QED
    BY <1>1, <1>2, <2>1, PlaceRoot
<1>3. CASE sp # <<>>
  <2> DEFINE n == Len(sp)
             p == Last(sp).node.id
             side == Last(sp).side
  <2>1. n \in DOMAIN sp /\ Last(sp) = sp[n] /\ 1 \in DOMAIN sp
    BY <1>1, <1>3, EmptySeq DEF Last, Stacks
  <2>2. RootOf(m, sp) = r /\ r = sp[1].node.id /\ r \in SpineIds(sp) /\ r \in U[r] /\ r \in Ids
    BY <1>1, <1>3, <2>1 DEF RootOf, SpineIds
  <2>3. /\ p \in SpineIds(sp) /\ p \in U[r] /\ side \in Sides /\ L[p].child[side] = invalid_mask
    BY <1>1, <2>1 DEF SpineIds, Context, OnPath, NextId
  <2>4. W[r] = U[r] \cup {m} /\ W[m] = {m} /\ W[invalid_mask] = {}
    <3>1. invalid_mask \notin SpineIds(sp) /\ invalid_mask \in Ids
      BY <1>1 DEF invalid_mask, Ids
    <3> QED
      BY <1>1, <2>2, <3>1 DEF PlacedTree
  <2>5. \A j \in U[r] : /\ M[j] \in Node /\ M[j].id = j /\ M[j].key = L[j].key
                        /\ M[j].val = L[j].val /\ M[j].height = L[j].height
                        /\ j \in Ids /\ j # m /\ j # invalid_mask
    BY <1>1 DEF PlacedTree
  <2>6. \A j \in U[r] : \A z \in Sides :
            M[j].child[z] = IF j = p /\ z = side THEN m ELSE L[j].child[z]
    BY <1>3 DEF PlacedTree
  <2>7. \A j \in U[r] : \A z \in Sides :
            /\ L[j].child[z] \in Ids /\ U[L[j].child[z]] \subseteq U[r]
            /\ L[j].child[z] # invalid_mask => L[j].child[z] \in U[r]
            /\ L[j].child[z] # m
    <3>1. \A j \in U[r] : \A z \in Sides :
            /\ L[j].child[z] \in Ids /\ U[L[j].child[z]] \subseteq U[r]
            /\ L[j].child[z] # invalid_mask => L[j].child[z] \in U[r]
      BY <1>1, ChildFacts
    <3> QED
      BY <3>1
  <2> HIDE DEF p, side
  \* A child is on the path exactly if the path takes the side of its parent.
  <2>8. ASSUME NEW j \in U[r], NEW z \in Sides
        PROVE  /\ L[j].child[z] \in SpineIds(sp) => Takes(sp, j, z) /\ ~(j = p /\ z = side)
               /\ Takes(sp, j, z) => L[j].child[z] \in SpineIds(sp) \/ (j = p /\ z = side)
    <3>1. ASSUME L[j].child[z] \in SpineIds(sp)
          PROVE  Takes(sp, j, z) /\ ~(j = p /\ z = side)
      <4>1. PICK i \in DOMAIN sp : L[j].child[z] = sp[i].node.id
        BY <3>1 DEF SpineIds
      <4>2. i - 1 \in DOMAIN sp /\ j = sp[i - 1].node.id /\ z = sp[i - 1].side
        BY <4>1, SpineParent
      <4>3. ~(j = p /\ z = side)
        <5>1. L[j].child[z] # invalid_mask
          BY <1>1, <3>1
        <5> QED
          BY <2>3, <5>1
      <4> QED
        BY <4>2, <4>3 DEF Takes
    <3>2. ASSUME Takes(sp, j, z)
          PROVE  L[j].child[z] \in SpineIds(sp) \/ (j = p /\ z = side)
      <4>1. PICK i \in DOMAIN sp : j = sp[i].node.id /\ z = sp[i].side
        BY <3>2 DEF Takes
      <4>2. CASE i = n
        BY <2>1, <4>1, <4>2 DEF p, side
      <4>3. CASE i # n
        <5>1. i + 1 \in DOMAIN sp
          BY <1>1, <4>3
        <5>2. L[j].child[z] = sp[i + 1].node.id
          BY <4>1, <4>3 DEF Context, OnPath, NextId
        <5> QED
          BY <5>1, <5>2 DEF SpineIds
      <4> QED
        BY <4>2, <4>3
    <3> QED
      BY <3>1, <3>2
  <2>9. ASSUME NEW j \in U[r], NEW z \in Sides
        PROVE  W[M[j].child[z]] = IF Takes(sp, j, z) THEN U[L[j].child[z]] \cup {m}
                                  ELSE U[L[j].child[z]]
    <3>1. CASE j = p /\ z = side
      <4>1. Takes(sp, j, z)
        BY <2>1, <3>1 DEF Takes, p, side
      <4>2. M[j].child[z] = m /\ L[j].child[z] = invalid_mask
        BY <2>3, <2>6, <3>1
      <4> QED
        BY <1>1, <2>4, <4>1, <4>2
    <3>2. CASE ~(j = p /\ z = side)
      <4>1. M[j].child[z] = L[j].child[z] /\ L[j].child[z] \in Ids /\ L[j].child[z] # m
        BY <2>6, <2>7, <3>2
      <4>2. W[L[j].child[z]] = IF L[j].child[z] \in SpineIds(sp) THEN U[L[j].child[z]] \cup {m}
                               ELSE U[L[j].child[z]]
        BY <4>1 DEF PlacedTree
      <4> QED
        BY <2>8, <3>2, <4>1, <4>2
    <3> QED
      BY <3>1, <3>2
  <2>91. \A j \in U[r] : \A z \in Sides : \A i :
            i \in W[M[j].child[z]] <=>
               i \in U[L[j].child[z]] \/ (i = m /\ Takes(sp, j, z))
    <3> SUFFICES ASSUME NEW j \in U[r], NEW z \in Sides
                 PROVE  \A i : i \in W[M[j].child[z]] <=>
                           i \in U[L[j].child[z]] \/ (i = m /\ Takes(sp, j, z))
      OBVIOUS
    <3>1. CASE Takes(sp, j, z)
      <4>1. W[M[j].child[z]] = U[L[j].child[z]] \cup {m}
        BY <2>9, <3>1
      <4> QED
        BY <3>1, <4>1
    <3>2. CASE ~Takes(sp, j, z)
      <4>1. W[M[j].child[z]] = U[L[j].child[z]]
        BY <2>9, <3>2
      <4> QED
        BY <3>2, <4>1
    <3> QED
      BY <3>1, <3>2
  <2>10. ASSUME NEW j \in U[r]
         PROVE  /\ W[j] \subseteq W[r]
                /\ W[j] = {j} \cup UNION {W[M[j].child[z]] : z \in Sides}
    <3>1. W[j] = IF j \in SpineIds(sp) THEN U[j] \cup {m} ELSE U[j]
      BY <2>5 DEF PlacedTree
    <3>2. U[j] \subseteq U[r] /\ \A i : i \in U[j] <=> i = j \/ \E z \in Sides : i \in U[L[j].child[z]]
      BY <1>1, TreeNodes
    <3>3. j \in SpineIds(sp) <=> \E z \in Sides : Takes(sp, j, z)
      <4>1. \A i \in DOMAIN sp : sp[i].side \in Sides
        BY DEF Context, OnPath
      <4> QED
        BY <4>1 DEF Takes, SpineIds
    <3>4. \A i : i \in W[j] <=> i = j \/ \E z \in Sides : i \in W[M[j].child[z]]
      <4>1. ASSUME NEW i, i \in W[j], i # j PROVE \E z \in Sides : i \in W[M[j].child[z]]
        <5>1. CASE i \in U[j]
          <6>1. PICK z \in Sides : i \in U[L[j].child[z]]
            BY <3>2, <4>1, <5>1
          <6>2. i \in W[M[j].child[z]]
            BY <2>91, <6>1
          <6> QED
            BY <6>2
        <5>2. CASE i \notin U[j]
          <6>1. i = m /\ j \in SpineIds(sp)
            BY <3>1, <4>1, <5>2
          <6>2. PICK z \in Sides : Takes(sp, j, z)
            BY <3>3, <6>1
          <6>3. i \in W[M[j].child[z]]
            BY <2>91, <6>1, <6>2
          <6> QED
            BY <6>3
        <5> QED
          BY <5>1, <5>2
      <4>2. ASSUME NEW i, NEW z \in Sides, i \in W[M[j].child[z]] PROVE i \in W[j]
        <5>1. i \in U[L[j].child[z]] \/ (i = m /\ Takes(sp, j, z))
          BY <2>91, <4>2
        <5> QED
          BY <3>1, <3>2, <3>3, <5>1
      <4>3. j \in W[j]
        BY <3>1, <3>2
      <4> QED
        BY <4>1, <4>2, <4>3
    <3> QED
      BY <2>4, <3>1, <3>2, <3>4
  <2>11. ASSUME NEW j \in U[r], NEW z \in Sides, NEW i \in W[M[j].child[z]]
         PROVE  Under(z, M[i].key, M[j].key)
    <3>1. CASE i \in U[L[j].child[z]]
      <4>1. i \in U[r] /\ Under(z, L[i].key, L[j].key)
        BY <1>1, <2>7, <3>1 DEF Tree
      <4> QED
        BY <2>5, <4>1
    <3>2. CASE i \notin U[L[j].child[z]]
      <4>1. i = m /\ Takes(sp, j, z)
        BY <2>91, <2>11, <3>2
      <4>2. PICK k \in DOMAIN sp : j = sp[k].node.id /\ z = sp[k].side
        BY <4>1 DEF Takes
      <4>3. L[j].key = sp[k].node.key
        BY <4>2 DEF Context, OnPath, Alike
      <4> QED
        BY <2>5, <4>1, <4>2, <4>3
    <3> QED
      BY <3>1, <3>2
  <2>12. /\ M[m] \in Node /\ M[m].id = m /\ \A z \in Sides : M[m].child[z] = invalid_mask
    BY DEF PlacedTree
  <2>13. W[m] = {m} \cup UNION {W[M[m].child[z]] : z \in Sides}
    <3>1. UNION {W[M[m].child[z]] : z \in Sides} = {}
      BY <2>4, <2>12
    <3> QED
      BY <2>4, <3>1
  <2>14. \A j \in W[r] :
          /\ M[j] \in Node /\ M[j].id = j
          /\ W[j] \subseteq W[r]
          /\ W[j] = {j} \cup UNION {W[M[j].child[s]] : s \in Sides}
          /\ \A s \in Sides : /\ M[j].child[s] \in W[r] \cup {invalid_mask}
                              /\ \A i \in W[M[j].child[s]] : Under(s, M[i].key, M[j].key)
    <3>1. ASSUME NEW j \in U[r]
          PROVE  /\ M[j] \in Node /\ M[j].id = j
                 /\ W[j] \subseteq W[r]
                 /\ W[j] = {j} \cup UNION {W[M[j].child[s]] : s \in Sides}
                 /\ \A s \in Sides : /\ M[j].child[s] \in W[r] \cup {invalid_mask}
                                     /\ \A i \in W[M[j].child[s]] : Under(s, M[i].key, M[j].key)
      <4>1. \A s \in Sides : M[j].child[s] \in W[r] \cup {invalid_mask}
        BY <2>4, <2>6, <2>7
      <4>2. M[j] \in Node /\ M[j].id = j
        BY <2>5
      <4> QED
        BY <2>10, <2>11, <4>1, <4>2
    <3>2. /\ W[m] \subseteq W[r]
          /\ \A s \in Sides : /\ M[m].child[s] \in W[r] \cup {invalid_mask}
                              /\ \A i \in W[M[m].child[s]] : Under(s, M[i].key, M[m].key)
      BY <2>4, <2>12
    <3> QED
      BY <2>4, <2>12, <2>13, <3>1, <3>2
  <2>15. ASSUME NEW i \in W[r], NEW j \in W[r], NEW s \in Sides, NEW z \in Sides,
                M[i].child[s] = M[j].child[z], M[i].child[s] # invalid_mask
         PROVE  i = j
    <3>1. i \in U[r] /\ j \in U[r]
      BY <2>4, <2>12, <2>15
    <3>2. CASE M[i].child[s] = m
      <4>1. i = p /\ s = side
        BY <2>6, <2>7, <3>1, <3>2
      <4>2. M[j].child[z] = m
        BY <2>15, <3>2
      <4>3. j = p /\ z = side
        BY <2>6, <2>7, <3>1, <4>2
      <4> QED
        BY <4>1, <4>3
    <3>3. CASE M[i].child[s] # m
      <4>1. L[i].child[s] = L[j].child[z] /\ L[i].child[s] # invalid_mask
        BY SMTT(30), <2>6, <2>7, <2>15, <3>1, <3>3
      <4> QED
        BY <1>1, <3>1, <4>1 DEF Tree
    <3> QED
      BY <3>2, <3>3
  <2>16. Tree(M, W, r)
    <3>1. W[r] \subseteq Ids \ {invalid_mask}
      BY <1>1, <2>4
    <3> QED
      BY <2>2, <2>4, <2>14, <2>15, <3>1 DEF Tree
  <2>17. ASSUME NEW i \in DOMAIN sp
         PROVE  OnPath(M, W, m, sp, r, i)
    <3> DEFINE f == sp[i]
               j == sp[i].node.id
    <3>1. /\ f.side \in Sides /\ j \in U[r]
          /\ Alike(L[j], f.node, f.side) /\ L[j].height[f.side] = f.node.height[f.side]
          /\ L[j].child[f.side] = NextId(invalid_mask, sp, i)
          /\ \A k \in DOMAIN sp : i < k => j \notin U[sp[k].node.id]
      BY DEF Context, OnPath
    <3>2. L[j].id = j
      BY <1>1, <3>1, TreeNodes
    <3>3. /\ Other(f.side) \in Sides /\ Other(f.side) # f.side
      BY <3>1, OtherSide
    <3>4. i = n => j = p /\ f.side = side
      BY <2>1 DEF p, side
    <3>5. j = p => i = n
      BY <2>1, SpineUnique DEF p
    <3>6. M[j].child[f.side] = NextId(m, sp, i)
      <4>1. CASE i = n
        BY <2>6, <3>1, <3>4, <4>1 DEF NextId
      <4>2. CASE i # n
        BY <2>6, <3>1, <3>5, <4>2 DEF NextId
      <4> QED
        BY <4>1, <4>2
    <3>7. M[j].child[Other(f.side)] = L[j].child[Other(f.side)]
      BY <2>6, <3>1, <3>3, <3>4, <3>5
    <3>8. Alike(M[j], f.node, f.side) /\ M[j].height[f.side] = f.node.height[f.side]
      BY <2>5, <3>1, <3>2, <3>7 DEF Alike
    <3>9. j \in W[r] /\ j \notin W[m]
      BY <2>4, <2>5, <3>1
    <3>10. ASSUME NEW k \in DOMAIN sp, i < k PROVE j \notin W[sp[k].node.id]
      <4>1. sp[k].node.id \in SpineIds(sp)
        BY DEF SpineIds
      <4>2. W[sp[k].node.id] = U[sp[k].node.id] \cup {m}
        <5>1. sp[k].node.id \in Ids /\ sp[k].node.id # m
          BY <1>1, <4>1
        <5> QED
          BY <4>1, <5>1 DEF PlacedTree
      <4>3. j # m
        BY <3>1
      <4> QED
        BY <3>1, <3>10, <4>2, <4>3
    <3> QED
      BY <3>1, <3>6, <3>8, <3>9, <3>10 DEF OnPath
  <2> QED
    BY <1>1, <2>2, <2>4, <2>16, <2>17 DEF Context
<1> QED
  BY <1>2, <1>3

-------------------------------------------------------------------------------
(* A tree that an insertion is at work on: t is the root of the subtree that is done,
   sp the path to it.  Only the last node of the path may have an old height. *)

Height(L, c) == IF c = invalid_mask THEN 0 ELSE HEIGHT(L[c])

\* The path's last step is from node j to side s.
Opening(sp, j, s) == sp # <<>> /\ j = Last(sp).node.id /\ s = Last(sp).side

Tall(L, T, sp) ==
    \A j \in T : \A s \in Sides :
        ~Opening(sp, j, s) => L[j].height[s] = Height(L, L[j].child[s])

Even(n) == \A s \in Sides : n.height[s] <= n.height[Other(s)] + 1

\* The nodes of T hold what the dictionary d does.
Holds(d, L, T) ==
    /\ \A j \in T : d[L[j].key] = L[j].val
    /\ \A k \in Key : d[k] # None => \E j \in T : L[j].key = k

Focus(d, m, L, U, t, sp, uneven) ==
    LET T == U[RootOf(t, sp)] IN
    /\ Context(L, U, t, sp)
    /\ Holds(d, L, T)
    /\ Tall(L, T, sp)
    /\ \A j \in T \ uneven : Even(L[j])
    /\ T \subseteq 1..m

LEMMA FocusFacts ==
    ASSUME NEW d, NEW m, NEW L, NEW U, NEW t, NEW sp, NEW uneven,
           Focus(d, m, L, U, t, sp, uneven), NEW T, T = U[RootOf(t, sp)]
    PROVE  /\ Context(L, U, t, sp) /\ Tree(L, U, RootOf(t, sp))
           /\ Holds(d, L, T) /\ Tall(L, T, sp)
           /\ \A j \in T : j \notin uneven => Even(L[j])
           /\ T \subseteq 1..m /\ U[t] \subseteq T
           /\ t # invalid_mask => t \in T /\ L[t] \in Node /\ L[t].id = t
           /\ SpineIds(sp) \subseteq T \ U[t] /\ t \notin SpineIds(sp)
           /\ \A j \in T : L[j] \in Node /\ L[j].id = j /\ j \in Ids /\ j # invalid_mask
<1>1. Context(L, U, t, sp) /\ Tree(L, U, RootOf(t, sp))
  BY ContextFacts DEF Focus
<1>2. /\ U[t] \subseteq T /\ SpineIds(sp) \subseteq T \ U[t] /\ t \notin SpineIds(sp)
      /\ t # invalid_mask => t \in T
  BY <1>1, ContextFacts
<1>3. \A j \in T : L[j] \in Node /\ L[j].id = j /\ j \in Ids /\ j # invalid_mask
  BY <1>1, TreeNodes
<1>4. Holds(d, L, T) /\ Tall(L, T, sp) /\ T \subseteq 1..m
  BY DEF Focus
<1>5. \A j \in T : j \notin uneven => Even(L[j])
  BY DEF Focus
<1> QED
  BY <1>1, <1>2, <1>3, <1>4, <1>5

\* The same between the rotations of a double rotation: the last node of the path rim
\* may have an old height as well.
Loose(L, T, sp, rim) ==
    \A j \in T : \A s \in Sides :
        ~Opening(sp, j, s) /\ ~Opening(rim, j, s) => L[j].height[s] = Height(L, L[j].child[s])

OpenFocus(d, m, L, U, t, sp, uneven, rim) ==
    LET T == U[RootOf(t, sp)] IN
    /\ Context(L, U, t, sp)
    /\ Holds(d, L, T)
    /\ Loose(L, T, sp, rim)
    /\ \A j \in T \ uneven : Even(L[j])
    /\ T \subseteq 1..m

LEMMA OpenFocusFacts ==
    ASSUME NEW d, NEW m, NEW L, NEW U, NEW t, NEW sp, NEW uneven, NEW rim,
           OpenFocus(d, m, L, U, t, sp, uneven, rim), NEW T, T = U[RootOf(t, sp)]
    PROVE  /\ Context(L, U, t, sp) /\ Tree(L, U, RootOf(t, sp))
           /\ Holds(d, L, T) /\ Loose(L, T, sp, rim)
           /\ \A j \in T : j \notin uneven => Even(L[j])
           /\ T \subseteq 1..m /\ U[t] \subseteq T
           /\ t # invalid_mask => t \in T /\ L[t] \in Node /\ L[t].id = t
           /\ SpineIds(sp) \subseteq T \ U[t] /\ t \notin SpineIds(sp)
           /\ \A j \in T : L[j] \in Node /\ L[j].id = j /\ j \in Ids /\ j # invalid_mask
<1>1. Context(L, U, t, sp) /\ Tree(L, U, RootOf(t, sp))
  BY ContextFacts DEF OpenFocus
<1>2. /\ U[t] \subseteq T /\ SpineIds(sp) \subseteq T \ U[t] /\ t \notin SpineIds(sp)
      /\ t # invalid_mask => t \in T
  BY <1>1, ContextFacts
<1>3. \A j \in T : L[j] \in Node /\ L[j].id = j /\ j \in Ids /\ j # invalid_mask
  BY <1>1, TreeNodes
<1>4. Holds(d, L, T) /\ Loose(L, T, sp, rim) /\ T \subseteq 1..m
  BY DEF OpenFocus
<1>5. \A j \in T : j \notin uneven => Even(L[j])
  BY DEF OpenFocus
<1> QED
  BY <1>1, <1>2, <1>3, <1>4, <1>5

\* The path rim ends on the path sp.
Within(rim, sp) == rim # <<>> => Last(rim).node.id \in SpineIds(sp)

LEMMA NotOpening ==
    ASSUME NEW rim, NEW sp, Within(rim, sp), NEW y, y \notin SpineIds(sp), NEW s
    PROVE  ~Opening(rim, y, s)
BY DEF Within, Opening

LEMMA OpenToFocus ==
    ASSUME NEW d, NEW m, NEW L, NEW U, NEW t, NEW sp, NEW uneven, NEW rim,
           rim = <<>> \/ rim = sp
    PROVE  OpenFocus(d, m, L, U, t, sp, uneven, rim) <=> Focus(d, m, L, U, t, sp, uneven)
<1>1. \A j, s : Opening(rim, j, s) => Opening(sp, j, s)
  BY DEF Opening
<1>2. \A T : Loose(L, T, sp, rim) <=> Tall(L, T, sp)
  BY <1>1 DEF Loose, Tall
<1> QED
  BY <1>2 DEF OpenFocus, Focus

\* A tree's nodes, of other ids, values and heights.
LEMMA HoldsSame ==
    ASSUME NEW d, NEW L, NEW T, Holds(d, L, T), NEW M,
           \A j \in T : M[j].key = L[j].key /\ M[j].val = L[j].val
    PROVE  Holds(d, M, T)
BY DEF Holds

\* The height that is kept for the last subtree of the path.
Base(sp) == Last(sp).node.height[Last(sp).side]

LEMMA HeightSame ==
    ASSUME NEW L, NEW M, NEW c, c # invalid_mask => M[c].height = L[c].height
    PROVE  Height(M, c) = Height(L, c)
BY DEF Height, HEIGHT

LEMMA PopFacts ==
    ASSUME NEW L, NEW U, NEW t, NEW sp, Context(L, U, t, sp), sp # <<>>
    PROVE  LET f == Last(sp)
               p == Last(sp).node.id
               q == Front(sp) IN
           /\ Context(L, U, p, q) /\ RootOf(p, q) = RootOf(t, sp)
           /\ p # invalid_mask /\ p \in U[RootOf(t, sp)] /\ f.node \in Node /\ f.side \in Sides
           /\ L[p].child[f.side] = t /\ Alike(L[p], f.node, f.side)
           /\ L[p].height[f.side] = f.node.height[f.side]
           /\ p # t /\ SpineIds(sp) = SpineIds(q) \cup {p} /\ p \notin SpineIds(q)
<1> DEFINE f == Last(sp)
           p == f.node.id
           q == Front(sp)
           r == RootOf(t, sp)
           n == Len(sp)
<1>1. f = Last(sp) /\ p = f.node.id /\ q = Front(sp) /\ r = RootOf(t, sp) /\ n = Len(sp)
  OBVIOUS
<1> HIDE DEF f, p, q, r, n
<1>2. /\ Context(L, U, p, q) /\ RootOf(p, q) = r
      /\ p # invalid_mask /\ p \in U[r] /\ f \in Frame /\ f.node \in Node /\ f.side \in Sides
      /\ L[p].child[f.side] = t /\ Alike(L[p], f.node, f.side)
      /\ L[p].height[f.side] = f.node.height[f.side]
      /\ p # t /\ p \notin U[t] /\ SpineIds(sp) = SpineIds(q) \cup {p}
      /\ p \notin SpineIds(q)
  BY <1>1, ContextPop
<1> QED
  BY <1>1, <1>2

\* What is kept for the subtree under t was its height; a node above it has it right.
LEMMA BaseFacts ==
    ASSUME NEW d, NEW m, NEW L, NEW U, NEW t, NEW sp, NEW uneven,
           Focus(d, m, L, U, t, sp, uneven), sp # <<>>, NEW p, p = Last(sp).node.id,
           NEW s, s = Last(sp).side
    PROVE  /\ p \in U[RootOf(t, sp)] /\ p # t /\ p # invalid_mask /\ s \in Sides
           /\ L[p].child[s] = t /\ Alike(L[p], Last(sp).node, s)
           /\ L[p].height[s] = Base(sp) /\ Base(sp) \in Nat
           /\ L[p].height[Other(s)] \in Nat
           /\ L[p].height[Other(s)] = Last(sp).node.height[Other(s)]
           /\ Front(sp) # <<>> => Base(Front(sp)) = HEIGHT(L[p])
           /\ Context(L, U, p, Front(sp)) /\ RootOf(p, Front(sp)) = RootOf(t, sp)
           /\ SpineIds(sp) = SpineIds(Front(sp)) \cup {p} /\ p \notin SpineIds(Front(sp))
           /\ Last(sp).node \in Node
<1> DEFINE r == RootOf(t, sp)
           q == Front(sp)
           f == Last(sp)
<1>1. Context(L, U, t, sp) /\ Tall(L, U[r], sp)
  BY DEF Focus
<1>2. /\ Context(L, U, p, q) /\ RootOf(p, q) = r
      /\ p # invalid_mask /\ p \in U[r] /\ f.node \in Node /\ s \in Sides
      /\ L[p].child[s] = t /\ Alike(L[p], f.node, s)
      /\ L[p].height[s] = f.node.height[s]
      /\ p # t /\ SpineIds(sp) = SpineIds(q) \cup {p} /\ p \notin SpineIds(q)
  BY <1>1, PopFacts
<1>3. L[p] \in Node /\ Other(s) \in Sides
  BY <1>1, <1>2, ContextFacts, TreeNodes, OtherSide
<1>4. L[p].height[s] \in Nat /\ L[p].height[Other(s)] \in Nat
  BY <1>2, <1>3, NodeFields
<1>5. ASSUME q # <<>> PROVE Base(q) = HEIGHT(L[p])
  <2> DEFINE g == Last(q)
  <2>1. /\ g.node.id \in U[r] /\ g.side \in Sides
        /\ L[g.node.id].child[g.side] = p
        /\ L[g.node.id].height[g.side] = g.node.height[g.side]
    BY <1>2, <1>5, PopFacts
  <2>2. g.node.id # p
    BY <1>2, <1>5, PopFacts
  <2>3. ~Opening(sp, g.node.id, g.side)
    BY <2>2 DEF Opening
  <2>4. L[g.node.id].height[g.side] = HEIGHT(L[p])
    BY <1>1, <1>2, <2>1, <2>3 DEF Tall, Height
  <2> QED
    BY Zenon, <2>1, <2>4 DEF Base
<1> QED
  BY <1>2, <1>4, <1>5 DEF Base, Alike

\* n is the last node of the path, with the subtree that is done as its child.
Linked(n, L, t, sp) ==
    sp # <<>> /\ Relink1(n, Last(sp).node, Last(sp).side, t, HEIGHT(L[t]))

\* The subtree that is done becomes a child of the node above, which knows its height.
LEMMA RiseFocus ==
    ASSUME NEW d, NEW m, NEW L, NEW U, NEW t, NEW sp, NEW uneven, NEW rim,
           OpenFocus(d, m, L, U, t, sp, uneven, rim), t # invalid_mask, NEW n, Linked(n, L, t, sp)
    PROVE  \E M : /\ OpenFocus(d, m, M, U, n.id, Front(sp), uneven \cup {n.id}, rim)
                  /\ M[n.id] = n /\ \A j \in U[RootOf(t, sp)] : j # n.id => M[j] = L[j]
<1>90. sp # <<>> /\ Relink1(n, Last(sp).node, Last(sp).side, t, HEIGHT(L[t]))
  BY DEF Linked
<1>91. PICK p, s : p = Last(sp).node.id /\ s = Last(sp).side
  OBVIOUS
<1>92. Relink1(n, Last(sp).node, s, t, HEIGHT(L[t])) /\ p = n.id
  BY <1>90, <1>91 DEF Relink1
<1>93. Relink1(n, Last(sp).node, s, t, HEIGHT(L[t]))
  BY <1>92
<1> USE <1>90, <1>91, <1>93
<1>0. PICK M : M = [j \in Ids |-> IF j = p THEN n ELSE L[j]]
  OBVIOUS
<1> DEFINE r == RootOf(t, sp)
           q == Front(sp)
           T == U[r]
<1>1. /\ Context(L, U, t, sp) /\ Tree(L, U, r) /\ Holds(d, L, T) /\ Loose(L, T, sp, rim)
      /\ \A j \in T : j \notin uneven => Even(L[j])
      /\ T \subseteq 1..m
  BY OpenFocusFacts
<1>2. \A j \in T : L[j] \in Node /\ L[j].id = j /\ j \in Ids /\ j # invalid_mask
  BY OpenFocusFacts
<1>3. /\ p \in T /\ p # t /\ s \in Sides /\ L[p].child[s] = t /\ Alike(L[p], Last(sp).node, s)
  BY <1>1, PopFacts
<1>4. Context(L, U, p, q) /\ RootOf(p, q) = r /\ p \notin SpineIds(q)
  BY <1>1, PopFacts
<1>5. M[p] = n /\ \A j \in T : j # p => M[j] = L[j]
  BY <1>0, <1>2, <1>3
<1>6. /\ n \in Node /\ n.id = p /\ n.key = L[p].key /\ n.val = L[p].val
      /\ n.child[s] = t /\ n.child[Other(s)] = L[p].child[Other(s)]
      /\ n.height[s] = HEIGHT(L[t]) /\ n.height[Other(s)] = L[p].height[Other(s)]
      /\ Sides = {s, Other(s)} /\ Other(s) # s /\ Other(s) \in Sides
  <2>1. Sides = {s, Other(s)} /\ Other(s) # s /\ Other(s) \in Sides
    BY <1>3, OtherSide
  <2> QED
    BY <1>3, <2>1 DEF Relink1, Alike
<1> HIDE DEF q, r
<1>7. SameShape(L, M, T)
  <2>1. ASSUME NEW j \in T
        PROVE  /\ M[j] \in Node /\ M[j].id = L[j].id /\ M[j].key = L[j].key
               /\ \A z \in Sides : M[j].child[z] = L[j].child[z]
    <3>1. CASE j = p
      BY <1>2, <1>3, <1>5, <1>6, <3>1
    <3>2. CASE j # p
      BY <1>2, <1>5, <3>2
    <3> QED
      BY <3>1, <3>2
  <2> QED
    BY <2>1 DEF SameShape
<1>8. \A j \in SpineIds(q) : M[j] = L[j]
  <2>1. SpineIds(q) \subseteq T
    BY <1>4, ContextFacts
  <2> QED
    BY <1>4, <1>5, <2>1
<1>9. Context(M, U, p, q)
  BY <1>4, <1>7, <1>8, SameShapeContext
<1>10. Holds(d, M, T)
  <2>1. \A j \in T : M[j].key = L[j].key /\ M[j].val = L[j].val
    BY <1>5, <1>6
  <2> QED
    BY <1>1, <2>1, HoldsSame
<1>11. Loose(M, T, q, rim)
  <2> SUFFICES ASSUME NEW j \in T, NEW z \in Sides, ~Opening(q, j, z), ~Opening(rim, j, z)
               PROVE  M[j].height[z] = Height(M, M[j].child[z])
    BY DEF Loose
  <2> DEFINE c == L[j].child[z]
  <2>1. M[j].child[z] = c /\ c \in Ids /\ (c # invalid_mask => c \in T)
    <3>1. c \in Ids /\ (c # invalid_mask => c \in T)
      BY <1>1, ChildFacts DEF r
    <3> QED
      BY <1>7, <3>1 DEF SameShape
  <2>2. c # p
    <3> SUFFICES ASSUME c = p PROVE FALSE
      OBVIOUS
    <3>1. p # invalid_mask
      BY <1>2, <1>3
    <3> QED
      BY <1>4, <3>1, FocusParent DEF Opening
  <2>3. Height(M, c) = Height(L, c)
    BY <1>5, <2>1, <2>2, HeightSame
  <2>4. CASE j = p /\ z = s
    <3>1. c = t /\ M[j].height[z] = HEIGHT(L[t])
      BY <1>3, <1>5, <1>6, <2>4
    <3> QED
      BY <2>1, <2>3, <3>1 DEF Height
  <2>5. CASE ~(j = p /\ z = s)
    <3>1. L[j].height[z] = Height(L, c)
      BY <1>1, <2>5 DEF Loose, Opening
    <3>2. M[j].height[z] = L[j].height[z]
      BY <1>5, <1>6, <2>5
    <3> QED
      BY <2>1, <2>3, <3>1, <3>2
  <2> QED
    BY <2>4, <2>5
<1>12. \A j \in T \ (uneven \cup {p}) : Even(M[j])
  BY <1>1, <1>5
<1>13. OpenFocus(d, m, M, U, p, q, uneven \cup {p}, rim)
  BY SMTT(30), <1>1, <1>4, <1>9, <1>10, <1>11, <1>12 DEF OpenFocus
<1> QED
  BY <1>5, <1>13, <1>92 DEF q, r

\* The tree of L, whose nodes are those of U, after a rotation of the subtree x that is
\* done, to the new root y.
Turn(d, m, L, U, x, y, sp, uneven, rim, down, up) ==
    \E M, W :
        /\ OpenFocus(d, m, M, W, y, sp, uneven \cup {x, y}, rim)
        /\ M[x] = down /\ M[y] = up
        /\ W[RootOf(y, sp)] = U[RootOf(x, sp)]
        /\ \A j \in U[RootOf(x, sp)] :
              j \notin {x, y} /\ j \notin SpineIds(sp) => M[j] = L[j]

LEMMA TurnMade ==
    ASSUME NEW d, NEW m, NEW L, NEW U, NEW x, NEW sp, NEW uneven, NEW rim,
           OpenFocus(d, m, L, U, x, sp, uneven, rim), x # invalid_mask, Within(rim, sp),
           NEW s, NEW y, NEW b, NEW c, NEW e, RotatedAt(L, U, x, y, s, b, c, e),
           NEW r, r = RootOf(x, sp), NEW T, T = U[r], NEW down, NEW up,
           Relink1(down, L[x], Other(s), c, L[y].height[s]),
           Relink1(up, L[y], s, x, HEIGHT(down))
    PROVE  Turn(d, m, L, U, x, y, sp, uneven, rim, down, up)
<1> DEFINE p == Last(sp).node.id
           z0 == Last(sp).side
           relinked == [L[p] EXCEPT !.child[z0] = y]
           cut(j) == sp # <<>> /\ j = p
<1>1. /\ Context(L, U, x, sp) /\ Tree(L, U, r) /\ Holds(d, L, T) /\ Loose(L, T, sp, rim)
      /\ \A j \in T : j \notin uneven => Even(L[j])
      /\ T \subseteq 1..m
  <2>1. Context(L, U, x, sp) /\ Tree(L, U, r)
    BY OpenFocusFacts
  <2>2. Holds(d, L, T) /\ Loose(L, T, sp, rim)
    BY OpenFocusFacts
  <2>3. \A j \in T : j \notin uneven => Even(L[j])
    BY DEF OpenFocus
  <2>4. T \subseteq 1..m
    BY DEF OpenFocus
  <2> QED
    BY <2>1, <2>2, <2>3, <2>4
<1>2. /\ \A j \in T : L[j] \in Node /\ L[j].id = j /\ j \in Ids /\ j # invalid_mask
      /\ x \in T /\ SpineIds(sp) \subseteq T \ U[x] /\ x \notin SpineIds(sp)
  BY OpenFocusFacts
<1>3. PICK M : M = [j \in Ids |-> IF j = x THEN down ELSE IF j = y THEN up
                                  ELSE IF cut(j) THEN relinked ELSE L[j]]
  OBVIOUS
<1>4. PICK W : W = [j \in Ids |-> IF j = x THEN {x} \cup U[b] \cup U[c]
                                  ELSE IF j = y THEN U[x] ELSE U[j]]
  OBVIOUS
<1>5. Other(s) \in Sides /\ Other(s) # s /\ Sides = {s, Other(s)} /\ Other(Other(s)) = s
  BY OtherSide DEF RotatedAt
<1>6. /\ s \in Sides /\ y = L[x].child[Other(s)] /\ y # invalid_mask
      /\ b = L[x].child[s] /\ c = L[y].child[s] /\ e = L[y].child[Other(s)]
  BY DEF RotatedAt
<1>7. /\ x \in Ids /\ y \in Ids /\ y \in T /\ y # x /\ y # r /\ U[y] \subseteq U[x] /\ y \in U[y]
      /\ U[x] = {x} \cup U[b] \cup U[y]
      /\ b \in Ids /\ c \in Ids /\ e \in Ids
      /\ b # x /\ b # y /\ c # x /\ c # y /\ e # x /\ e # y
      /\ b \in T \cup {invalid_mask} /\ c \in T \cup {invalid_mask}
      /\ e \in T \cup {invalid_mask}
      /\ \A i \in T, z \in Sides : L[i].child[z] = y => i = x
  <2> QED
    BY <1>1, <1>2, RotationFacts
<1>8. y \notin SpineIds(sp)
  BY <1>2, <1>7
<1>9. sp # <<>> =>
        /\ p \in SpineIds(sp) /\ p \in T /\ z0 \in Sides /\ L[p].child[z0] = x
        /\ relinked \in Node /\ relinked.id = p /\ relinked.key = L[p].key
        /\ relinked.val = L[p].val /\ relinked.height = L[p].height
        /\ \A z \in Sides : relinked.child[z] = IF z = z0 THEN y ELSE L[p].child[z]
  <2> SUFFICES ASSUME sp # <<>>
               PROVE  /\ p \in SpineIds(sp) /\ p \in T /\ z0 \in Sides /\ L[p].child[z0] = x
                      /\ relinked \in Node /\ relinked.id = p /\ relinked.key = L[p].key
                      /\ relinked.val = L[p].val /\ relinked.height = L[p].height
                      /\ \A z \in Sides : relinked.child[z] = IF z = z0 THEN y ELSE L[p].child[z]
    OBVIOUS
  <2>1. p \in SpineIds(sp) /\ p \in T /\ z0 \in Sides /\ L[p].child[z0] = x
    BY <1>1, PopFacts
  <2>2. L[p] \in Node /\ L[p].id = p
    BY <1>2, <2>1
  <2> HIDE DEF z0, p
  <2>3. /\ relinked \in Node /\ relinked.id = p /\ relinked.key = L[p].key
        /\ relinked.val = L[p].val /\ relinked.height = L[p].height
        /\ relinked.child = [L[p].child EXCEPT ![z0] = y]
    BY <1>7, <2>1, <2>2 DEF Node
  <2>4. L[p].child \in [Sides -> Ids]
    BY <2>2 DEF Node
  <2> HIDE DEF relinked
  <2> QED
    BY <2>1, <2>3, <2>4
<1>10. sp # <<>> => p \notin {x, y}
  BY <1>2, <1>8, <1>9
<1> HIDE DEF p, z0, relinked
\* A child x has no other parent than the end of the path.
<1>11. \A j \in T : \A z \in Sides : L[j].child[z] = x => cut(j) /\ z = z0
  <2> SUFFICES ASSUME NEW j \in T, NEW z \in Sides, L[j].child[z] = x
               PROVE  cut(j) /\ z = z0
    OBVIOUS
  <2>1. sp # <<>> /\ j = Last(sp).node.id /\ z = Last(sp).side
    BY <1>1, FocusParent
  <2> QED
    BY <2>1 DEF p, z0
<1>12. M[x] = down /\ M[y] = up
  BY <1>3, <1>7
<1>24. \A j \in Ids : j \notin {x, y} => M[j] = IF cut(j) THEN relinked ELSE L[j]
  <2> HIDE DEF cut
  <2> QED
    BY <1>3
<1>13. ASSUME NEW j \in T, j \notin {x, y}
       PROVE  /\ M[j] \in Node /\ M[j].id = j /\ M[j].key = L[j].key /\ M[j].val = L[j].val
              /\ M[j].height = L[j].height
              /\ \A z \in Sides : M[j].child[z] = IF L[j].child[z] = x THEN y ELSE L[j].child[z]
              /\ j \notin SpineIds(sp) => M[j] = L[j]
  <2>1. CASE cut(j)
    <3>1. M[j] = relinked
      BY Zenon, <1>2, <1>13, <1>24, <2>1
    <3>2. \A z \in Sides : L[j].child[z] = x <=> z = z0
      BY <1>9, <1>11, <2>1
    <3>3. j \in SpineIds(sp)
      BY <1>9, <2>1
    <3> QED
      BY <1>9, <2>1, <3>1, <3>2, <3>3
  <2>2. CASE ~cut(j)
    <3>1. M[j] = L[j]
      BY Zenon, <1>2, <1>13, <1>24, <2>2
    <3>2. \A z \in Sides : L[j].child[z] # x
      <4> HIDE DEF cut
      <4> QED
        BY Zenon, <1>11, <2>2
    <3> QED
      BY <1>2, <3>1, <3>2
  <2> QED
    BY <2>1, <2>2
<1>14. /\ down \in Node /\ down.id = x /\ down.key = L[x].key /\ down.val = L[x].val
       /\ down.child[s] = b /\ down.child[Other(s)] = c
       /\ down.height[s] = L[x].height[s] /\ down.height[Other(s)] = L[y].height[s]
  <2>1. L[x].id = x
    BY <1>2
  <2> QED
    BY <1>5, <1>6, <2>1 DEF Relink1
<1>15. /\ up \in Node /\ up.id = y /\ up.key = L[y].key /\ up.val = L[y].val
       /\ up.child[s] = x /\ up.child[Other(s)] = e
       /\ up.height[s] = HEIGHT(down) /\ up.height[Other(s)] = L[y].height[Other(s)]
  <2>1. L[y].id = y
    BY <1>2, <1>7
  <2> QED
    BY Zenon, <1>6, <2>1 DEF Relink1
<1> HIDE DEF cut
<1>16. RotatedTree(L, U, r, M, W, x, y, s, b, c, e)
  <2>1. /\ W[x] = {x} \cup U[b] \cup U[c] /\ W[y] = U[x]
        /\ \A j \in Ids : j \notin {x, y} => W[j] = U[j]
    BY <1>4, <1>7
  <2>2. /\ M[x] \in Node /\ M[x].id = x /\ M[x].key = L[x].key
        /\ M[x].child[s] = b /\ M[x].child[Other(s)] = c
    BY <1>12, <1>14
  <2>3. /\ M[y] \in Node /\ M[y].id = y /\ M[y].key = L[y].key
        /\ M[y].child[s] = x /\ M[y].child[Other(s)] = e
    BY <1>12, <1>15
  <2>4. \A j \in U[r] : j \notin {x, y} =>
          /\ M[j] \in Node /\ M[j].id = j /\ M[j].key = L[j].key
          /\ \A z \in Sides : M[j].child[z] = IF L[j].child[z] = x THEN y ELSE L[j].child[z]
    BY <1>13
  <2> QED
    BY <2>1, <2>2, <2>3, <2>4 DEF RotatedTree
<1>17. Context(M, W, y, sp) /\ W[RootOf(y, sp)] = T
  <2>1. \A j \in SpineIds(sp) : M[j].val = L[j].val /\ M[j].height = L[j].height
    BY <1>2, <1>8, <1>13
  <2>2. r = RootOf(x, sp)
    OBVIOUS
  <2> QED
    BY <1>1, <1>16, <2>1, <2>2, RotateContext
<1>18. Holds(d, M, T)
  <2>1. \A j \in T : M[j].key = L[j].key /\ M[j].val = L[j].val
    <3> SUFFICES ASSUME NEW j \in T PROVE M[j].key = L[j].key /\ M[j].val = L[j].val
      OBVIOUS
    <3>1. CASE j \in {x, y}
      BY <1>12, <1>14, <1>15, <3>1
    <3>2. CASE j \notin {x, y}
      BY <1>13, <3>2
    <3> QED
      BY <3>1, <3>2
  <2> QED
    BY <1>1, <2>1, HoldsSame
\* The other subtrees keep their heights.
<1>19. ASSUME NEW v \in T \cup {invalid_mask}, v \notin {x, y} PROVE Height(M, v) = Height(L, v)
  <2>1. v # invalid_mask => M[v].height = L[v].height
    BY <1>13, <1>19
  <2> QED
    BY <2>1, HeightSame
<1>20. Loose(M, T, sp, rim)
  <2> SUFFICES ASSUME NEW j \in T, NEW z \in Sides, ~Opening(sp, j, z),
                      ~Opening(rim, j, z)
               PROVE  M[j].height[z] = Height(M, M[j].child[z])
    BY DEF Loose
  <2>1. L[j].height[z] = Height(L, L[j].child[z])
    BY <1>1 DEF Loose
  <2>2. CASE j = x
    <3>9. ~Opening(sp, y, s)
      BY <1>9, <1>10 DEF Opening, p
    <3>8. ~Opening(rim, y, s)
      BY <1>8, NotOpening
    <3>1. ~Opening(sp, y, s) /\ ~Opening(rim, y, s)
      BY <3>8, <3>9
    <3>2. L[y].height[s] = Height(L, c)
      BY Zenon, <1>1, <1>6, <1>7, <3>1 DEF Loose
    <3>3. Height(M, b) = Height(L, b) /\ Height(M, c) = Height(L, c)
      BY <1>7, <1>19
    <3>4. CASE z = s
      BY Zenon, <1>6, <1>12, <1>14, <2>1, <2>2, <3>3, <3>4
    <3>5. CASE z = Other(s)
      BY <1>12, <1>14, <2>2, <3>2, <3>3, <3>5
    <3> QED
      BY <1>5, <3>4, <3>5
  <2>3. CASE j = y
    <3>1. CASE z = s
      BY <1>2, <1>12, <1>15, <2>3, <3>1 DEF Height
    <3>2. CASE z = Other(s)
      <4>1. Height(M, e) = Height(L, e)
        BY <1>7, <1>19
      <4> QED
        BY Zenon, <1>6, <1>12, <1>15, <2>1, <2>3, <3>2, <4>1
    <3> QED
      BY <1>5, <3>1, <3>2
  <2>4. CASE j \notin {x, y}
    <3> DEFINE v == L[j].child[z]
    <3>1. v \in T \cup {invalid_mask}
      <4>1. v # invalid_mask => v \in T
        BY <1>1, ChildFacts
      <4> QED
        BY <4>1
    <3>2. v # x /\ v # y
      <4>1. v # x
        BY <1>11, <2>4 DEF Opening, cut, p, z0
      <4> QED
        BY <1>7, <2>4, <4>1
    <3>3. M[j].child[z] = v /\ M[j].height[z] = L[j].height[z]
      BY <1>13, <2>4, <3>2
    <3> QED
      BY <1>19, <2>1, <3>1, <3>2, <3>3
  <2> QED
    BY <2>2, <2>3, <2>4
<1>21. \A j \in T : j \notin uneven \cup {x, y} => Even(M[j])
  BY <1>1, <1>13 DEF Even
<1>22. \A j \in T : j \notin {x, y} /\ j \notin SpineIds(sp) => M[j] = L[j]
  BY <1>13
<1>23. OpenFocus(d, m, M, W, y, sp, uneven \cup {x, y}, rim)
  <2> QED
    BY Zenon, <1>1, <1>17, <1>18, <1>20, <1>21 DEF OpenFocus
<1> QED
  BY <1>12, <1>17, <1>22, <1>23 DEF Turn

LEMMA RotateFocus ==
    ASSUME NEW d, NEW m, NEW L, NEW U, NEW x, NEW sp, NEW uneven, NEW rim,
           OpenFocus(d, m, L, U, x, sp, uneven, rim), x # invalid_mask, Within(rim, sp),
           NEW s \in Sides, NEW y, y = L[x].child[Other(s)], y # invalid_mask,
           NEW down, NEW up,
           Relink1(down, L[x], Other(s), L[y].child[s], L[y].height[s]),
           Relink1(up, L[y], s, x, HEIGHT(down))
    PROVE  Turn(d, m, L, U, x, y, sp, uneven, rim, down, up)
<1>1. RotatedAt(L, U, x, y, s, L[x].child[s], L[y].child[s], L[y].child[Other(s)])
  BY DEF RotatedAt
<1> QED
  BY <1>1, TurnMade

IsLeaf(n, k) ==
    /\ n \in Node /\ n.id = k
    /\ \A z \in Sides : n.child[z] = invalid_mask /\ n.height[z] = 0

\* The path is the one a search for key a takes.
Leads(sp, a) == \A i \in DOMAIN sp : Under(sp[i].side, a, sp[i].node.key)

Absent(L, T, a) == \A j \in T : L[j].key # a

\* The dictionary with what node n holds, unless it has the key already.
Learned(d, n) == [d EXCEPT ![n.key] = IF @ = None THEN n.val ELSE @]

\* A new leaf, k, where the path sp through a whole tree ends.
LEMMA PlaceFocus ==
    ASSUME NEW d \in [Key -> Val \cup {None}], NEW m, NEW L, NEW U, NEW r,
           Focus(d, m, L, U, r, <<>>, {}), m \in Nat,
           NEW sp, Context(L, U, invalid_mask, sp), r = RootOf(invalid_mask, sp),
           NEW n, NEW k, k = m + 1, k # invalid_mask, IsLeaf(n, k), Leads(sp, n.key),
           Absent(L, U[r], n.key), NEW D, D = Learned(d, n)
    PROVE  \E M, W :
              /\ Focus(D, m + 1, M, W, k, sp, {})
              /\ M[k] = n
              /\ W[RootOf(k, sp)] = U[r] \cup {k}
              /\ \A j \in U[r] : j \notin SpineIds(sp) => M[j] = L[j]
              /\ sp # <<>> => Base(sp) = 0
<1> DEFINE p == Last(sp).node.id
           z0 == Last(sp).side
           relinked == [L[p] EXCEPT !.child[z0] = k]
           cut(j) == sp # <<>> /\ j = p
<1>0. /\ n \in Node /\ k = n.id
      /\ \A z \in Sides : n.child[z] = invalid_mask /\ n.height[z] = 0
      /\ \A i \in DOMAIN sp : Under(sp[i].side, n.key, sp[i].node.key)
      /\ \A j \in U[r] : L[j].key # n.key
      /\ D = [d EXCEPT ![n.key] = IF @ = None THEN n.val ELSE @]
  BY DEF IsLeaf, Leads, Absent, Learned
<1> USE <1>0
<1>1. RootOf(r, <<>>) = r
  BY DEF RootOf
<1>2. /\ Tree(L, U, r) /\ Holds(d, L, U[r]) /\ Tall(L, U[r], <<>>)
      /\ \A j \in U[r] : Even(L[j])
      /\ U[r] \subseteq 1..m
      /\ \A j \in U[r] : L[j] \in Node /\ L[j].id = j /\ j \in Ids /\ j # invalid_mask
  <2>1. /\ Tree(L, U, r) /\ Holds(d, L, U[r]) /\ Tall(L, U[r], <<>>)
        /\ \A j \in U[r] : j \notin {} => Even(L[j])
    BY <1>1, FocusFacts
  <2>2. /\ U[r] \subseteq 1..m
        /\ \A j \in U[r] : L[j] \in Node /\ L[j].id = j /\ j \in Ids /\ j # invalid_mask
    BY <1>1, FocusFacts
  <2> QED
    BY <2>1, <2>2
<1>3. k \in Ids /\ k \notin U[r] /\ n.key \in Key /\ n.val \in Val
  <2>1. k \notin U[r]
    BY <1>2
  <2> QED
    BY <2>1, NodeFields
<1>4. \A j \in U[r] : \A z \in Sides : L[j].height[z] = Height(L, L[j].child[z])
  BY <1>2 DEF Tall, Opening
<1>5. sp # <<>> =>
        /\ p \in SpineIds(sp) /\ p \in U[r] /\ z0 \in Sides /\ L[p].child[z0] = invalid_mask
        /\ L[p].height[z0] = Base(sp)
        /\ relinked \in Node /\ relinked.id = p /\ relinked.key = L[p].key
        /\ relinked.val = L[p].val /\ relinked.height = L[p].height
        /\ \A z \in Sides : relinked.child[z] = IF z = z0 THEN k ELSE L[p].child[z]
  <2> SUFFICES ASSUME sp # <<>>
               PROVE  /\ p \in SpineIds(sp) /\ p \in U[r] /\ z0 \in Sides
                      /\ L[p].child[z0] = invalid_mask /\ L[p].height[z0] = Base(sp)
                      /\ relinked \in Node /\ relinked.id = p /\ relinked.key = L[p].key
                      /\ relinked.val = L[p].val /\ relinked.height = L[p].height
                      /\ \A z \in Sides : relinked.child[z] = IF z = z0 THEN k ELSE L[p].child[z]
    OBVIOUS
  <2>1. /\ p \in SpineIds(sp) /\ p \in U[r] /\ z0 \in Sides /\ L[p].child[z0] = invalid_mask
        /\ L[p].height[z0] = Base(sp)
    BY PopFacts DEF Base
  <2>2. L[p] \in Node /\ L[p].id = p
    BY <1>2, <2>1
  <2> HIDE DEF z0, p
  <2>3. /\ relinked \in Node /\ relinked.id = p /\ relinked.key = L[p].key
        /\ relinked.val = L[p].val /\ relinked.height = L[p].height
        /\ relinked.child = [L[p].child EXCEPT ![z0] = k]
    BY <1>3, <2>1, <2>2 DEF Node
  <2>4. L[p].child \in [Sides -> Ids]
    BY <2>2 DEF Node
  <2> HIDE DEF relinked
  <2> QED
    BY <2>1, <2>3, <2>4
<1>6. sp # <<>> => Base(sp) = 0
  BY <1>4, <1>5 DEF Height
<1> HIDE DEF relinked
<1>7. PICK M : M = [j \in Ids |-> IF j = k THEN n ELSE IF cut(j) THEN relinked ELSE L[j]]
  OBVIOUS
<1>8. PICK W : W = [j \in Ids |-> IF j = k THEN {k}
                                  ELSE IF j \in SpineIds(sp) THEN U[j] \cup {k} ELSE U[j]]
  OBVIOUS
<1>9. M[k] = n /\ W[k] = {k}
  BY <1>3, <1>7, <1>8
<1>10. ASSUME NEW j \in U[r]
       PROVE  /\ M[j] \in Node /\ M[j].id = j /\ M[j].key = L[j].key /\ M[j].val = L[j].val
              /\ M[j].height = L[j].height
              /\ \A z \in Sides : M[j].child[z] = IF sp # <<>> /\ j = p /\ z = z0
                                                  THEN k ELSE L[j].child[z]
              /\ j \notin SpineIds(sp) => M[j] = L[j]
  <2>1. j \in Ids /\ j # k /\ L[j] \in Node /\ L[j].id = j
    BY <1>2, <1>3
  <2>2. CASE cut(j)
    BY <1>5, <1>7, <2>1, <2>2
  <2>3. CASE ~cut(j)
    <3>1. M[j] = L[j]
      BY <1>7, <2>1, <2>3
    <3> QED
      BY <2>1, <2>3, <3>1
  <2> QED
    BY <2>2, <2>3
<1>11. PlacedTree(L, U, r, M, W, k, sp)
  <2>1. \A j \in Ids : j # k => W[j] = IF j \in SpineIds(sp) THEN U[j] \cup {k} ELSE U[j]
    BY <1>8
  <2>2. \A j \in U[r] :
          /\ M[j] \in Node /\ M[j].id = j /\ M[j].key = L[j].key /\ M[j].val = L[j].val
          /\ M[j].height = L[j].height
          /\ \A z \in Sides : M[j].child[z] =
                IF sp # <<>> /\ j = Last(sp).node.id /\ z = Last(sp).side
                THEN k ELSE L[j].child[z]
    BY <1>10
  <2>3. M[k] \in Node /\ M[k].id = k /\ \A z \in Sides : M[k].child[z] = invalid_mask
    BY <1>9
  <2> QED
    BY <1>9, <2>1, <2>2, <2>3 DEF PlacedTree
<1>12. Context(M, W, k, sp) /\ W[RootOf(k, sp)] = U[r] \cup {k}
  <2>1. \A i \in DOMAIN sp : Under(sp[i].side, M[k].key, sp[i].node.key)
    BY <1>9
  <2> QED
    BY <1>3, <1>11, <2>1, PlaceContext
<1> DEFINE T == U[r] \cup {k}
<1>13. Holds(D, M, T)
  <2>1. d[n.key] = None
    <3>1. /\ \A j \in U[r] : L[j].key # n.key
          /\ \A a \in Key : d[a] # None => \E j \in U[r] : L[j].key = a
      BY <1>2 DEF Holds
    <3>2. n.key \in Key
      BY <1>3
    <3> QED
      BY ONLY Zenon, <3>1, <3>2
  <2>2. D[n.key] = n.val /\ \A a \in Key : a # n.key => D[a] = d[a]
    BY <1>3, <2>1
  <2>3. \A j \in U[r] : L[j].key \in Key /\ L[j].key # n.key /\ d[L[j].key] = L[j].val
    BY <1>2, NodeFields DEF Holds
  <2>4. \A j \in T : D[M[j].key] = M[j].val
    BY <1>9, <1>10, <2>2, <2>3
  <2>5. ASSUME NEW a \in Key, D[a] # None PROVE \E j \in T : M[j].key = a
    <3>1. CASE a = n.key
      BY <1>9, <3>1
    <3>2. CASE a # n.key
      <4>1. PICK j \in U[r] : L[j].key = a
        BY <1>2, <2>2, <2>5, <3>2 DEF Holds
      <4>2. M[j].key = a
        BY <1>10, <4>1
      <4> QED
        BY <4>2
    <3> QED
      BY <3>1, <3>2
  <2> QED
    BY <2>4, <2>5 DEF Holds
<1>14. Tall(M, T, sp)
  <2> SUFFICES ASSUME NEW j \in T, NEW z \in Sides, ~Opening(sp, j, z)
               PROVE  M[j].height[z] = Height(M, M[j].child[z])
    BY DEF Tall
  <2>1. CASE j = k
    BY <1>9, <2>1 DEF Height
  <2>2. CASE j \in U[r]
    <3> DEFINE v == L[j].child[z]
    <3>1. M[j].child[z] = v /\ M[j].height[z] = L[j].height[z]
      BY <1>10, <2>2 DEF Opening
    <3>2. v # invalid_mask => v \in U[r]
      BY <1>2, <2>2, ChildFacts
    <3>3. v # invalid_mask => M[v].height = L[v].height
      BY <1>10, <3>2
    <3>4. Height(M, v) = Height(L, v)
      BY <3>3, HeightSame
    <3> QED
      BY <1>4, <2>2, <3>1, <3>4
  <2> QED
    BY <2>1, <2>2
<1>15. \A j \in T \ {} : Even(M[j])
  <2>1. Even(n)
    BY OtherSide DEF Even
  <2>2. \A j \in U[r] : Even(M[j])
    BY <1>2, <1>10 DEF Even
  <2> QED
    BY <1>9, <2>1, <2>2
<1>16. T \subseteq 1..(m + 1)
  BY <1>2
<1>17. Focus(D, m + 1, M, W, k, sp, {})
  BY <1>12, <1>13, <1>14, <1>15, <1>16 DEF Focus
<1>18. \A j \in U[r] : j \notin SpineIds(sp) => M[j] = L[j]
  BY <1>10
<1> QED
  BY <1>6, <1>9, <1>12, <1>17, <1>18

-------------------------------------------------------------------------------
(* The tree in the cache and in the memory. *)

\* The operation's state w and the memory mem have the nodes D of the tree L: a
\* cached node is the tree's, and so is a block, unless it was evicted with changes.
Stored(mem, w, L, D) ==
    /\ \A n \in Nodes(w.cache) : n.id \in D => n = L[n.id]
    /\ \A j \in D : ~IsIn(w.cache, j) /\ j \notin w.evicted => mem[j] = L[j]

LEMMA StoredSame ==
    ASSUME NEW mem, NEW w, NEW L, NEW D, Stored(mem, w, L, D), NEW M, NEW E,
           \A j \in E : j \in D /\ M[j] = L[j]
    PROVE  Stored(mem, w, M, E)
BY DEF Stored

\* Reading a node of the tree returns it, unless something evicted is read.
LEMMA StoredRead ==
    ASSUME setup \in Setups, NEW m \in Nat, NEW w, WorkOK(w, m), MemoryOK(m), w.bad = "no",
           NEW L, NEW D, Stored(memory, w, L, D), NEW id \in D, id \in Ids, L[id] \in Node,
           NEW v, v = OdsAccessRead(w, id)
    PROVE  /\ v.bad = "no" /\ ~v.stale =>
                 /\ Top(v) = L[id] /\ Stored(memory, v, L, D) /\ ~w.stale
           /\ v.bad # "no" => v.evicted # {}
           /\ w.stale => v.stale
<1>1. /\ WorkOK(v, m)
      /\ w.evicted \subseteq v.evicted
      /\ IsIn(w.cache, id) => /\ v.bad = "no" /\ Top(v) \in Nodes(w.cache)
                              /\ v.stale = w.stale
  BY ReadSound
<1>2. /\ ~IsIn(w.cache, id) /\ memory[id] \in Node =>
            v.bad = "no" /\ Top(v) = memory[id] /\ v.stale = (w.stale \/ id \in w.evicted)
      /\ ~IsIn(w.cache, id) /\ memory[id] \notin Node =>
            v.bad # "no" /\ v.evicted = w.evicted /\ v.stale = w.stale
      /\ v.bad = "no" => Top(v) \in Node /\ Top(v).id = id /\ Keeps(w, v, Top(v))
  BY ReadSound
<1>3. w.stale \in BOOLEAN
  BY DEF WorkOK, Work
<1>4. w.stale => v.stale
  BY <1>1, <1>2, <1>3
<1>5. ASSUME v.bad # "no" PROVE v.evicted # {}
  <2>1. ~IsIn(w.cache, id) /\ memory[id] \notin Node /\ v.evicted = w.evicted
    BY <1>1, <1>2, <1>5
  <2>2. id \in w.evicted
    BY <2>1 DEF Stored
  <2> QED
    BY <2>1, <2>2
<1>6. ASSUME v.bad = "no", ~v.stale
      PROVE  Top(v) = L[id] /\ Stored(memory, v, L, D) /\ ~w.stale
  <2>1. Top(v) = L[id]
    <3>1. CASE IsIn(w.cache, id)
      BY <1>1, <1>2, <1>6, <3>1 DEF Stored
    <3>2. CASE ~IsIn(w.cache, id)
      <4>1. Top(v) = memory[id] /\ id \notin w.evicted
        BY <1>2, <1>3, <1>6, <3>2
      <4> QED
        BY <3>2, <4>1 DEF Stored
    <3> QED
      BY <3>1, <3>2
  <2>2. Keeps(w, v, Top(v)) /\ Top(v).id = id
    BY <1>2, <1>6
  <2>3. \A n \in Nodes(v.cache) : n.id \in D => n = L[n.id]
    BY <2>1, <2>2 DEF Stored, Keeps
  <2>4. ASSUME NEW j \in D, ~IsIn(v.cache, j), j \notin v.evicted PROVE memory[j] = L[j]
    <3>1. j # id
      BY <2>2, <2>4 DEF Keeps, IsIn
    <3>2. CASE IsIn(w.cache, j)
      <4>1. PICK k \in Nodes(w.cache) : k.id = j
        BY <3>2 DEF IsIn
      <4>2. k \notin Nodes(v.cache)
        BY <2>4, <4>1 DEF IsIn
      <4>3. memory[j] = k
        BY <2>2, <2>4, <3>1, <4>1, <4>2 DEF Keeps
      <4> QED
        BY <4>1, <4>3 DEF Stored
    <3>3. CASE ~IsIn(w.cache, j)
      BY <1>1, <2>4, <3>3 DEF Stored
    <3> QED
      BY <3>2, <3>3
  <2>5. Stored(memory, v, L, D)
    BY <2>3, <2>4 DEF Stored
  <2> QED
    BY <1>4, <1>6, <2>1, <2>5
<1> QED
  BY <1>4, <1>5, <1>6

\* A node put into the cache, first, replaces what the tree had.
LEMMA StoredPut ==
    ASSUME NEW w, NEW L, NEW D, Stored(memory, w, L, D), NEW n,
           NEW v, Keeps(w, v, n), w.evicted \ {n.id} \subseteq v.evicted,
           NEW M, M[n.id] = n, NEW E, \A j \in E : j = n.id \/ (j \in D /\ M[j] = L[j])
    PROVE  Stored(memory, v, M, E)
<1>1. ASSUME NEW k \in Nodes(v.cache), k.id \in E PROVE k = M[k.id]
  <2>1. k = n \/ (k \in Nodes(w.cache) /\ k.id # n.id)
    BY DEF Keeps
  <2> QED
    BY <1>1, <2>1 DEF Stored
<1>2. ASSUME NEW j \in E, ~IsIn(v.cache, j), j \notin v.evicted PROVE memory[j] = M[j]
  <2>1. j # n.id /\ j \in D /\ M[j] = L[j] /\ j \notin w.evicted
    BY <1>2 DEF Keeps, IsIn
  <2>2. CASE IsIn(w.cache, j)
    <3>1. PICK k \in Nodes(w.cache) : k.id = j
      BY SMTT(30), <2>2 DEF IsIn
    <3>2. k \notin Nodes(v.cache)
      BY <1>2, <3>1 DEF IsIn
    <3>3. memory[j] = k
      BY <1>2, <2>1, <3>1, <3>2 DEF Keeps
    <3> QED
      BY <2>1, <3>1, <3>3 DEF Stored
  <2>3. CASE ~IsIn(w.cache, j)
    BY <2>1, <2>3 DEF Stored
  <2> QED
    BY <2>2, <2>3
<1> QED
  BY <1>1, <1>2 DEF Stored

-------------------------------------------------------------------------------
(* The tree at each step of an operation, as long as no update was lost. *)

\* The path to the subtree that is done: its root is on the stack when it was found.
Spine == IF pc = "ascend" /\ stack # <<>> /\ Last(stack).side = "here" THEN Front(stack)
         ELSE stack

\* The tree is whole.
AtRest(L, U) ==
    /\ Focus(dict, used, L, U, root_id, <<>>, {})
    /\ Stored(memory, ods, L, U[root_id])

\* The key can only be under the cursor; every read takes a node from what is left.
Searching(L, U) ==
    /\ cursor # invalid_mask => cursor \in U[root_id]
    /\ \A j \in U[root_id] : L[j].key = call.key => j \in U[cursor]
    /\ ods.reads + Cardinality(U[cursor]) <= Cardinality(U[root_id])

AtDescend(L, U) ==
    /\ AtRest(L, U) /\ Searching(L, U)
    /\ call.op = "insert" =>
          /\ Context(L, U, cursor, stack) /\ RootOf(cursor, stack) = root_id
          /\ \A i \in DOMAIN stack : stack[i].side = Side(stack[i].node, call.key)

\* The nodes of the path are on the stack, all others in the cache or the memory.
Working(L, U, t, sp, uneven) ==
    /\ t \in Ids /\ t # invalid_mask
    /\ Focus(dict, used, L, U, t, sp, uneven)
    /\ Stored(memory, ods, L, U[RootOf(t, sp)] \ SpineIds(sp))

Pending(L, U, t, sp, uneven, rim) ==
    /\ t \in Ids /\ t # invalid_mask
    /\ OpenFocus(dict, used, L, U, t, sp, uneven, rim)
    /\ Stored(memory, ods, L, U[RootOf(t, sp)] \ SpineIds(sp))

\* The subtree that is done has height h: what it was, or one more.
Grown(sp, h) == sp # <<>> => h = Base(sp) \/ h = Base(sp) + 1
Risen(sp, h) == sp # <<>> => h = Base(sp) + 1

AtAscend(L, U, t) ==
    /\ Working(L, U, t, Spine, {})
    /\ Top(ods) = L[t]
    /\ Grown(Spine, HEIGHT(L[t]))
    /\ stack # <<>> /\ Last(stack).side = "here" => Last(stack).node = L[t]

AtBalance(L, U, t) ==
    /\ Working(L, U, t, stack, {t})
    /\ Top(ods) = L[t]
    /\ Grown(stack, HEIGHT(L[t]))
    /\ \A s \in Sides : L[t].height[s] <= L[t].height[Other(s)] + 2
    /\ ~Even(L[t]) => Risen(stack, HEIGHT(L[t]))

\* The height of a node with children of heights a and b.
Over(a, b) == 1 + IF a >= b THEN a ELSE b

\* One rotation to side s is left: it makes node t and its child y even.
AtLast(L, U, t, s, y) ==
    LET low == Over(L[y].height[s], L[t].height[s])
        out == L[y].height[Other(s)] IN
    /\ Len(tasks) = 1 /\ Head(tasks).do = s /\ Head(tasks).id = t
    /\ y = L[t].child[Other(s)] /\ y # invalid_mask
    /\ Working(L, U, t, stack, {t, y})
    /\ L[y].height[s] <= L[t].height[s] + 1 /\ L[t].height[s] <= L[y].height[s] + 1
    /\ out <= low /\ low <= out + 1
    /\ Grown(stack, Over(out, low))

\* A double rotation is to be made: node t is heavy on side s, its child y on the other.
AtFirst(L, U, t, s, y) ==
    /\ tasks = DoubleRotation(s, L[t])
    /\ y = L[t].child[s] /\ y # invalid_mask
    /\ Working(L, U, t, stack, {t})
    /\ L[t].height[s] = L[t].height[Other(s)] + 2
    /\ L[y].height[Other(s)] = L[y].height[s] + 1
    /\ Risen(stack, HEIGHT(L[t]))

\* The child was rotated, z is its new root and not linked to the node n yet.
AtSecond(L, U, t, s, z, n) ==
    /\ tasks = <<Task(Relinking(s), t, n), Task(Other(s), t, n)>>
    /\ n \in Node /\ n.id = t
    /\ Pending(L, U, z, Append(stack, [node |-> n, side |-> s]), {t, z}, stack)
    /\ Top(ods) = L[z]
    /\ n.height[s] = n.height[Other(s)] + 2
    /\ L[z].height[s] = n.height[Other(s)] + 1
    /\ L[z].height[Other(s)] <= n.height[Other(s)]
    /\ n.height[Other(s)] <= L[z].height[Other(s)] + 1
    /\ Risen(stack, n.height[Other(s)] + 3)

AtRotate(L, U) ==
    \E s \in Sides : \E t, y \in Ids :
        \/ AtLast(L, U, t, s, y)
        \/ AtFirst(L, U, t, s, y)
        \/ \E n : AtSecond(L, U, t, s, y, n)

SoundAt(L, U) ==
    /\ pc \in {"idle", "pad_reads", "write_back"} => AtRest(L, U)
    /\ pc = "descend" => AtDescend(L, U)
    /\ pc = "ascend" => \E t : AtAscend(L, U, t)
    /\ pc = "balance" => \E t : AtBalance(L, U, t)
    /\ pc = "rotate" => AtRotate(L, U)

Sound == ~dropped /\ ~ods.stale => \E L, U : SoundAt(L, U)

LEMMA FocusMono ==
    ASSUME NEW d, NEW m \in Nat, NEW k \in Nat, m <= k, NEW L, NEW U, NEW t, NEW sp,
           NEW uneven, Focus(d, m, L, U, t, sp, uneven)
    PROVE  Focus(d, k, L, U, t, sp, uneven)
<1>1. \A i \in 1..m : i \in 1..k
  OBVIOUS
<1>2. U[RootOf(t, sp)] \subseteq 1..k
  BY <1>1 DEF Focus
<1> QED
  BY <1>2 DEF Focus

\* A path through a tree that is whole.
LEMMA FocusDown ==
    ASSUME NEW d, NEW m, NEW L, NEW U, NEW r, Focus(d, m, L, U, r, <<>>, {}),
           NEW t, NEW sp, Context(L, U, t, sp), RootOf(t, sp) = r
    PROVE  /\ Focus(d, m, L, U, t, sp, {})
           /\ sp # <<>> => Base(sp) = Height(L, t)
<1>1. RootOf(r, <<>>) = r
  BY DEF RootOf
<1>2. Tall(L, U[r], <<>>)
  BY <1>1 DEF Focus
<1>3. \A j \in U[r] : \A s \in Sides : L[j].height[s] = Height(L, L[j].child[s])
  BY <1>2 DEF Tall, Opening
<1>4. Tall(L, U[r], sp)
  BY <1>3 DEF Tall
<1>5. Focus(d, m, L, U, t, sp, {})
  BY <1>1, <1>4 DEF Focus
<1>6. ASSUME sp # <<>> PROVE Base(sp) = Height(L, t)
  BY <1>3, <1>6, PopFacts DEF Base
<1> QED
  BY <1>5, <1>6

LEMMA StaleStays ==
    ASSUME setup \in Setups, NEW m \in Nat, NEW w, WorkOK(w, m), MemoryOK(m),
           NEW id \in Ids, NEW v, v = OdsAccessRead(w, id)
    PROVE  w.stale => v.stale
<1>1. w.bad # "no" => v = w
  BY ReadSound
<1>2. w.bad = "no" =>
         /\ IsIn(w.cache, id) => v.stale = w.stale
         /\ ~IsIn(w.cache, id) /\ memory[id] \in Node => v.stale = (w.stale \/ id \in w.evicted)
         /\ ~IsIn(w.cache, id) /\ memory[id] \notin Node => v.stale = w.stale
  BY ReadSound
<1>3. w.stale \in BOOLEAN
  BY DEF WorkOK, Work
<1> QED
  BY <1>1, <1>2, <1>3

LEMMA InitSound ==
    ASSUME Init PROVE Sound
<1>1. PICK U : U = [j \in Ids |-> {}]
  OBVIOUS
<1>2. invalid_mask \in Ids
  BY DEF invalid_mask, Ids
<1>3. U[invalid_mask] = {} /\ root_id = invalid_mask /\ RootOf(invalid_mask, <<>>) = invalid_mask
  BY <1>1, <1>2 DEF Init, RootOf
<1>4. Context(memory, U, invalid_mask, <<>>)
  <2>1. <<>> \in Stacks /\ DOMAIN <<>> = {}
    BY DEF Stacks
  <2>2. Tree(memory, U, invalid_mask)
    BY <1>2, <1>3 DEF Tree
  <2> QED
    BY <1>2, <1>3, <2>1, <2>2 DEF Context
<1>5. Holds(dict, memory, {})
  BY DEF Init, Holds
<1>6. Tall(memory, {}, <<>>)
  BY DEF Tall
<1>7. Focus(dict, used, memory, U, root_id, <<>>, {})
  BY <1>3, <1>4, <1>5, <1>6 DEF Focus
<1>8. Stored(memory, ods, memory, U[root_id])
  BY <1>3 DEF Stored
<1>9. SoundAt(memory, U)
  BY <1>7, <1>8 DEF Init, SoundAt, AtRest
<1> QED
  BY <1>9 DEF Sound

LEMMA BeginSoundly ==
    ASSUME Typing, Sound, NEW k \in Key, Find(k) \/ Insert(k, node_count)
    PROVE  Sound'
<1> SUFFICES ASSUME ~dropped', ~ods'.stale
             PROVE  (\E L, U : SoundAt(L, U))'
  BY DEF Sound
<1>1. /\ pc = "idle" /\ pc' = "descend" /\ ods' = [ods EXCEPT !.cache = <<>>]
      /\ stack' = <<>> /\ cursor' = root_id /\ dropped' = dropped
      /\ memory' = memory /\ root_id' = root_id /\ dict' = dict
  BY DEF Find, Insert, Begin
<1>2. used' = used
  BY BeginTyping
<1>3. ods = Start /\ ods' = Start
  <2>1. ods = Start
    BY <1>1 DEF Typing
  <2> QED
    BY <1>1, <2>1 DEF Start
<1>4. PICK L, U : AtRest(L, U)
  BY <1>1, <1>3 DEF Sound, SoundAt
<1>5. AtRest(L, U)'
  BY <1>1, <1>2, <1>3, <1>4 DEF AtRest
<1>6. /\ Context(L, U, root_id, <<>>) /\ RootOf(root_id, <<>>) = root_id
      /\ root_id # invalid_mask => root_id \in U[root_id]
  <2>1. Focus(dict, used, L, U, root_id, <<>>, {}) /\ RootOf(root_id, <<>>) = root_id
    BY <1>4 DEF AtRest, RootOf
  <2>2. Context(L, U, root_id, <<>>)
    BY <2>1, FocusFacts
  <2>3. root_id # invalid_mask => root_id \in U[RootOf(root_id, <<>>)]
    BY <2>1, FocusFacts
  <2> QED
    BY <2>1, <2>2, <2>3
<1>7. Searching(L, U)'
  <2>1. ods'.reads = 0 /\ IsFiniteSet(U[root_id])
    <3>1. U[root_id] \subseteq Ids
      BY <1>6, ContextFacts, TreeNodes
    <3>2. IsFiniteSet(Ids)
      BY FS_Interval DEF Ids
    <3> QED
      BY <1>3, <3>1, <3>2, FS_Subset DEF Start
  <2>2. Cardinality(U[root_id]) \in Nat
    BY <2>1, FS_CardinalityType
  <2> QED
    BY <1>1, <1>6, <2>1, <2>2 DEF Searching
<1>8. DOMAIN stack' = {}
  BY <1>1
<1>9. AtDescend(L, U)'
  BY <1>1, <1>5, <1>6, <1>7, <1>8 DEF AtDescend
<1> QED
  BY <1>1, <1>9 DEF SoundAt

\* The key is at the root of a tree, or under one of its children.
LEMMA SearchSide ==
    ASSUME NEW L, NEW U, NEW r, Tree(L, U, r), NEW t \in U[r], NEW k \in Nat,
           NEW s, s = Side(L[t], k)
    PROVE  /\ s \in Sides \/ (s = "here" /\ L[t].key = k)
           /\ s \in Sides => Under(s, k, L[t].key) /\ L[t].key # k
           /\ s \in Sides => \A j \in U[t] : L[j].key = k => j \in U[L[t].child[s]]
<1>1. /\ L[t].key \in Nat /\ U[t] \subseteq U[r] /\ L[t] \in Node
      /\ \A j : j \in U[t] <=> j = t \/ \E z \in Sides : j \in U[L[t].child[z]]
  BY TreeNodes, NodeFields
<1>2. /\ s \in Sides \/ (s = "here" /\ L[t].key = k)
      /\ s \in Sides => Under(s, k, L[t].key) /\ L[t].key # k
  BY <1>1 DEF Side, Sides, Under
<1>3. ASSUME s \in Sides, NEW j \in U[t], L[j].key = k PROVE j \in U[L[t].child[s]]
  <2>1. j # t
    BY <1>2, <1>3
  <2>2. PICK z \in Sides : j \in U[L[t].child[z]]
    BY <1>1, <1>3, <2>1
  <2>3. Under(z, k, L[t].key)
    BY <1>3, <2>2 DEF Tree
  <2>4. z = s
    BY <1>1, <1>2, <1>3, <2>3 DEF Sides, Under
  <2> QED
    BY <2>2, <2>4
<1> QED
  BY <1>2, <1>3

LEMMA FrontOfAppend ==
    ASSUME NEW S, NEW q \in Seq(S), NEW e \in S, NEW z, z = Append(q, e)
    PROVE  z \in Seq(S) /\ z # <<>> /\ Last(z) = e /\ Front(z) = q
<1> DEFINE n == Len(q)
<1>1. /\ z \in Seq(S) /\ Len(z) = n + 1 /\ \A i \in 1..n : z[i] = q[i]
      /\ z[n + 1] = e /\ n \in Nat
  BY AppendProperties, LenProperties
<1>2. z # <<>>
  BY <1>1, EmptySeq
<1>3. PICK l : l = Len(z)
  OBVIOUS
<1>4. /\ Last(z) = z[l] /\ Front(z) \in Seq(S) /\ Len(Front(z)) = l - 1
      /\ DOMAIN Front(z) = 1..(l - 1) /\ \A i \in DOMAIN Front(z) : Front(z)[i] = z[i]
  <2>1. z \in Seq(S) /\ z # <<>> /\ l = Len(z)
    BY <1>1, <1>2, <1>3
  <2>2. Last(z) = z[l] /\ Front(z) \in Seq(S) /\ Len(Front(z)) = l - 1
    BY ONLY <2>1, FrontTail
  <2>3. DOMAIN Front(z) = 1..(l - 1)
    BY ONLY <2>1, FrontTail
  <2>4. \A i \in DOMAIN Front(z) : Front(z)[i] = z[i]
    BY ONLY <2>1, FrontTail
  <2> QED
    BY <2>2, <2>3, <2>4
<1>5. Len(Front(z)) = n /\ \A i \in 1..n : Front(z)[i] = q[i]
  BY <1>1, <1>3, <1>4
<1> HIDE DEF n
<1>6. Front(z) = q
  BY <1>4, <1>5, SeqEqual DEF n
<1> QED
  BY <1>1, <1>2, <1>3, <1>4, <1>6

LEMMA RestFacts ==
    ASSUME NEW L, NEW U, AtRest(L, U)
    PROVE  /\ Focus(dict, used, L, U, root_id, <<>>, {}) /\ Stored(memory, ods, L, U[root_id])
           /\ Tree(L, U, root_id)
           /\ U[root_id] \subseteq 1..used /\ U[root_id] \subseteq Ids
           /\ \A j \in U[root_id] : L[j] \in Node /\ L[j].id = j /\ j \in Ids /\ j # invalid_mask
           /\ root_id # invalid_mask => root_id \in U[root_id]
           /\ IsFiniteSet(U[root_id])
           /\ U[invalid_mask] = {}
<1>1. Focus(dict, used, L, U, root_id, <<>>, {}) /\ RootOf(root_id, <<>>) = root_id
      /\ Stored(memory, ods, L, U[root_id])
  BY DEF AtRest, RootOf
<1>2. /\ Tree(L, U, root_id) /\ U[root_id] \subseteq 1..used
      /\ root_id # invalid_mask => root_id \in U[root_id]
      /\ U[invalid_mask] = {}
  <2>1. Tree(L, U, root_id) /\ U[root_id] \subseteq 1..used
    BY <1>1, FocusFacts
  <2> QED
    BY <2>1 DEF Tree
<1>3. \A j \in U[root_id] : L[j] \in Node /\ L[j].id = j /\ j \in Ids /\ j # invalid_mask
  BY <1>2, TreeNodes
<1>4. IsFiniteSet(U[root_id])
  <2>1. IsFiniteSet(Ids)
    BY FS_Interval DEF Ids
  <2> QED
    BY <1>3, <2>1, FS_Subset
<1> QED
  BY <1>1, <1>2, <1>3, <1>4

\* What a step of the search reads, and what is left to search.
LEMMA DescendReads ==
    ASSUME Typing, Counted, Descend, NEW L, NEW U, AtDescend(L, U), ~ods'.stale
    PROVE  /\ cursor \in U[root_id] /\ L[cursor] \in Node /\ L[cursor].id = cursor
           /\ Top(ods') = L[cursor] /\ Stored(memory, ods', L, U[root_id])
           /\ ods'.reads = ods.reads + 1
           /\ call.key \in Nat /\ call.key \in Key
<1>1. /\ setup \in Setups /\ used \in Nat /\ WorkOK(ods, used) /\ MemoryOK(used)
      /\ cursor \in Ids /\ ods.bad = "no"
  BY TypingFacts DEF Running, Descend
<1>2. ods' = OdsAccessRead(ods, cursor) /\ ods'.bad = "no" /\ cursor # invalid_mask
      /\ pc = "descend"
  BY DEF Descend
<1>3. cursor \in U[root_id] /\ AtRest(L, U)
  BY <1>2 DEF AtDescend, Searching
<1>4. L[cursor] \in Node /\ L[cursor].id = cursor /\ Stored(memory, ods, L, U[root_id])
  BY <1>3, RestFacts
<1>5. Top(ods') = L[cursor] /\ Stored(memory, ods', L, U[root_id])
  BY <1>1, <1>2, <1>3, <1>4, StoredRead
<1>6. ods'.reads = ods.reads + 1
  BY <1>1, <1>2, ReadSound
<1>7. call.key \in Key
  BY <1>2 DEF Typing, CallOK
<1> QED
  BY <1>3, <1>4, <1>5, <1>6, <1>7

LEMMA DescendSoundly ==
    ASSUME Typing, Counted, Sound, Descend
    PROVE  Sound'
<1> SUFFICES ASSUME ~dropped', ~ods'.stale
             PROVE  (\E L, U : SoundAt(L, U))'
  BY DEF Sound
<1>1. /\ pc = "descend" /\ dropped' = dropped /\ Kept /\ dict' = dict /\ call' = call
      /\ memory' = memory /\ root_id' = root_id /\ node_count' = node_count
      /\ cursor # invalid_mask
  BY DEF Descend, Kept
<1>2. ~ods.stale /\ call.op \in {"find", "insert"} /\ used \in Nat
  <2>1. ~ods.stale
    BY <1>1 DEF Counted, Walking
  <2>2. call.op \in {"find", "insert"}
    BY <1>1 DEF Typing, CallOK
  <2> QED
    BY <2>1, <2>2, TypingFacts
<1>3. PICK L, U : AtDescend(L, U)
  BY <1>1, <1>2 DEF Sound, SoundAt
<1>4. /\ cursor \in U[root_id] /\ L[cursor] \in Node /\ L[cursor].id = cursor
      /\ Top(ods') = L[cursor] /\ Stored(memory, ods', L, U[root_id])
      /\ ods'.reads = ods.reads + 1
      /\ call.key \in Nat /\ call.key \in Key
  BY <1>3, DescendReads
<1>5. /\ Focus(dict, used, L, U, root_id, <<>>, {}) /\ Tree(L, U, root_id)
      /\ U[root_id] \subseteq 1..used
      /\ IsFiniteSet(U[root_id]) /\ AtRest(L, U)
  <2>1. AtRest(L, U)
    BY <1>3 DEF AtDescend
  <2> QED
    BY <2>1, RestFacts
<1>25. PICK t : t = cursor
  OBVIOUS
<1> DEFINE side == Side(L[t], call.key)
<1>6. /\ side \in Sides \/ side = "here"
      /\ side \in Sides => \A j \in U[t] : L[j].key = call.key => j \in U[L[t].child[side]]
  BY <1>25, <1>4, <1>5, SearchSide
<1>7. call.op = "insert" => /\ Context(L, U, t, stack) /\ RootOf(t, stack) = root_id
                            /\ \A i \in DOMAIN stack :
                                  stack[i].side = Side(stack[i].node, call.key)
                            /\ stack' = Append(stack, [node |-> L[t], side |-> side])
  BY <1>25, <1>3, <1>4 DEF AtDescend, Descend
<1>8. CASE side \in Sides
  <2> DEFINE c == L[t].child[side]
  <2>1. pc' = "descend" /\ cursor' = c
    <3>1. side # "here"
      BY <1>8 DEF Sides
    <3> QED
      BY <1>1, <1>25, <1>4, <3>1 DEF Descend
  <2>2. used' = used
    BY <1>1, <1>25, <2>1 DEF used
  <2>3. AtRest(L, U)'
    BY <1>1, <1>25, <1>4, <1>5, <2>2 DEF AtRest
  <2>4. /\ c \in Ids /\ U[c] \subseteq U[t] /\ t \notin U[c] /\ U[t] \subseteq U[root_id]
        /\ c # invalid_mask => c \in U[root_id]
        /\ t \in U[t]
    <3>1. /\ c \in Ids /\ U[c] \subseteq U[t] /\ t \notin U[c]
          /\ c # invalid_mask => c \in U[root_id]
      BY <1>25, <1>4, <1>5, <1>8, TreeChild
    <3>2. t \in U[t] /\ U[t] \subseteq U[root_id]
      BY <1>25, <1>4, <1>5, TreeNodes
    <3> QED
      BY <3>1, <3>2
  <2>5. Searching(L, U)'
    <3>1. \A j \in U[root_id] : L[j].key = call.key => j \in U[c]
      BY <1>25, <1>3, <1>6, <1>8 DEF AtDescend, Searching
    <3>2. /\ IsFiniteSet(U[t]) /\ IsFiniteSet(U[c]) /\ IsFiniteSet(U[t] \ {t})
          /\ Cardinality(U[t] \ {t}) = Cardinality(U[t]) - 1
      <4>1. IsFiniteSet(U[t])
        BY <1>5, <2>4, FS_Subset
      <4>2. IsFiniteSet(U[c])
        BY <2>4, <4>1, FS_Subset
      <4> QED
        BY <2>4, <4>1, <4>2, FS_RemoveElement
    <3>3. Cardinality(U[c]) <= Cardinality(U[t] \ {t})
      <4>1. U[c] \subseteq U[t] \ {t}
        BY <2>4
      <4> QED
        BY <3>2, <4>1, FS_Subset
    <3>4. ods.reads + Cardinality(U[t]) <= Cardinality(U[root_id])
      <4>1. Searching(L, U) /\ t = cursor
        BY <1>25, <1>3 DEF AtDescend
      <4> QED
        BY <4>1 DEF Searching
    <3>5. /\ Cardinality(U[c]) \in Nat /\ Cardinality(U[t]) \in Nat
          /\ Cardinality(U[root_id]) \in Nat /\ ods.reads \in Nat
      BY <1>5, <3>2, FS_CardinalityType, CountTypes
    <3>6. ods'.reads + Cardinality(U[c]) <= Cardinality(U[root_id])
      BY <1>25, <1>4, <3>2, <3>3, <3>4, <3>5
    <3> QED
      BY <1>1, <1>25, <2>1, <2>4, <3>1, <3>6 DEF Searching
  <2>6. ASSUME call.op = "insert"
        PROVE  /\ Context(L, U, c, stack') /\ RootOf(c, stack') = root_id
               /\ \A i \in DOMAIN stack' : stack'[i].side = Side(stack'[i].node, call.key)
    <3> DEFINE f == [node |-> L[t], side |-> side]
    <3>1. Context(L, U, t, stack) /\ stack' = Append(stack, f) /\ RootOf(t, stack) = root_id
      BY <1>7, <2>6
    <3>3. Context(L, U, c, stack') /\ RootOf(c, stack') = root_id
      <4>1. t # invalid_mask
        BY <1>1, <1>25
      <4>2. f = [node |-> L[t], side |-> side]
        OBVIOUS
      <4> HIDE DEF f, side
      <4> QED
        BY <1>8, <3>1, <4>1, <4>2, ContextExtend
    <3>4. /\ stack \in Seq(Frame) /\ f \in Frame
      BY <1>25, <1>4, <1>8, TypingFacts DEF Stacks, Frame
    <3>5. f.side = Side(f.node, call.key)
      OBVIOUS
    <3> HIDE DEF f
    <3>6. /\ \A i \in 1..Len(stack) : stack'[i] = stack[i]
          /\ stack'[Len(stack) + 1] = f /\ DOMAIN stack = 1..Len(stack) /\ Len(stack) \in Nat
          /\ DOMAIN stack' = 1..(Len(stack) + 1)
      <4>1. /\ \A i \in 1..Len(stack) : stack'[i] = stack[i]
            /\ stack'[Len(stack) + 1] = f /\ Len(stack') = Len(stack) + 1
            /\ stack' \in Seq(Frame)
        BY <3>1, <3>4, AppendProperties
      <4> QED
        BY <3>4, <4>1, LenProperties
    <3>7. \A i \in DOMAIN stack' : i \in DOMAIN stack \/ i = Len(stack) + 1
      BY <3>6
    <3>8. \A i \in DOMAIN stack' : stack'[i].side = Side(stack'[i].node, call.key)
      BY <1>7, <2>6, <3>5, <3>6, <3>7
    <3> QED
      BY <3>3, <3>8
  <2>7. AtDescend(L, U)'
    BY <1>1, <1>25, <2>1, <2>3, <2>5, <2>6 DEF AtDescend
  <2> QED
    BY <2>1, <2>7 DEF SoundAt
<1>9. CASE side = "here" /\ call.op = "find"
  <2>1. pc' = "pad_reads"
    BY <1>25, <1>4, <1>9 DEF Descend, Goto
  <2>2. used' = used
    BY <1>1, <1>25, <1>9, <2>1 DEF used
  <2>3. AtRest(L, U)'
    BY <1>1, <1>25, <1>4, <1>5, <2>2 DEF AtRest
  <2> QED
    BY <2>1, <2>3 DEF SoundAt
<1>10. CASE side = "here" /\ call.op = "insert"
  <2> DEFINE f == [node |-> L[t], side |-> side]
  <2>1. pc' = "ascend"
    BY <1>25, <1>4, <1>10 DEF Descend, Goto
  <2>2. used' \in Nat /\ used <= used'
    BY <1>1, <1>25, <1>2, <1>10, <2>1, TypingFacts DEF used
  <2>3. stack \in Seq(Frame) /\ f \in Frame /\ stack' = Append(stack, f)
    BY <1>25, <1>4, <1>7, <1>10, TypingFacts DEF Stacks, Frame
  <2>4. f.side = "here" /\ f.node = L[t]
    BY <1>10
  <2> HIDE DEF f
  <2>5. /\ stack' \in Seq(Frame) /\ stack' # <<>> /\ Last(stack') = f /\ Front(stack') = stack
    BY <2>3, FrontOfAppend
  <2>6. Spine' = stack
    BY <2>1, <2>4, <2>5 DEF Spine
  <2>7. Focus(dict, used', L, U, t, stack, {}) /\ (stack # <<>> => Base(stack) = Height(L, t))
    <3>1. /\ Focus(dict, used, L, U, t, stack, {})
          /\ stack # <<>> => Base(stack) = Height(L, t)
      BY <1>5, <1>7, <1>10, FocusDown
    <3> QED
      BY <1>2, <2>2, <3>1, FocusMono
  <2>8. Stored(memory, ods', L, U[root_id] \ SpineIds(stack))
    BY <1>25, <1>4, StoredSame
  <2>9. Working(L, U, t, Spine, {})'
    <3>1. t \in Ids /\ U[RootOf(t, stack)] = U[root_id]
      BY <1>7, <1>10, <1>25, TypingFacts
    <3>2. PICK sp : sp = Spine'
      OBVIOUS
    <3>3. t \in Ids /\ t # invalid_mask /\ Focus(dict', used', L, U, t, sp, {})
          /\ Stored(memory', ods', L, U[RootOf(t, sp)] \ SpineIds(sp))
      BY <1>1, <1>25, <2>6, <2>7, <2>8, <3>1, <3>2
    <3> QED
      BY <3>2, <3>3 DEF Working
  <2>10. AtAscend(L, U, t)'
    <3>1. Grown(stack, HEIGHT(L[t]))
      BY <1>1, <1>25, <2>7 DEF Grown, Height
    <3> QED
      BY <1>25, <1>4, <2>4, <2>5, <2>6, <2>9, <3>1 DEF AtAscend
  <2> QED
    BY <2>1, <2>10 DEF SoundAt
<1> QED
  BY <1>2, <1>6, <1>8, <1>9, <1>10

\* Steps that end in a state about which nothing is said.
LEMMA EndSoundly ==
    ASSUME pc' \in {"panicked", "aborted", "garbled", "overflowed"}
    PROVE  Sound'
BY DEF Sound, SoundAt

LEMMA NotFoundSoundly ==
    ASSUME Typing, Counted, Sound, NotFound
    PROVE  Sound'
<1> SUFFICES ASSUME ~dropped', ~ods'.stale
             PROVE  (\E L, U : SoundAt(L, U))'
  BY DEF Sound
<1>1. /\ pc = "descend" /\ pc' = "pad_reads" /\ call.op = "find" /\ call' = call
      /\ node_count' = node_count /\ dropped' = dropped /\ ods' = ods
      /\ memory' = memory /\ root_id' = root_id /\ dict' = dict
  BY DEF NotFound, Kept, Goto
<1>2. PICK L, U : AtDescend(L, U)
  BY <1>1 DEF Sound, SoundAt
<1>3. used' = used
  BY <1>1 DEF used
<1>4. AtRest(L, U)'
  BY <1>1, <1>2, <1>3 DEF AtDescend, AtRest
<1> QED
  BY <1>1, <1>4 DEF SoundAt

LEMMA PlaceSoundly ==
    ASSUME Typing, Counted, Sound, Place
    PROVE  Sound'
<1> SUFFICES ASSUME ~dropped', ~ods'.stale
             PROVE  (\E L, U : SoundAt(L, U))'
  BY DEF Sound
<1>1. /\ pc = "descend" /\ pc' = "ascend" /\ call.op = "insert" /\ cursor = invalid_mask
      /\ dropped' = dropped /\ ods' = Put(ods, Leaf) /\ stack' = stack
      /\ memory' = memory /\ root_id' = root_id
      /\ dict' = [dict EXCEPT ![call.key] = IF @ = None THEN call.val ELSE @]
  BY DEF Place, Kept, Goto, Leaf
<1>2. ~ods.stale
  BY <1>1 DEF Counted, Walking
<1>3. PICK L, U : AtDescend(L, U)
  BY <1>1, <1>2 DEF Sound, SoundAt
<1>4. /\ AtRest(L, U) /\ Searching(L, U)
      /\ Context(L, U, invalid_mask, stack) /\ RootOf(invalid_mask, stack) = root_id
      /\ \A i \in DOMAIN stack : stack[i].side = Side(stack[i].node, call.key)
  BY <1>1, <1>3 DEF AtDescend
<1>5. /\ Leaf \in Node /\ Leaf.id = used + 1 /\ Leaf.id # invalid_mask /\ Leaf.id \in Ids
      /\ Leaf.key = call.key /\ Leaf.val = call.val /\ call.key \in Key
      /\ \A s \in Sides : Leaf.child[s] = invalid_mask /\ Leaf.height[s] = 0
      /\ HEIGHT(Leaf) = 1
  BY <1>1, LeafFacts
<1>6. Top(ods') = Leaf /\ used' = used + 1
  BY PlaceTyping
<1>7. /\ setup \in Setups /\ used \in Nat /\ WorkOK(ods, used)
      /\ dict \in [Key -> Val \cup {None}]
  BY TypingFacts
<1>8. /\ Focus(dict, used, L, U, root_id, <<>>, {}) /\ Stored(memory, ods, L, U[root_id])
      /\ U[invalid_mask] = {}
  BY <1>4, RestFacts
<1>9. \A j \in U[root_id] : L[j].key # Leaf.key
  BY <1>1, <1>4, <1>5, <1>8 DEF Searching
<1>10. \A i \in DOMAIN stack : Under(stack[i].side, Leaf.key, stack[i].node.key)
  <2> SUFFICES ASSUME NEW i \in DOMAIN stack
               PROVE  Under(stack[i].side, Leaf.key, stack[i].node.key)
    OBVIOUS
  <2>1. stack[i].side \in Sides /\ stack[i].node \in Node
    <3>1. stack[i].side \in Sides
      BY <1>4 DEF Context, OnPath
    <3>2. stack[i].node \in Node
      BY <1>4, ContextFacts
    <3> QED
      BY <3>1, <3>2
  <2>2. stack[i].node.key \in Nat /\ Leaf.key \in Nat
    BY <1>5, <2>1, NodeFields
  <2> QED
    BY <1>4, <1>5, <2>1, <2>2 DEF Side, Sides, Under
<1>11. PICK k, m, n, D, r : /\ k = Leaf.id /\ m = used /\ n = Leaf /\ D = dict' /\ r = root_id
  OBVIOUS
<1>12. PICK M, W :
          /\ Focus(D, m + 1, M, W, k, stack, {})
          /\ M[k] = n
          /\ W[RootOf(k, stack)] = U[r] \cup {k}
          /\ \A j \in U[r] : j \notin SpineIds(stack) => M[j] = L[j]
          /\ stack # <<>> => Base(stack) = 0
  <2>1. D = Learned(dict, n)
    BY <1>1, <1>5, <1>11 DEF Learned
  <2>2. IsLeaf(n, k) /\ k = m + 1 /\ k # invalid_mask
    BY <1>5, <1>11 DEF IsLeaf
  <2>3. Focus(dict, m, L, U, r, <<>>, {}) /\ m \in Nat /\ r = RootOf(invalid_mask, stack)
    BY <1>4, <1>7, <1>8, <1>11
  <2>4. Leads(stack, n.key)
    BY <1>10, <1>11 DEF Leads
  <2>5. Absent(L, U[r], n.key)
    BY <1>9, <1>11 DEF Absent
  <2>6. Context(L, U, invalid_mask, stack) /\ dict \in [Key -> Val \cup {None}]
    BY <1>4, <1>7
  <2> QED
    BY ONLY SMTT(30), <2>1, <2>2, <2>3, <2>4, <2>5, <2>6, PlaceFocus
<1>13. Spine' = stack
  <2>1. stack # <<>> => Last(stack).side # "here"
    <3> SUFFICES ASSUME stack # <<>> PROVE Last(stack).side # "here"
      OBVIOUS
    <3>1. Last(stack).side \in Sides
      BY <1>4, PopFacts
    <3> QED
      BY <3>1 DEF Sides
  <2> QED
    BY <1>1, <2>1 DEF Spine
<1>14. Stored(memory, ods', M, (U[r] \cup {k}) \ SpineIds(stack))
  <2>1. Keeps(ods, ods', Leaf) /\ ods.evicted \subseteq ods'.evicted
    <3>1. used + 1 \in Nat /\ WorkOK(ods, used + 1) /\ Leaf.id \in 1..(used + 1)
      BY <1>5, <1>7, WorkMono
    <3> QED
      BY <1>1, <1>5, <1>7, <3>1, PutSound
  <2>2. \A j \in (U[r] \cup {k}) \ SpineIds(stack) :
            j = Leaf.id \/ (j \in U[root_id] /\ M[j] = L[j])
    BY <1>11, <1>12
  <2> QED
    BY <1>8, <1>11, <1>12, <2>1, <2>2, StoredPut
<1>15. Working(M, W, k, Spine, {})'
  <2>1. k \in Ids /\ k # invalid_mask
    BY <1>5, <1>11
  <2>2. PICK sp : sp = stack
    OBVIOUS
  <2>3. Spine' = sp
    BY <1>13, <2>2
  <2>4. Focus(dict', used', M, W, k, sp, {})
    BY <1>6, <1>11, <1>12, <2>2
  <2>5. Stored(memory', ods', M, W[RootOf(k, sp)] \ SpineIds(sp))
    BY <1>1, <1>12, <1>14, <2>2
  <2> QED
    BY <2>1, <2>3, <2>4, <2>5 DEF Working
<1>16. AtAscend(M, W, k)'
  <2>1. Grown(stack, HEIGHT(M[k])) /\ Top(ods') = M[k]
    BY <1>5, <1>6, <1>11, <1>12 DEF Grown
  <2>2. ~(stack' # <<>> /\ Last(stack').side = "here")
    <3> SUFFICES ASSUME stack # <<>> PROVE Last(stack).side # "here"
      BY <1>1
    <3>1. Last(stack).side \in Sides
      BY <1>4, PopFacts
    <3> QED
      BY <3>1 DEF Sides
  <2> QED
    BY <1>13, <1>15, <2>1, <2>2 DEF AtAscend
<1> QED
  BY <1>1, <1>16 DEF SoundAt

LEMMA InsertReturnsSoundly ==
    ASSUME Typing, Sound, InsertReturns
    PROVE  Sound'
<1> SUFFICES ASSUME ~dropped', ~ods'.stale
             PROVE  (\E L, U : SoundAt(L, U))'
  BY DEF Sound
<1>1. /\ pc = "ascend" /\ pc' = "pad_reads" /\ stack = <<>> /\ root_id' = Top(ods).id
      /\ node_count' = node_count /\ dropped' = dropped /\ ods' = ods /\ call' = call
      /\ memory' = memory /\ dict' = dict
  BY DEF InsertReturns, Goto
<1>2. PICK L, U, t : AtAscend(L, U, t)
  BY <1>1 DEF Sound, SoundAt
<1>3. used' = used /\ Spine = <<>> /\ RootOf(t, <<>>) = t /\ SpineIds(<<>>) = {}
  BY <1>1 DEF used, Spine, RootOf, SpineIds
<1>4. /\ Focus(dict, used, L, U, t, <<>>, {}) /\ Stored(memory, ods, L, U[t])
      /\ Top(ods) = L[t] /\ t # invalid_mask
  BY <1>2, <1>3 DEF AtAscend, Working
<1>5. root_id' = t
  BY <1>1, <1>4, FocusFacts
<1>6. AtRest(L, U)'
  BY <1>1, <1>3, <1>4, <1>5 DEF AtRest
<1> QED
  BY <1>1, <1>6 DEF SoundAt

LEMMA PadReadsSoundly ==
    ASSUME Typing, Sound, PadReads
    PROVE  Sound'
<1>1. /\ pc = "pad_reads" /\ pc' \in {"write_back", "panicked", "aborted"}
      /\ ods' = ods /\ dropped' = dropped /\ root_id' = root_id /\ node_count' = node_count
      /\ call' = call /\ dict' = dict
      /\ pc' = "write_back" => memory' = memory
  BY DoPadCases DEF PadReads
<1>2. CASE pc' # "write_back"
  BY <1>1, <1>2, EndSoundly
<1>3. CASE pc' = "write_back"
  <2>1. used' = used
    BY <1>1, <1>3 DEF used
  <2> SUFFICES ASSUME ~dropped', ~ods'.stale
               PROVE  (\E L, U : SoundAt(L, U))'
    BY DEF Sound
  <2>2. PICK L, U : AtRest(L, U)
    BY <1>1 DEF Sound, SoundAt
  <2>3. AtRest(L, U)'
    BY <1>1, <1>3, <2>1, <2>2 DEF AtRest
  <2> QED
    BY <1>3, <2>3 DEF SoundAt
<1> QED
  BY <1>2, <1>3

LEMMA WriteBackSoundly ==
    ASSUME Typing, Sound, WriteBack
    PROVE  Sound'
<1> SUFFICES ASSUME ~dropped', ~ods'.stale
             PROVE  (\E L, U : SoundAt(L, U))'
  BY DEF Sound
<1> DEFINE n == Head(ods.cache)
<1>1. /\ pc = "write_back" /\ pc' = pc /\ root_id' = root_id /\ node_count' = node_count
      /\ call' = call /\ dict' = dict
  BY DEF WriteBack
<1>2. dropped' = dropped /\ memory' = [memory EXCEPT ![n.id] = n]
  <2>1. dropped' # TRUE
    OBVIOUS
  <2>2. dropped \in BOOLEAN
    BY TypingFacts
  <2> QED
    BY <2>1, <2>2 DEF WriteBack
<1>3. /\ n \in Nodes(ods.cache) /\ n.id \in Ids
      /\ Nodes(ods'.cache) = Nodes(ods.cache) \ {n}
      /\ SameCounts(ods, ods') /\ ods'.evicted = ods.evicted /\ used' = used
  BY WriteBackFacts
<1> HIDE DEF n
<1>4. PICK L, U : AtRest(L, U)
  BY <1>1, <1>2, <1>3 DEF Sound, SoundAt, SameCounts
<1>5. /\ memory'[n.id] = n /\ \A j \in Ids : j # n.id => memory'[j] = memory[j]
  BY <1>2, <1>3 DEF Typing, TypeOK
<1>6. /\ Stored(memory, ods, L, U[root_id]) /\ U[root_id] \subseteq Ids
      /\ Focus(dict, used, L, U, root_id, <<>>, {})
  BY <1>4, RestFacts
<1>7. Stored(memory', ods', L, U[root_id])
  <2>1. \A k \in Nodes(ods'.cache) : k.id \in U[root_id] => k = L[k.id]
    BY <1>3, <1>6 DEF Stored
  <2>2. ASSUME NEW j \in U[root_id], ~IsIn(ods'.cache, j), j \notin ods'.evicted
        PROVE  memory'[j] = L[j]
    <3>1. CASE j = n.id
      BY <1>3, <1>5, <1>6, <3>1 DEF Stored
    <3>2. CASE j # n.id
      <4>1. ~IsIn(ods.cache, j)
        BY <1>3, <2>2, <3>2 DEF IsIn
      <4>2. memory[j] = L[j]
        BY <1>3, <1>6, <2>2, <4>1 DEF Stored
      <4> QED
        BY <1>5, <1>6, <3>2, <4>2
    <3> QED
      BY <3>1, <3>2
  <2> QED
    BY <2>1, <2>2 DEF Stored
<1>8. AtRest(L, U)'
  BY <1>1, <1>3, <1>6, <1>7 DEF AtRest
<1> QED
  BY <1>1, <1>8 DEF SoundAt

LEMMA PadWritesSoundly ==
    ASSUME Typing, Sound, PadWrites
    PROVE  Sound'
<1>1. /\ pc = "write_back" /\ pc' \in {"idle", "panicked", "aborted"} /\ ods.cache = <<>>
      /\ ods' = Start /\ dropped' = (dropped \/ ods.evicted # {} \/ ods.stale)
      /\ root_id' = root_id /\ node_count' = node_count /\ call' = call /\ dict' = dict
      /\ pc' = "idle" => memory' = memory
  BY DoPadCases DEF PadWrites
<1>2. CASE pc' # "idle"
  BY <1>1, <1>2, EndSoundly
<1>3. CASE pc' = "idle"
  <2> SUFFICES ASSUME ~dropped', ~ods'.stale
               PROVE  (\E L, U : SoundAt(L, U))'
    BY DEF Sound
  <2>1. used' = used /\ ~dropped /\ ods.evicted = {} /\ ~ods.stale
    BY <1>1, <1>3 DEF used
  <2>2. PICK L, U : AtRest(L, U)
    BY <1>1, <2>1 DEF Sound, SoundAt
  <2>3. /\ Stored(memory, ods, L, U[root_id])
        /\ Focus(dict, used, L, U, root_id, <<>>, {})
    BY <2>2, RestFacts
  <2>4. Nodes(ods.cache) = {}
    BY <1>1 DEF Nodes
  <2>5. \A j \in U[root_id] : memory[j] = L[j]
    BY <2>1, <2>3, <2>4 DEF Stored, IsIn
  <2>6. Nodes(ods'.cache) = {}
    BY <1>1 DEF Nodes, Start
  <2>7. Stored(memory', ods', L, U[root_id])
    BY <1>1, <1>3, <2>5, <2>6 DEF Stored
  <2>8. AtRest(L, U)'
    BY <1>1, <2>1, <2>3, <2>7 DEF AtRest
  <2> QED
    BY <1>3, <2>8 DEF SoundAt
<1> QED
  BY <1>2, <1>3

-------------------------------------------------------------------------------
(* The way back: heights, and rotations. *)

LEMMA HeightOver ==
    ASSUME NEW n \in Node, NEW s \in Sides
    PROVE  HEIGHT(n) = Over(n.height[s], n.height[Other(s)])
<1>1. /\ n.height[s] \in Nat /\ n.height[Other(s)] \in Nat
      /\ n.height["left"] \in Nat /\ n.height["right"] \in Nat
  BY NodeFields, OtherSide DEF Sides
<1>2. CASE s = "left"
  BY <1>1, <1>2 DEF HEIGHT, Over, Other
<1>3. CASE s = "right"
  BY <1>1, <1>3 DEF HEIGHT, Over, Other
<1> QED
  BY <1>2, <1>3 DEF Sides

LEMMA EvenSides ==
    ASSUME NEW n, NEW s \in Sides
    PROVE  Even(n) <=> /\ n.height[s] <= n.height[Other(s)] + 1
                       /\ n.height[Other(s)] <= n.height[s] + 1
<1>1. Sides = {s, Other(s)} /\ Other(Other(s)) = s
  BY OtherSide
<1> QED
  BY <1>1 DEF Even

\* A subtree under an even node has grown by one level at most.
LEMMA AscendHeights ==
    ASSUME NEW b \in Nat, NEW o \in Nat, NEW h \in Nat, h = b \/ h = b + 1,
           b <= o + 1, o <= b + 1
    PROVE  /\ Over(h, o) = Over(b, o) \/ Over(h, o) = Over(b, o) + 1
           /\ h <= o + 2 /\ o <= h + 2
           /\ ~(h <= o + 1 /\ o <= h + 1) => Over(h, o) = Over(b, o) + 1
BY DEF Over

\* Writing a node of the tree.
LEMMA StoredWrite ==
    ASSUME setup \in Setups, NEW m \in Nat, NEW w, WorkOK(w, m), w.bad = "no",
           NEW n \in Node, n.id \in 1..m, NEW v, v = OdsAccessWrite(w, n),
           NEW L, NEW D, Stored(memory, w, L, D), NEW M, M[n.id] = n,
           NEW E, \A j \in E : j = n.id \/ (j \in D /\ M[j] = L[j])
    PROVE  Stored(memory, v, M, E)
<1>1. Keeps(w, v, n) /\ w.evicted \ {n.id} \subseteq v.evicted
  BY ONLY setup \in Setups, m \in Nat, WorkOK(w, m), w.bad = "no", n \in Node, n.id \in 1..m,
          v = OdsAccessWrite(w, n), WriteSound
<1> QED
  BY <1>1, StoredPut

LEMMA FocusUneven ==
    ASSUME NEW d, NEW m, NEW L, NEW U, NEW t, NEW sp, NEW a, Focus(d, m, L, U, t, sp, a),
           NEW b, \A j \in a : j \in b \/ Even(L[j])
    PROVE  Focus(d, m, L, U, t, sp, b)
BY DEF Focus

LEMMA AscendHereSoundly ==
    ASSUME Typing, Ascend, Last(stack).side = "here", NEW L, NEW U, NEW t, AtAscend(L, U, t)
    PROVE  AtBalance(L, U, t)'
<1>1. /\ pc = "ascend" /\ stack # <<>> /\ stack' = Front(stack) /\ dict' = dict
      /\ memory' = memory /\ Spine = stack' /\ Last(stack).node = L[t]
  BY DEF Ascend, Kept, Spine, AtAscend
<1>2. /\ setup \in Setups /\ used \in Nat /\ WorkOK(ods, used) /\ ods.bad = "no"
  BY <1>1, TypingFacts DEF Running
<1>3. /\ ods' = OdsAccessWrite(ods, L[t]) /\ used' = used
  BY <1>1, AscendTyping
<1>4. PICK sp : sp = stack'
  OBVIOUS
<1>5. /\ t \in Ids /\ t # invalid_mask /\ Focus(dict, used, L, U, t, sp, {})
      /\ Stored(memory, ods, L, U[RootOf(t, sp)] \ SpineIds(sp))
      /\ Grown(sp, HEIGHT(L[t]))
  BY <1>1, <1>4 DEF AtAscend, Working
<1>6. L[t] \in Node /\ L[t].id = t /\ Even(L[t]) /\ t \in 1..used
  <2>1. /\ L[t] \in Node /\ L[t].id = t /\ t \in U[RootOf(t, sp)]
        /\ U[RootOf(t, sp)] \subseteq 1..used
    BY <1>5, FocusFacts
  <2>2. Even(L[t])
    BY <1>5, <2>1 DEF Focus
  <2> QED
    BY <2>1, <2>2
<1>7. Top(ods') = L[t]
  BY <1>2, <1>3, <1>6, WriteWork
<1>8. Stored(memory, ods', L, U[RootOf(t, sp)] \ SpineIds(sp))
  BY <1>2, <1>3, <1>5, <1>6, StoredWrite
<1>9. Focus(dict, used, L, U, t, sp, {t})
  BY <1>5, FocusUneven
<1>10. \A s \in Sides : L[t].height[s] <= L[t].height[Other(s)] + 2
  <2> SUFFICES ASSUME NEW s \in Sides PROVE L[t].height[s] <= L[t].height[Other(s)] + 2
    OBVIOUS
  <2>1. L[t].height[s] <= L[t].height[Other(s)] + 1
    BY <1>6 DEF Even
  <2>2. L[t].height[s] \in Nat /\ L[t].height[Other(s)] \in Nat
    BY <1>6, NodeFields, OtherSide
  <2> QED
    BY <2>1, <2>2
<1>11. Working(L, U, t, stack, {t})'
  <2>1. Focus(dict', used', L, U, t, sp, {t})
        /\ Stored(memory', ods', L, U[RootOf(t, sp)] \ SpineIds(sp))
    BY <1>1, <1>3, <1>8, <1>9
  <2> QED
    BY <1>4, <1>5, <2>1 DEF Working
<1> QED
  BY <1>4, <1>5, <1>6, <1>7, <1>10, <1>11 DEF AtBalance

LEMMA AscendAboveSoundly ==
    ASSUME Typing, Ascend, Last(stack).side # "here", NEW L, NEW U, NEW t, AtAscend(L, U, t)
    PROVE  \E M, p : AtBalance(M, U, p)'
<1>1. /\ pc = "ascend" /\ stack # <<>> /\ stack' = Front(stack) /\ dict' = dict
      /\ memory' = memory /\ Spine = stack /\ Top(ods) = L[t]
  BY DEF Ascend, Kept, Spine, AtAscend
<1>2. /\ setup \in Setups /\ used \in Nat /\ WorkOK(ods, used) /\ ods.bad = "no"
  BY <1>1, TypingFacts DEF Running
<1>3. PICK sp, sq : sp = stack /\ sq = stack'
  OBVIOUS
<1>4. PICK p, s, a : p = Last(sp).node.id /\ s = Last(sp).side /\ a = Last(sp).node
  OBVIOUS
<1>5. /\ t \in Ids /\ t # invalid_mask /\ Focus(dict, used, L, U, t, sp, {})
      /\ Stored(memory, ods, L, U[RootOf(t, sp)] \ SpineIds(sp))
      /\ Grown(sp, HEIGHT(L[t]))
  BY <1>1, <1>3 DEF AtAscend, Working
<1>6. PICK r : r = RootOf(t, sp)
  OBVIOUS
<1>7. /\ L[t] \in Node /\ L[t].id = t /\ U[r] \subseteq 1..used
      /\ \A j \in U[r] : L[j] \in Node /\ L[j].id = j /\ j \in Ids /\ j # invalid_mask
      /\ \A j \in U[r] : Even(L[j])
  <2>1. /\ L[t] \in Node /\ L[t].id = t /\ U[r] \subseteq 1..used
        /\ \A j \in U[r] : L[j] \in Node /\ L[j].id = j /\ j \in Ids /\ j # invalid_mask
    BY <1>5, <1>6, FocusFacts
  <2>2. \A j \in U[r] : Even(L[j])
    BY <1>5, <1>6 DEF Focus
  <2> QED
    BY <2>1, <2>2
<1>8. /\ p \in U[r] /\ p # t /\ p # invalid_mask /\ s \in Sides /\ a \in Node
      /\ L[p].height[s] = Base(sp) /\ Base(sp) \in Nat
      /\ L[p].height[Other(s)] \in Nat
      /\ L[p].height[Other(s)] = a.height[Other(s)]
      /\ sq # <<>> => Base(sq) = HEIGHT(L[p])
      /\ RootOf(p, sq) = r /\ SpineIds(sp) = SpineIds(sq) \cup {p}
  BY <1>1, <1>3, <1>4, <1>5, <1>6, BaseFacts
<1>9. PICK n : n = Relinked(a, s, Top(ods))
  OBVIOUS
<1>10. HEIGHT(L[t]) \in Nat
  BY SMTT(30), <1>7, HeightType
<1>11. Relink1(n, a, s, t, HEIGHT(L[t]))
  <2>1. n = [a EXCEPT !.child[s] = t, !.height[s] = HEIGHT(L[t])]
    BY Zenon, <1>1, <1>7, <1>9 DEF Relinked
  <2>2. HEIGHT(L[t]) \in Nat /\ a \in Node /\ s \in Sides /\ t \in Ids
    BY <1>5, <1>8, <1>10
  <2>3. Relink1([a EXCEPT !.child[s] = t, !.height[s] = HEIGHT(L[t])], a, s, t, HEIGHT(L[t]))
    BY ONLY Zenon, <2>2, NodeUpdate
  <2> QED
    BY ONLY Zenon, <2>1, <2>3
<1>12. n \in Node /\ n.id = p /\ n.height[s] = HEIGHT(L[t])
       /\ n.height[Other(s)] = a.height[Other(s)]
  BY <1>4, <1>11 DEF Relink1
<1>13. Linked(n, L, t, sp)
  BY <1>1, <1>3, <1>4, <1>11 DEF Linked
<1>14. PICK M : /\ Focus(dict, used, M, U, p, sq, {p})
                /\ M[p] = n /\ \A j \in U[r] : j # p => M[j] = L[j]
  <2>1. PICK e, q : e = {} /\ q = <<>>
    OBVIOUS
  <2>2. OpenFocus(dict, used, L, U, t, sp, e, q) /\ t # invalid_mask
    BY <1>5, <2>1, OpenToFocus
  <2>7. PICK d, m : d = dict /\ m = used
    OBVIOUS
  <2>8. OpenFocus(d, m, L, U, t, sp, e, q) /\ t # invalid_mask
    BY <2>2, <2>7
  <2>9. \E M : /\ OpenFocus(d, m, M, U, n.id, Front(sp), e \cup {n.id}, q)
               /\ M[n.id] = n /\ \A j \in U[RootOf(t, sp)] : j # n.id => M[j] = L[j]
    BY ONLY <1>13, <2>8, RiseFocus
  <2>3. PICK M : /\ OpenFocus(dict, used, M, U, n.id, Front(sp), e \cup {n.id}, q)
                 /\ M[n.id] = n /\ \A j \in U[RootOf(t, sp)] : j # n.id => M[j] = L[j]
    BY <2>7, <2>9
  <2>4. e \cup {n.id} = {p} /\ Front(sp) = sq /\ n.id = p
    BY <1>1, <1>3, <1>12, <2>1
  <2>5. OpenFocus(dict, used, M, U, p, sq, {p}, q)
    BY <2>3, <2>4
  <2>6. Focus(dict, used, M, U, p, sq, {p})
    BY <2>1, <2>5, OpenToFocus
  <2> QED
    BY <1>6, <1>12, <2>3, <2>4, <2>6
<1>15. ods' = OdsAccessWrite(ods, n) /\ used' = used
  BY <1>3, <1>4, <1>9, AscendTyping
<1>16. p \in 1..used /\ p \in Ids
  BY <1>7, <1>8
<1>17. Top(ods') = n
  BY <1>2, <1>12, <1>15, <1>16, WriteWork
<1>18. Stored(memory, ods', M, U[r] \ SpineIds(sq))
  <2>1. \A j \in U[r] \ SpineIds(sq) :
           j = n.id \/ (j \in U[r] \ SpineIds(sp) /\ M[j] = L[j])
    BY <1>8, <1>12, <1>14
  <2> QED
    BY <1>2, <1>5, <1>6, <1>12, <1>14, <1>15, <1>16, <2>1, StoredWrite
<1>19. Working(M, U, p, stack, {p})'
  <2>1. Focus(dict', used', M, U, p, sq, {p})
        /\ Stored(memory', ods', M, U[RootOf(p, sq)] \ SpineIds(sq))
    BY <1>1, <1>8, <1>14, <1>15, <1>18
  <2> QED
    BY <1>3, <1>8, <1>16, <2>1 DEF Working
<1> DEFINE b == L[p].height[s]
           o == L[p].height[Other(s)]
           h == HEIGHT(L[t])
<1>20. /\ b \in Nat /\ o \in Nat /\ h \in Nat /\ (h = b \/ h = b + 1)
       /\ b <= o + 1 /\ o <= b + 1
       /\ HEIGHT(n) = Over(h, o) /\ (sq # <<>> => Base(sq) = Over(b, o))
       /\ Even(n) <=> h <= o + 1 /\ o <= h + 1
  <2>1. h = b \/ h = b + 1
    BY <1>1, <1>3, <1>5, <1>8 DEF Grown
  <2>2. b <= o + 1 /\ o <= b + 1
    BY <1>7, <1>8, EvenSides
  <2>3. HEIGHT(n) = Over(h, o)
    BY <1>8, <1>12, HeightOver
  <2>4. HEIGHT(L[p]) = Over(b, o)
    BY <1>7, <1>8, HeightOver
  <2>5. Even(n) <=> h <= o + 1 /\ o <= h + 1
    BY <1>8, <1>12, EvenSides
  <2> QED
    BY <1>8, <1>10, <2>1, <2>2, <2>3, <2>4, <2>5
<1> HIDE DEF b, o, h
<1>21. /\ Over(h, o) = Over(b, o) \/ Over(h, o) = Over(b, o) + 1
       /\ h <= o + 2 /\ o <= h + 2
       /\ ~(h <= o + 1 /\ o <= h + 1) => Over(h, o) = Over(b, o) + 1
  BY <1>20, AscendHeights
<1>22. Grown(sq, HEIGHT(M[p])) /\ (~Even(M[p]) => Risen(sq, HEIGHT(M[p])))
  BY <1>14, <1>20, <1>21 DEF Grown, Risen
<1>23. \A z \in Sides : M[p].height[z] <= M[p].height[Other(z)] + 2
  <2>1. n.height[s] = h /\ n.height[Other(s)] = o
    BY <1>8, <1>12 DEF h, o
  <2>2. Sides = {s, Other(s)} /\ Other(Other(s)) = s
    BY <1>8, OtherSide
  <2> QED
    BY <1>14, <1>21, <2>1, <2>2
<1>24. AtBalance(M, U, p)'
  BY <1>3, <1>14, <1>17, <1>19, <1>22, <1>23 DEF AtBalance
<1> QED
  BY <1>24

LEMMA AscendSoundly ==
    ASSUME Typing, Sound, Ascend
    PROVE  Sound'
<1> SUFFICES ASSUME ~dropped', ~ods'.stale
             PROVE  (\E L, U : SoundAt(L, U))'
  BY DEF Sound
<1>1. pc = "ascend" /\ pc' = "balance" /\ dropped' = dropped
  BY DEF Ascend, Kept, Goto
<1>2. ~ods.stale
  <2> DEFINE n == IF Last(stack).side = "here" THEN Last(stack).node
                  ELSE Relinked(Last(stack).node, Last(stack).side, Top(ods))
  <2>1. ods' = OdsAccessWrite(ods, n)
    BY AscendTyping
  <2>2. ods \in Work
    BY TypingFacts DEF WorkOK
  <2> HIDE DEF n
  <2>3. OdsAccessWrite(ods, n).stale = ods.stale
    BY <2>2 DEF OdsAccessWrite, Put, Work
  <2> QED
    BY <2>1, <2>3
<1>3. PICK L, U, t : AtAscend(L, U, t)
  BY <1>1, <1>2 DEF Sound, SoundAt
<1>4. \E M, p : AtBalance(M, U, p)'
  BY <1>3, AscendHereSoundly, AscendAboveSoundly
<1> QED
  BY <1>1, <1>4 DEF SoundAt

LEMMA ProceedFacts ==
    ASSUME Typing, NEW w, NEW rest, Proceed(w, rest), pc \in {"balance", "rotate"}, WorkOK(w, used)
    PROVE  /\ ods' = w /\ tasks' = rest /\ stack' = stack /\ dict' = dict /\ memory' = memory
           /\ dropped' = dropped /\ used' = used
           /\ w.bad # "no" => pc' \in {"aborted", "garbled"}
           /\ w.bad = "no" /\ rest = <<>> => pc' = "ascend"
           /\ w.bad = "no" /\ rest # <<>> => pc' = "rotate"
<1>1. w.bad \in {"no", "aborted", "garbled"}
  BY DEF WorkOK, Work
<1>2. /\ ods' = w /\ tasks' = rest /\ stack' = stack /\ dict' = dict /\ memory' = memory
      /\ dropped' = dropped /\ node_count' = node_count /\ call' = call
      /\ pc' = IF w.bad # "no" THEN w.bad ELSE IF rest = <<>> THEN "ascend" ELSE "rotate"
  BY DEF Proceed, Goto, Kept
<1> HIDE DEF Proceed
<1>3. pc' \in {"aborted", "garbled", "ascend", "rotate"}
  BY <1>1, <1>2
<1>4. used' = used
  BY <1>2, <1>3 DEF used
<1> QED
  BY <1>1, <1>2, <1>4

\* The nodes D of the tree L are well formed, and the children of node t are there.
Reached(L, t, D) ==
    /\ t \in D
    /\ \A j \in D : L[j] \in Node /\ L[j].id = j /\ j \in Ids /\ j # invalid_mask /\ j \in 1..used
    /\ \A s \in Sides : L[t].child[s] # invalid_mask =>
          L[t].child[s] \in D /\ L[t].child[s] # t
    /\ \A s \in Sides : L[t].height[s] = Height(L, L[t].child[s])

\* Everything of a subtree that is done is found in the cache or the memory.
LEMMA WorkingFacts ==
    ASSUME NEW L, NEW U, NEW t, NEW sp, NEW uneven, Working(L, U, t, sp, uneven)
    PROVE  LET D == U[RootOf(t, sp)] \ SpineIds(sp) IN
           /\ Focus(dict, used, L, U, t, sp, uneven) /\ Stored(memory, ods, L, D)
           /\ Reached(L, t, D)
           /\ sp # <<>> => Last(sp).side \in Sides
<1>0. PICK D : D = U[RootOf(t, sp)] \ SpineIds(sp)
  OBVIOUS
<1> USE <1>0
<1> DEFINE r == RootOf(t, sp)
<1>1. /\ t \in Ids /\ t # invalid_mask /\ Focus(dict, used, L, U, t, sp, uneven)
      /\ Stored(memory, ods, L, D)
  BY DEF Working
<1>2. /\ Context(L, U, t, sp) /\ Tree(L, U, r) /\ t \in U[r] /\ U[r] \subseteq 1..used
      /\ SpineIds(sp) \subseteq U[r] \ U[t] /\ t \notin SpineIds(sp)
      /\ \A j \in U[r] : L[j] \in Node /\ L[j].id = j /\ j \in Ids /\ j # invalid_mask
      /\ Tall(L, U[r], sp)
  BY <1>1, FocusFacts
<1> HIDE DEF r
<1>3. ASSUME NEW s \in Sides, NEW c, c = L[t].child[s], c # invalid_mask
      PROVE  c \in D /\ c # t
  <2>1. U[c] \subseteq U[t] /\ c \in U[c] /\ c \in U[r] /\ c # t
    BY <1>2, <1>3, TreeChild
  <2> QED
    BY <1>2, <2>1 DEF r
<1>4. sp # <<>> => Last(sp).side \in Sides /\ Last(sp).node.id # t
  BY <1>2, PopFacts
<1>5. \A s \in Sides : L[t].height[s] = Height(L, L[t].child[s])
  BY <1>2, <1>4 DEF Tall, Opening
<1>6. Reached(L, t, D)
  BY <1>1, <1>2, <1>3, <1>5 DEF Reached, r
<1> QED
  BY <1>1, <1>4, <1>6

\* The heights after a single rotation: a and c are those under the heavy child, d that
\* of the other child.
LEMMA SingleHeights ==
    ASSUME NEW a \in Nat, NEW c \in Nat, NEW d \in Nat, Over(a, c) = d + 2, a >= c, a <= c + 1
    PROVE  /\ c <= d + 1 /\ d <= c + 1 /\ a <= Over(c, d) /\ Over(c, d) <= a + 1
           /\ Over(a, Over(c, d)) = d + 2 \/ Over(a, Over(c, d)) = d + 3
BY DEF Over

\* A heavy node: its heavy child is there, and even.
LEMMA HeavyFacts ==
    ASSUME NEW L, NEW U, NEW t, AtBalance(L, U, t), NEW s \in Sides, Heavy(L[t], s),
           NEW y, y = L[t].child[s]
    PROVE  /\ y # invalid_mask /\ y \in Ids /\ y # t
           /\ L[t].height[s] = L[t].height[Other(s)] + 2
           /\ Over(L[y].height[s], L[y].height[Other(s)]) = L[t].height[Other(s)] + 2
           /\ Even(L[y]) /\ Risen(stack, L[t].height[Other(s)] + 3)
           /\ HEIGHT(L[t]) = L[t].height[Other(s)] + 3
           /\ L[t] \in Node /\ L[y] \in Node
<1>1. Working(L, U, t, stack, {t}) /\ L[t].height[s] <= L[t].height[Other(s)] + 2
      /\ (~Even(L[t]) => Risen(stack, HEIGHT(L[t])))
  BY DEF AtBalance
<1>11. PICK sp : sp = stack
  OBVIOUS
<1>2. PICK D : D = U[RootOf(t, sp)] \ SpineIds(sp)
  OBVIOUS
<1>3. /\ t \in D
      /\ \A j \in D : L[j] \in Node /\ L[j].id = j /\ j \in Ids
      /\ y # invalid_mask => y \in D /\ y # t
      /\ L[t].height[s] = Height(L, y)
      /\ Focus(dict, used, L, U, t, stack, {t})
  <2>1. Working(L, U, t, sp, {t})
    BY <1>1, <1>11
  <2>2. Reached(L, t, D) /\ Focus(dict, used, L, U, t, sp, {t})
    BY ONLY <2>1, <1>2, WorkingFacts
  <2> QED
    BY <1>11, <2>2 DEF Reached
<1>4. L[t].height[s] \in Nat /\ L[t].height[Other(s)] \in Nat
  BY <1>3, NodeFields, OtherSide
<1>5. L[t].height[s] = L[t].height[Other(s)] + 2 /\ ~Even(L[t])
  <2>1. L[t].height[s] > L[t].height[Other(s)] + 1
    BY DEF Heavy
  <2>2. ~Even(L[t])
    BY <1>4, <2>1 DEF Even
  <2> QED
    BY <1>1, <1>4, <2>1, <2>2
<1>6. y # invalid_mask
  BY <1>3, <1>4, <1>5 DEF Height
<1>7. L[y] \in Node /\ HEIGHT(L[y]) = L[t].height[Other(s)] + 2
  BY <1>3, <1>5, <1>6 DEF Height
<1>8. Over(L[y].height[s], L[y].height[Other(s)]) = L[t].height[Other(s)] + 2
  BY <1>7, HeightOver
<1>9. HEIGHT(L[t]) = L[t].height[Other(s)] + 3
  <2>1. HEIGHT(L[t]) = Over(L[t].height[s], L[t].height[Other(s)])
    BY <1>3, HeightOver
  <2> QED
    BY <1>4, <1>5, <2>1 DEF Over
<1>10. Even(L[y])
  <2>1. y \in U[RootOf(t, stack)] \ {t}
    BY <1>2, <1>3, <1>6, <1>11
  <2> QED
    BY <1>3, <2>1 DEF Focus
<1> QED
  BY <1>1, <1>3, <1>5, <1>6, <1>7, <1>8, <1>9, <1>10

LEMMA BalancedSoundly ==
    ASSUME Typing, pc = "balance", NEW L, NEW U, NEW t, AtBalance(L, U, t),
           {s \in Sides : Heavy(L[t], s)} = {}, Proceed(ods, <<>>)
    PROVE  pc' = "ascend" /\ AtAscend(L, U, t)'
<1>1. WorkOK(ods, used) /\ ods.bad = "no"
  BY TypingFacts DEF Running
<1>2. /\ ods' = ods /\ stack' = stack /\ dict' = dict /\ memory' = memory
      /\ used' = used /\ pc' = "ascend"
  BY <1>1, ProceedFacts
<1>3. Working(L, U, t, stack, {t}) /\ Top(ods) = L[t] /\ Grown(stack, HEIGHT(L[t]))
  BY DEF AtBalance
<1>4. PICK sp : sp = stack
  OBVIOUS
<1>5. PICK D : D = U[RootOf(t, sp)] \ SpineIds(sp)
  OBVIOUS
<1>61. /\ Focus(dict, used, L, U, t, sp, {t}) /\ Stored(memory, ods, L, D)
       /\ Reached(L, t, D)
       /\ sp # <<>> => Last(sp).side \in Sides
  BY <1>3, <1>4, <1>5, WorkingFacts
<1>6. /\ t \in D /\ Focus(dict, used, L, U, t, sp, {t}) /\ Stored(memory, ods, L, D)
      /\ t \in Ids /\ t # invalid_mask /\ L[t] \in Node
      /\ sp # <<>> => Last(sp).side \in Sides
  BY <1>61 DEF Reached
<1>7. Even(L[t])
  <2>1. \A s \in Sides : L[t].height[s] \in Nat /\ L[t].height[Other(s)] \in Nat
    BY <1>6, NodeFields, OtherSide
  <2> QED
    BY <2>1 DEF Heavy, Even
<1>8. Focus(dict, used, L, U, t, sp, {})
  BY <1>6, <1>7, FocusUneven
<1>9. Spine' = sp /\ ~(stack' # <<>> /\ Last(stack').side = "here")
  BY <1>2, <1>4, <1>6 DEF Spine, Sides
<1>10. Working(L, U, t, Spine, {})'
  <2>1. Focus(dict', used', L, U, t, sp, {}) /\ Stored(memory', ods', L, D)
    BY <1>2, <1>6, <1>8
  <2> QED
    BY <1>5, <1>6, <1>9, <2>1 DEF Working
<1> QED
  BY <1>2, <1>3, <1>4, <1>9, <1>10 DEF AtAscend

\* Reading a node of the subtree that is done.
LEMMA ReachedRead ==
    ASSUME setup \in Setups, NEW m \in Nat, NEW w, WorkOK(w, m), MemoryOK(m), w.bad = "no",
           NEW L, NEW t, NEW D, Stored(memory, w, L, D), Reached(L, t, D), NEW id \in D,
           NEW v, v = OdsAccessRead(w, id), v.bad = "no", ~v.stale
    PROVE  /\ Top(v) = L[id] /\ Stored(memory, v, L, D) /\ WorkOK(v, m)
<1>1. id \in Ids /\ L[id] \in Node
  BY DEF Reached
<1>2. Top(v) = L[id] /\ Stored(memory, v, L, D)
  BY <1>1, StoredRead
<1>3. WorkOK(v, m)
  BY <1>1, ReadWork
<1> QED
  BY <1>2, <1>3

\* The operation's state while a node is balanced: nothing but the mark is new.
Marked == [ods EXCEPT !.rotated = TRUE]

LEMMA MarkedFacts ==
    ASSUME Typing, pc = "balance", NEW id \in Ids, NEW w, w = OdsAccessRead(Marked, id)
    PROVE  /\ WorkOK(Marked, used) /\ Marked.bad = "no" /\ Marked.stale = ods.stale
           /\ \A L, D : Stored(memory, ods, L, D) => Stored(memory, Marked, L, D)
           /\ WorkOK(w, used) /\ (ods.stale => w.stale)
<1>1. /\ used \in Nat /\ setup \in Setups /\ WorkOK(ods, used) /\ ods.bad = "no" /\ MemoryOK(used)
  BY TypingFacts DEF Running
<1>2. /\ WorkOK(Marked, used) /\ Marked.bad = "no" /\ Marked.stale = ods.stale
      /\ Marked.cache = ods.cache /\ Marked.evicted = ods.evicted
  BY <1>1 DEF WorkOK, Work, Marked
<1>3. \A L, D : Stored(memory, ods, L, D) => Stored(memory, Marked, L, D)
  BY <1>2 DEF Stored
<1> HIDE DEF Marked
<1>4. WorkOK(w, used)
  BY <1>1, <1>2, ReadWork
<1>5. ods.stale => w.stale
  BY <1>1, <1>2, StaleStays
<1> QED
  BY <1>2, <1>3, <1>4, <1>5

LEMMA SingleSoundly ==
    ASSUME Typing, pc = "balance", NEW L, NEW U, NEW t, AtBalance(L, U, t),
           NEW s \in Sides, Heavy(L[t], s), NEW y, y = L[t].child[s],
           NEW w, w = OdsAccessRead(Marked, y), w.bad = "no", ~w.stale,
           Top(w).height[s] >= Top(w).height[Other(s)], Proceed(w, SingleRotation(s, L[t]))
    PROVE  pc' = "rotate" /\ AtLast(L, U, t, Other(s), y)'
<1> DEFINE z == Other(s)
<1>1. /\ y # invalid_mask /\ y \in Ids /\ y # t
      /\ L[t].height[s] = L[t].height[z] + 2
      /\ Over(L[y].height[s], L[y].height[z]) = L[t].height[z] + 2
      /\ Even(L[y]) /\ Risen(stack, L[t].height[z] + 3)
      /\ L[t] \in Node /\ L[y] \in Node
  BY HeavyFacts
<1>2. /\ used \in Nat /\ setup \in Setups /\ MemoryOK(used)
      /\ WorkOK(Marked, used) /\ Marked.bad = "no" /\ WorkOK(w, used)
      /\ \A D : Stored(memory, ods, L, D) => Stored(memory, Marked, L, D)
  BY <1>1, TypingFacts, MarkedFacts
<1>3. PICK sp : sp = stack
  OBVIOUS
<1>4. PICK D : D = U[RootOf(t, sp)] \ SpineIds(sp)
  OBVIOUS
<1>5. Working(L, U, t, sp, {t}) /\ Top(ods) = L[t]
  BY <1>3 DEF AtBalance
<1>6. /\ Focus(dict, used, L, U, t, sp, {t}) /\ Stored(memory, ods, L, D) /\ Reached(L, t, D)
  BY <1>4, <1>5, WorkingFacts
<1>7. t \in D /\ y \in D /\ L[t].id = t /\ t \in Ids /\ t # invalid_mask
  BY <1>1, <1>6 DEF Reached
<1>8. Top(w) = L[y] /\ Stored(memory, w, L, D)
  <2>1. Stored(memory, Marked, L, D)
    BY <1>2, <1>6
  <2> QED
    BY <1>2, <1>6, <1>7, <2>1, ReachedRead
<1>9. /\ ods' = w /\ tasks' = SingleRotation(s, L[t]) /\ stack' = stack /\ dict' = dict
      /\ memory' = memory /\ used' = used /\ pc' = "rotate"
  <2>1. SingleRotation(s, L[t]) # <<>>
    BY DEF SingleRotation
  <2> QED
    BY <1>2, <2>1, ProceedFacts
<1>10. Len(tasks') = 1 /\ Head(tasks').do = z /\ Head(tasks').id = t
  BY <1>7, <1>9 DEF SingleRotation, Task
<1>11. Focus(dict, used, L, U, t, sp, {t, y})
  BY <1>6, FocusUneven
<1>12. Working(L, U, t, stack, {t, y})'
  <2>1. Focus(dict', used', L, U, t, sp, {t, y}) /\ Stored(memory', ods', L, D)
    BY <1>8, <1>9, <1>11
  <2> QED
    BY <1>3, <1>4, <1>7, <1>9, <2>1 DEF Working
<1>13. Other(z) = s /\ z \in Sides
  BY SMTT(30), OtherSide
<1> DEFINE a == L[y].height[s]
           c == L[y].height[z]
           d == L[t].height[z]
<1>14. /\ a \in Nat /\ c \in Nat /\ d \in Nat /\ Over(a, c) = d + 2 /\ a >= c
       /\ a <= c + 1 /\ Risen(stack, d + 3)
  BY <1>1, <1>8, <1>13, NodeFields, EvenSides
<1>15. L[y].height[Other(z)] = a
  BY <1>13
<1> HIDE DEF a, c, d
<1>16. /\ c <= d + 1 /\ d <= c + 1 /\ a <= Over(c, d) /\ Over(c, d) <= a + 1
       /\ Over(a, Over(c, d)) = d + 2 \/ Over(a, Over(c, d)) = d + 3
  BY <1>14, SingleHeights
<1>17. Grown(stack, Over(a, Over(c, d)))
  <2> SUFFICES ASSUME stack # <<>>
               PROVE  LET g == Over(a, Over(c, d)) IN g = Base(stack) \/ g = Base(stack) + 1
    BY DEF Grown
  <2>1. d + 3 = Base(stack) + 1 /\ Base(stack) \in Nat
    <3>1. Base(stack) \in Nat
      BY <1>3, <1>6, BaseFacts
    <3> QED
      BY <1>14, <3>1 DEF Risen
  <2> QED
    BY <1>14, <1>16, <2>1
<1>18. Grown(stack', Over(a, Over(c, d)))
  BY <1>9, <1>17
<1>19. /\ L[y].height[z] = c /\ L[t].height[z] = d /\ y = L[t].child[Other(z)]
  BY <1>13 DEF c, d
<1> HIDE DEF z
<1> QED
  BY <1>1, <1>9, <1>10, <1>12, <1>15, <1>16, <1>18, <1>19 DEF AtLast, z

LEMMA DoubleSoundly ==
    ASSUME Typing, pc = "balance", NEW L, NEW U, NEW t, AtBalance(L, U, t),
           NEW s \in Sides, Heavy(L[t], s), NEW y, y = L[t].child[s],
           NEW w, w = OdsAccessRead(Marked, y), w.bad = "no", ~w.stale,
           ~(Top(w).height[s] >= Top(w).height[Other(s)]),
           NEW v, v = OdsAccessRead(w, t), v.bad = "no", ~v.stale,
           Proceed(v, DoubleRotation(s, L[t]))
    PROVE  pc' = "rotate" /\ AtFirst(L, U, t, s, y)'
<1> DEFINE z == Other(s)
<1>1. /\ y # invalid_mask /\ y \in Ids /\ y # t
      /\ L[t].height[s] = L[t].height[z] + 2
      /\ Even(L[y]) /\ Risen(stack, HEIGHT(L[t]))
      /\ L[t] \in Node /\ L[y] \in Node
  BY HeavyFacts
<1>2. /\ used \in Nat /\ setup \in Setups /\ MemoryOK(used)
      /\ WorkOK(Marked, used) /\ Marked.bad = "no" /\ WorkOK(w, used)
      /\ \A D : Stored(memory, ods, L, D) => Stored(memory, Marked, L, D)
  BY <1>1, TypingFacts, MarkedFacts
<1>3. PICK sp : sp = stack
  OBVIOUS
<1>4. PICK D : D = U[RootOf(t, sp)] \ SpineIds(sp)
  OBVIOUS
<1>5. Working(L, U, t, sp, {t}) /\ Top(ods) = L[t]
  BY <1>3 DEF AtBalance
<1>6. /\ Focus(dict, used, L, U, t, sp, {t}) /\ Stored(memory, ods, L, D) /\ Reached(L, t, D)
  BY <1>4, <1>5, WorkingFacts
<1>7. t \in D /\ y \in D /\ L[t].id = t /\ t \in Ids /\ t # invalid_mask
  BY <1>1, <1>6 DEF Reached
<1>8. Top(w) = L[y] /\ Stored(memory, w, L, D)
  <2>1. Stored(memory, Marked, L, D)
    BY <1>2, <1>6
  <2> QED
    BY <1>2, <1>6, <1>7, <2>1, ReachedRead
<1>9. Stored(memory, v, L, D) /\ WorkOK(v, used)
  BY <1>2, <1>6, <1>7, <1>8, ReachedRead
<1>10. /\ ods' = v /\ tasks' = DoubleRotation(s, L[t]) /\ stack' = stack /\ dict' = dict
       /\ memory' = memory /\ used' = used /\ pc' = "rotate"
  <2>1. DoubleRotation(s, L[t]) # <<>>
    BY DEF DoubleRotation
  <2> QED
    BY <1>9, <2>1, ProceedFacts
<1>11. Working(L, U, t, stack, {t})'
  <2>1. Focus(dict', used', L, U, t, sp, {t}) /\ Stored(memory', ods', L, D)
    BY <1>6, <1>9, <1>10
  <2> QED
    BY <1>3, <1>4, <1>7, <1>10, <2>1 DEF Working
<1>12. L[y].height[z] = L[y].height[s] + 1
  <2>1. L[y].height[z] <= L[y].height[s] + 1 /\ ~(L[y].height[s] >= L[y].height[z])
    BY <1>1, <1>8, EvenSides
  <2>2. L[y].height[z] \in Nat /\ L[y].height[s] \in Nat
    BY <1>1, NodeFields, OtherSide
  <2> QED
    BY <2>1, <2>2
<1> QED
  BY <1>1, <1>10, <1>11, <1>12 DEF AtFirst

LEMMA BalanceSoundly ==
    ASSUME Typing, Sound, Balance
    PROVE  Sound'
<1> DEFINE n == Top(ods)
           heavy == {s \in Sides : Heavy(n, s)}
<1>1. /\ pc = "balance" /\ n \in Node /\ n.id \in Ids /\ setup \in Setups /\ used \in Nat
      /\ WorkOK(ods, used) /\ MemoryOK(used) /\ ods.bad = "no"
  BY BalanceTyping, TypingFacts, NodeFields DEF Balance, Running
<1> HIDE DEF n
<1>2. CASE heavy = {} /\ Proceed(ods, <<>>)
  <2>1. ods' = ods /\ dropped' = dropped
    BY <1>1, <1>2, ProceedFacts
  <2> SUFFICES ASSUME ~dropped', ~ods'.stale
               PROVE  (\E L, U : SoundAt(L, U))'
    BY DEF Sound
  <2>2. PICK L, U, t : AtBalance(L, U, t)
    BY <1>1, <2>1 DEF Sound, SoundAt
  <2>3. n = L[t]
    BY <2>2 DEF AtBalance, n
  <2>4. pc' = "ascend" /\ AtAscend(L, U, t)'
    BY <1>1, <1>2, <2>2, <2>3, BalancedSoundly
  <2> QED
    BY <2>4 DEF SoundAt
<1>3. ASSUME NEW s \in heavy, NEW w, w = OdsAccessRead(Marked, n.child[s]),
             IF Top(w).height[s] >= Top(w).height[Other(s)]
             THEN Proceed(w, SingleRotation(s, n))
             ELSE Proceed(OdsAccessRead(w, n.id), DoubleRotation(s, n))
      PROVE  Sound'
  <2>1. s \in Sides /\ Heavy(n, s) /\ n.child[s] \in Ids
    BY <1>1, NodeFields
  <2>2. WorkOK(w, used) /\ (ods.stale => w.stale)
    BY <1>1, <1>3, <2>1, MarkedFacts
  <2>3. PICK v : v = OdsAccessRead(w, n.id)
    OBVIOUS
  <2>4. WorkOK(v, used) /\ (w.stale => v.stale) /\ (w.bad # "no" => v = w)
    <3>1. CASE w.bad # "no"
      BY <2>2, <2>3, <3>1, BadStays
    <3>2. CASE w.bad = "no"
      BY <1>1, <2>2, <2>3, <3>2, ReadWork, StaleStays
    <3> QED
      BY <3>1, <3>2
  <2>5. PICK x, rest : /\ x = ods' /\ rest = tasks' /\ Proceed(x, rest) /\ WorkOK(x, used)
                       /\ \/ /\ Top(w).height[s] >= Top(w).height[Other(s)]
                             /\ x = w /\ rest = SingleRotation(s, n)
                          \/ /\ ~(Top(w).height[s] >= Top(w).height[Other(s)])
                             /\ x = v /\ rest = DoubleRotation(s, n)
    <3>1. CASE Top(w).height[s] >= Top(w).height[Other(s)]
      <4>1. Proceed(w, SingleRotation(s, n))
        BY <1>3, <3>1
      <4>2. w = ods' /\ SingleRotation(s, n) = tasks'
        BY <4>1 DEF Proceed
      <4> QED
        BY <2>2, <3>1, <4>1, <4>2
    <3>2. CASE ~(Top(w).height[s] >= Top(w).height[Other(s)])
      <4>1. Proceed(v, DoubleRotation(s, n))
        BY <1>3, <2>3, <3>2
      <4>2. v = ods' /\ DoubleRotation(s, n) = tasks'
        BY <4>1 DEF Proceed
      <4> QED
        BY <2>4, <3>2, <4>1, <4>2
    <3> QED
      BY <3>1, <3>2
  <2>6. CASE x.bad # "no"
    <3>1. pc' \in {"aborted", "garbled"}
      BY <1>1, <2>5, <2>6, ProceedFacts
    <3> QED
      BY <3>1, EndSoundly
  <2>7. CASE x.bad = "no"
    <3> SUFFICES ASSUME ~dropped', ~ods'.stale
                 PROVE  (\E L, U : SoundAt(L, U))'
      BY DEF Sound
    <3>1. ~x.stale /\ w.bad = "no" /\ ~w.stale /\ ~ods.stale /\ ~dropped
      <4>1. dropped' = dropped
        BY <1>1, <2>5, ProceedFacts
      <4> QED
        BY <2>2, <2>4, <2>5, <2>7, <4>1
    <3>2. PICK L, U, t : AtBalance(L, U, t)
      BY <1>1, <3>1 DEF Sound, SoundAt
    <3>3. n = L[t] /\ n.id = t
      <4>1. Working(L, U, t, stack, {t}) /\ n = L[t]
        BY <3>2 DEF AtBalance, n
      <4>2. PICK D : D = U[RootOf(t, stack)] \ SpineIds(stack)
        OBVIOUS
      <4>3. Reached(L, t, D)
        BY <4>1, <4>2, WorkingFacts
      <4> QED
        BY <4>1, <4>3 DEF Reached
    <3>4. pc' = "rotate" /\ \E z \in Sides : \E a, b \in Ids :
              AtLast(L, U, a, z, b)' \/ AtFirst(L, U, a, z, b)'
      <4>1. t \in Ids /\ Other(s) \in Sides
        BY <1>1, <2>1, <3>3, OtherSide
      <4>2. PICK y : y = L[t].child[s] /\ y \in Ids
        BY <2>1, <3>3
      <4>3. w = OdsAccessRead(Marked, y) /\ Heavy(L[t], s)
        BY <1>3, <2>1, <3>3, <4>2
      <4>4. CASE Top(w).height[s] >= Top(w).height[Other(s)]
        <5>1. Proceed(w, SingleRotation(s, L[t]))
          BY <2>5, <3>3, <4>4
        <5>2. pc' = "rotate" /\ AtLast(L, U, t, Other(s), y)'
          BY <1>1, <2>1, <3>1, <3>2, <4>2, <4>3, <4>4, <5>1, SingleSoundly
        <5> QED
          BY <4>1, <4>2, <5>2
      <4>5. CASE ~(Top(w).height[s] >= Top(w).height[Other(s)])
        <5>1. Proceed(v, DoubleRotation(s, L[t])) /\ v = OdsAccessRead(w, t)
              /\ v.bad = "no" /\ ~v.stale
          BY <2>3, <2>5, <2>7, <3>1, <3>3, <4>5
        <5>2. pc' = "rotate" /\ AtFirst(L, U, t, s, y)'
          BY <1>1, <2>1, <3>1, <3>2, <4>2, <4>3, <4>5, <5>1, DoubleSoundly
        <5> QED
          BY <2>1, <4>1, <4>2, <5>2
      <4> QED
        BY <4>4, <4>5
    <3>5. AtRotate(L, U)'
      BY <3>4 DEF AtRotate
    <3> QED
      BY <3>4, <3>5 DEF SoundAt
  <2> QED
    BY <2>6, <2>7
<1> QED
  <2>1. Balance => \/ heavy = {} /\ Proceed(ods, <<>>)
                   \/ \E s \in heavy :
                        \E w \in {OdsAccessRead(Marked, n.child[s])} :
                            IF Top(w).height[s] >= Top(w).height[Other(s)]
                            THEN Proceed(w, SingleRotation(s, n))
                            ELSE Proceed(OdsAccessRead(w, n.id), DoubleRotation(s, n))
    BY DEF Balance, Marked, n
  <2> HIDE DEF heavy
  <2> QED
    BY <1>2, <1>3, <2>1

\* The tasks that are left, by name.
LEMMA TaskNames ==
    ASSUME NEW s \in Sides, NEW z \in Sides
    PROVE  Relinking(s) \notin Sides /\ (Relinking(s) = Relinking(z) => s = z)
BY DEF Relinking, Sides

LEMMA RelinkHeights ==
    ASSUME NEW a \in Nat, NEW c \in Nat, NEW d \in Nat, a = d + 1, c <= d, d <= c + 1
    PROVE  /\ c <= d + 1 /\ d <= c + 1 /\ a <= Over(c, d) /\ Over(c, d) <= a + 1
           /\ Over(a, Over(c, d)) = d + 2
BY DEF Over

\* A rotated child z is linked to nobody yet: sp is the path to it, past the node n.
Unlinked(L, U, t, s, z, n, sp) ==
    /\ n \in Node /\ n.id = t /\ sp # <<>> /\ Last(sp).node = n /\ Last(sp).side = s
    /\ Front(sp) = stack
    /\ z \in Ids /\ z # invalid_mask /\ OpenFocus(dict, used, L, U, z, sp, {t, z}, stack)
    /\ Stored(memory, ods, L, U[RootOf(z, sp)] \ SpineIds(sp))
    /\ Top(ods) = L[z]
    /\ L[z] \in Node /\ L[z].id = z /\ z # t /\ z \in U[RootOf(z, sp)]
    /\ t \in U[RootOf(z, sp)] /\ t # invalid_mask /\ t \in 1..used
    /\ RootOf(t, stack) = RootOf(z, sp)
    /\ SpineIds(sp) = SpineIds(stack) \cup {t}

LEMMA SecondFacts ==
    ASSUME Typing, pc = "rotate", NEW L, NEW U, NEW t \in Ids, NEW s \in Sides, NEW z, NEW n,
           AtSecond(L, U, t, s, z, n)
    PROVE  Unlinked(L, U, t, s, z, n, Append(stack, [node |-> n, side |-> s]))
<1>0. PICK sp : sp = Append(stack, [node |-> n, side |-> s])
  OBVIOUS
<1> DEFINE f == [node |-> n, side |-> s]
<1>1. /\ n \in Node /\ n.id = t /\ Top(ods) = L[z]
      /\ Pending(L, U, z, sp, {t, z}, stack)
  BY <1>0 DEF AtSecond
<1>2. f \in Frame /\ f.node = n /\ f.side = s /\ stack \in Seq(Frame) /\ sp = Append(stack, f)
  BY <1>0, <1>1, TypingFacts DEF Frame, Stacks
<1> HIDE DEF f
<1>3. sp # <<>> /\ Last(sp) = f /\ Front(sp) = stack
  BY <1>2, FrontOfAppend
<1>4. /\ z \in Ids /\ z # invalid_mask /\ OpenFocus(dict, used, L, U, z, sp, {t, z}, stack)
      /\ Stored(memory, ods, L, U[RootOf(z, sp)] \ SpineIds(sp))
  BY <1>1 DEF Pending
<1>5. PICK r : r = RootOf(z, sp)
  OBVIOUS
<1>6. /\ Context(L, U, z, sp) /\ U[r] \subseteq 1..used
      /\ L[z] \in Node /\ L[z].id = z /\ z \in U[r]
  BY <1>4, <1>5, OpenFocusFacts
<1>7. /\ RootOf(t, stack) = r /\ t # invalid_mask /\ t \in U[r] /\ t # z
      /\ SpineIds(sp) = SpineIds(stack) \cup {t}
  <2>1. PICK p, q : p = Last(sp).node.id /\ q = Front(sp)
    OBVIOUS
  <2>2. /\ RootOf(p, q) = RootOf(z, sp) /\ p # invalid_mask /\ p \in U[RootOf(z, sp)]
        /\ p # z /\ SpineIds(sp) = SpineIds(q) \cup {p}
    BY ONLY <1>3, <1>6, <2>1, PopFacts
  <2>3. p = t /\ q = stack
    BY <1>1, <1>2, <1>3, <2>1
  <2> QED
    BY <1>5, <2>2, <2>3
<1>8. Unlinked(L, U, t, s, z, n, sp)
  BY <1>1, <1>2, <1>3, <1>4, <1>5, <1>6, <1>7 DEF Unlinked
<1> QED
  BY <1>0, <1>8

LEMMA SecondSoundly ==
    ASSUME Typing, NEW L, NEW U, NEW t \in Ids, NEW s \in Sides, NEW z, NEW n,
           AtSecond(L, U, t, s, z, n), Relink(s)
    PROVE  pc' = "rotate" /\ \E M : AtLast(M, U, t, Other(s), z)'
<1>1. PICK sp : sp = Append(stack, [node |-> n, side |-> s])
  OBVIOUS
<1>2. pc = "rotate"
  BY DEF Relink
<1>3. /\ n \in Node /\ n.id = t /\ sp # <<>> /\ Last(sp).node = n /\ Last(sp).side = s
      /\ Front(sp) = stack
      /\ z \in Ids /\ z # invalid_mask /\ OpenFocus(dict, used, L, U, z, sp, {t, z}, stack)
      /\ Stored(memory, ods, L, U[RootOf(z, sp)] \ SpineIds(sp))
      /\ Top(ods) = L[z]
      /\ L[z] \in Node /\ L[z].id = z /\ z # t /\ z \in U[RootOf(z, sp)]
      /\ t \in U[RootOf(z, sp)] /\ t # invalid_mask /\ t \in 1..used
      /\ RootOf(t, stack) = RootOf(z, sp)
      /\ SpineIds(sp) = SpineIds(stack) \cup {t}
  <2>1. Unlinked(L, U, t, s, z, n, sp)
    BY <1>1, <1>2, SecondFacts
  <2> QED
    BY <2>1 DEF Unlinked
<1>4. /\ tasks = <<Task(Relinking(s), t, n), Task(Other(s), t, n)>>
      /\ n.height[s] = n.height[Other(s)] + 2
      /\ L[z].height[s] = n.height[Other(s)] + 1
      /\ L[z].height[Other(s)] <= n.height[Other(s)]
      /\ n.height[Other(s)] <= L[z].height[Other(s)] + 1
      /\ Risen(stack, n.height[Other(s)] + 3)
  BY DEF AtSecond
<1>5. Head(tasks).node = n /\ Tail(tasks) = <<Task(Other(s), t, n)>>
  <2>1. PICK a, b : a = Task(Relinking(s), t, n) /\ b = Task(Other(s), t, n)
    OBVIOUS
  <2>2. Head(<<a, b>>) = a /\ Tail(<<a, b>>) = <<b>> /\ a.node = n
    BY <2>1 DEF Task
  <2> QED
    BY <1>4, <2>1, <2>2
<1>6. PICK k : k = Relinked(Head(tasks).node, s, Top(ods))
  OBVIOUS
<1>7. ods' = OdsAccessWrite(ods, k) /\ used' = used /\ Relink1(k, n, s, z, HEIGHT(L[z]))
  BY <1>3, <1>5, <1>6, RelinkTyping
<1>8. k \in Node /\ k.id = t /\ k.child[s] = z /\ k.height[s] = HEIGHT(L[z])
      /\ k.height[Other(s)] = n.height[Other(s)]
  BY <1>3, <1>7 DEF Relink1
<1>9. Linked(k, L, z, sp)
  BY <1>3, <1>7 DEF Linked
<1>10. PICK r : r = RootOf(z, sp)
  OBVIOUS
<1>11. PICK M : /\ Focus(dict, used, M, U, t, stack, {t, z})
                /\ M[t] = k /\ \A j \in U[r] : j # t => M[j] = L[j]
  <2>1. PICK e, q, d, m : e = {t, z} /\ q = stack /\ d = dict /\ m = used
    OBVIOUS
  <2>2. OpenFocus(d, m, L, U, z, sp, e, q) /\ z # invalid_mask
    BY <1>3, <2>1
  <2>3. \E M : /\ OpenFocus(d, m, M, U, k.id, Front(sp), e \cup {k.id}, q)
               /\ M[k.id] = k /\ \A j \in U[RootOf(z, sp)] : j # k.id => M[j] = L[j]
    BY ONLY <1>9, <2>2, RiseFocus
  <2>4. e \cup {k.id} = {t, z} /\ Front(sp) = stack /\ k.id = t
    BY <1>3, <1>8, <2>1
  <2>5. PICK M : /\ OpenFocus(dict, used, M, U, t, stack, {t, z}, stack)
                 /\ M[t] = k /\ \A j \in U[r] : j # t => M[j] = L[j]
    BY <1>10, <2>1, <2>3, <2>4
  <2>6. Focus(dict, used, M, U, t, stack, {t, z})
    BY <2>5, OpenToFocus
  <2> QED
    BY <2>5, <2>6
<1>12. /\ setup \in Setups /\ used \in Nat /\ WorkOK(ods, used) /\ ods.bad = "no"
  BY <1>2, TypingFacts DEF Running
<1>13. WorkOK(ods', used) /\ ods'.bad = "no"
  BY <1>3, <1>7, <1>8, <1>12, WriteWork
<1>14. Stored(memory, ods', M, U[r] \ SpineIds(stack))
  <2>1. \A j \in U[r] \ SpineIds(stack) :
           j = k.id \/ (j \in U[r] \ SpineIds(sp) /\ M[j] = L[j])
    BY <1>3, <1>8, <1>11
  <2>2. Stored(memory, ods, L, U[r] \ SpineIds(sp)) /\ M[k.id] = k /\ k.id \in 1..used
    BY <1>3, <1>8, <1>10, <1>11
  <2> QED
    BY <1>7, <1>8, <1>12, <2>1, <2>2, StoredWrite
<1>15. /\ tasks' = Tail(tasks) /\ stack' = stack /\ dict' = dict /\ memory' = memory
       /\ pc' = "rotate"
  <2>1. Proceed(ods', Tail(tasks))
    BY <1>6, <1>7 DEF Relink
  <2>2. Tail(tasks) # <<>>
    BY <1>5
  <2>3. PICK w, rest : w = ods' /\ rest = Tail(tasks)
    OBVIOUS
  <2>4. Proceed(w, rest) /\ WorkOK(w, used) /\ w.bad = "no" /\ rest # <<>>
    BY <1>7, <1>13, <2>1, <2>2, <2>3
  <2>5. /\ tasks' = rest /\ stack' = stack /\ dict' = dict /\ memory' = memory
        /\ pc' = "rotate"
    BY <1>2, <2>4, ProceedFacts
  <2> QED
    BY <2>3, <2>5
<1>16. Working(M, U, t, stack, {t, z})'
  <2>1. PICK sq : sq = stack
    OBVIOUS
  <2>2. Focus(dict', used', M, U, t, sq, {t, z})
        /\ Stored(memory', ods', M, U[RootOf(t, sq)] \ SpineIds(sq))
    BY <1>3, <1>7, <1>10, <1>11, <1>14, <1>15, <2>1
  <2> QED
    BY <1>3, <1>15, <2>1, <2>2 DEF Working
<1>17. Len(tasks') = 1 /\ Head(tasks').do = Other(s) /\ Head(tasks').id = t
  <2>1. PICK b : b = Task(Other(s), t, n)
    OBVIOUS
  <2>2. b.do = Other(s) /\ b.id = t /\ Len(<<b>>) = 1 /\ Head(<<b>>) = b
    BY <2>1 DEF Task
  <2> QED
    BY <1>5, <1>15, <2>1, <2>2
<1> DEFINE a == L[z].height[s]
           c == L[z].height[Other(s)]
           d == n.height[Other(s)]
<1>18. /\ a \in Nat /\ c \in Nat /\ d \in Nat /\ a = d + 1 /\ c <= d /\ d <= c + 1
       /\ Risen(stack, d + 3)
  BY <1>3, <1>4, NodeFields, OtherSide
<1>19. M[z].height[s] = a /\ M[z].height[Other(s)] = c /\ M[t].height[Other(s)] = d
       /\ M[t].child[s] = z /\ Other(Other(s)) = s
  BY <1>3, <1>8, <1>10, <1>11, OtherSide
<1> HIDE DEF a, c, d
<1>20. /\ c <= d + 1 /\ d <= c + 1 /\ a <= Over(c, d) /\ Over(c, d) <= a + 1
       /\ Over(a, Over(c, d)) = d + 2
  BY <1>18, RelinkHeights
<1>21. Grown(stack, d + 2)
  <2> SUFFICES ASSUME stack # <<>> PROVE d + 2 = Base(stack)
    BY DEF Grown
  <2>1. d + 3 = Base(stack) + 1
    BY <1>18 DEF Risen
  <2>2. Base(stack) \in Nat
    BY <1>11, BaseFacts
  <2> QED
    BY <1>18, <2>1, <2>2
<1>22. Grown(stack', Over(a, Over(c, d)))
  BY <1>15, <1>20, <1>21
<1>23. AtLast(M, U, t, Other(s), z)'
  <2>1. PICK g : g = Other(s)
    OBVIOUS
  <2>2. /\ M[z].height[Other(g)] = a /\ M[z].height[g] = c /\ M[t].height[g] = d
        /\ z = M[t].child[Other(g)] /\ Head(tasks').do = g
    BY SMTT(30), <1>17, <1>19, <2>1
  <2>3. AtLast(M, U, t, g, z)'
    BY <1>3, <1>16, <1>17, <1>20, <1>22, <2>2 DEF AtLast
  <2> QED
    BY <2>1, <2>3
<1> QED
  BY <1>15, <1>23

LEMMA RelinkSoundly ==
    ASSUME Typing, Sound, NEW side \in Sides, Relink(side)
    PROVE  Sound'
<1> SUFFICES ASSUME ~dropped', ~ods'.stale
             PROVE  (\E L, U : SoundAt(L, U))'
  BY DEF Sound
<1>1. pc = "rotate" /\ dropped' = dropped /\ Head(tasks).do = Relinking(side)
  BY DEF Relink, Proceed
<1>2. ~ods.stale
  <2> DEFINE n == Relinked(Head(tasks).node, side, Top(ods))
  <2>1. ods' = OdsAccessWrite(ods, n)
    BY RelinkTyping
  <2>2. ods \in Work
    BY TypingFacts DEF WorkOK
  <2> HIDE DEF n
  <2>3. OdsAccessWrite(ods, n).stale = ods.stale
    BY <2>2 DEF OdsAccessWrite, Put, Work
  <2> QED
    BY <2>1, <2>3
<1>3. PICK L, U : AtRotate(L, U)
  BY <1>1, <1>2 DEF Sound, SoundAt
<1>4. PICK s \in Sides, t \in Ids, y \in Ids :
         \/ AtLast(L, U, t, s, y)
         \/ AtFirst(L, U, t, s, y)
         \/ \E n : AtSecond(L, U, t, s, y, n)
  BY <1>3 DEF AtRotate
<1>5. Head(tasks).do \notin Sides
  BY <1>1, TaskNames
<1>6. ~AtLast(L, U, t, s, y)
  BY <1>5 DEF AtLast
<1>7. ~AtFirst(L, U, t, s, y)
  <2> SUFFICES ASSUME AtFirst(L, U, t, s, y) PROVE FALSE
    OBVIOUS
  <2>1. Head(tasks).do = s
    BY DEF AtFirst, DoubleRotation, Task
  <2> QED
    BY <1>5, <2>1
<1>8. PICK n : AtSecond(L, U, t, s, y, n)
  BY <1>4, <1>6, <1>7
<1>9. s = side
  <2>1. Head(tasks).do = Relinking(s)
    BY <1>8 DEF AtSecond, Task
  <2> QED
    BY <1>1, <2>1, TaskNames
<1>10. PICK M : pc' = "rotate" /\ AtLast(M, U, t, Other(s), y)'
  BY <1>8, <1>9, SecondSoundly
<1>11. AtRotate(M, U)'
  BY <1>10, OtherSide DEF AtRotate
<1> QED
  BY <1>10, <1>11 DEF SoundAt

\* A rotation to side s at node x of the tree L, whose nodes D are found, with child y: the
\* nodes it makes, and what of a tree M is found after it.
Rotated(L, D, x, y, s, down, up, w) ==
    /\ Relink1(down, L[x], Other(s), L[y].child[s], L[y].height[s])
    /\ Relink1(up, L[y], s, x, HEIGHT(down))
    /\ Top(w) = up
    /\ \A M, E : /\ M[x] = down /\ M[y] = up
                 /\ \A j \in E : j \in {x, y} \/ (j \in D /\ M[j] = L[j])
                 => Stored(memory, w, M, E)

\* Reads that have gone well have read nothing evicted.
LEMMA RotationStale ==
    ASSUME Typing, pc = "rotate", NEW s \in Sides, NEW x \in Ids,
           NEW w1, NEW w2, NEW down, NEW w3, NEW up, NEW w4,
           RotateSteps(s, x, ods, w1, w2, down, w3, up, w4), w4.bad = "no", ~w4.stale
    PROVE  /\ w1.bad = "no" /\ w2.bad = "no" /\ w3.bad = "no" /\ ~w1.stale /\ ~w2.stale /\ ~ods.stale
           /\ WorkOK(w1, used) /\ WorkOK(w2, used) /\ WorkOK(w3, used)
           /\ down \in Node /\ up \in Node /\ down.id \in 1..used /\ up.id \in 1..used
<1>1. /\ used \in Nat /\ setup \in Setups /\ ods.bad = "no" /\ WorkOK(ods, used) /\ MemoryOK(used)
  BY TypingFacts DEF Running
<1>2. /\ WorkOK(w1, used) /\ WorkOK(w2, used) /\ WorkOK(w3, used)
      /\ w1.bad = "no" /\ w2.bad = "no"
  BY <1>1, RotationWork
<1>3. /\ Top(w1) \in Node /\ Top(w1).id = x /\ x \in 1..used /\ Top(w1).child[Other(s)] \in Ids
      /\ Top(w2) \in Node /\ Top(w2).id \in 1..used
      /\ Relink1(down, Top(w1), Other(s), Top(w2).child[s], Top(w2).height[s])
      /\ Relink1(up, Top(w2), s, x, HEIGHT(down)) /\ w3.bad = "no"
  BY <1>1, <1>2, RotationWork
<1>4. down \in Node /\ up \in Node /\ down.id \in 1..used /\ up.id \in 1..used
  BY SMTT(30), <1>3 DEF Relink1
<1>5. /\ w1 = OdsAccessRead(ods, x) /\ w2 = OdsAccessRead(w1, Top(w1).child[Other(s)])
      /\ w3 = OdsAccessWrite(w2, down) /\ w4 = OdsAccessWrite(w3, up)
  BY Zenon DEF RotateSteps
<1>6. w3.stale = w2.stale
  <2>1. setup \in Setups /\ used \in Nat /\ WorkOK(w2, used) /\ down \in Node /\ down.id \in 1..used
    BY <1>1, <1>2, <1>4
  <2>2. w3 = OdsAccessWrite(w2, down)
    BY Zenon DEF RotateSteps
  <2>3. OdsAccessWrite(w2, down).stale = w2.stale
    BY ONLY <2>1, WriteStale
  <2> QED
    BY ONLY Zenon, <2>2, <2>3
<1>7. w4.stale = w3.stale
  <2>1. setup \in Setups /\ used \in Nat /\ WorkOK(w3, used) /\ up \in Node /\ up.id \in 1..used
    BY <1>1, <1>2, <1>4
  <2>2. w4 = OdsAccessWrite(w3, up)
    BY Zenon DEF RotateSteps
  <2>3. OdsAccessWrite(w3, up).stale = w3.stale
    BY ONLY <2>1, WriteStale
  <2> QED
    BY ONLY Zenon, <2>2, <2>3
<1>8. w1.stale => w2.stale
  <2>1. /\ setup \in Setups /\ used \in Nat /\ WorkOK(w1, used) /\ MemoryOK(used)
        /\ Top(w1).child[Other(s)] \in Ids
    BY <1>1, <1>2, <1>3
  <2>2. w2 = OdsAccessRead(w1, Top(w1).child[Other(s)])
    BY Zenon DEF RotateSteps
  <2> QED
    BY ONLY Zenon, <2>1, <2>2, StaleStays
<1>9. ods.stale => w1.stale
  BY <1>1, <1>5, StaleStays
<1> QED
  BY <1>2, <1>3, <1>4, <1>6, <1>7, <1>8, <1>9

LEMMA RotationMade ==
    ASSUME Typing, pc = "rotate", NEW L, NEW t, NEW D, Stored(memory, ods, L, D),
           Reached(L, t, D), NEW s \in Sides, NEW x \in D, NEW y \in D,
           y = L[x].child[Other(s)],
           NEW w1, NEW w2, NEW down, NEW w3, NEW up, NEW w4,
           RotateSteps(s, x, ods, w1, w2, down, w3, up, w4), w4.bad = "no", ~w4.stale
    PROVE  Rotated(L, D, x, y, s, down, up, w4)
<1>1. /\ used \in Nat /\ setup \in Setups /\ ods.bad = "no" /\ WorkOK(ods, used) /\ MemoryOK(used)
  BY TypingFacts DEF Running
<1>2. x \in Ids /\ L[x].id = x /\ L[y].id = y
  BY DEF Reached
<1>3. /\ w1.bad = "no" /\ w2.bad = "no" /\ w3.bad = "no" /\ ~w1.stale /\ ~w2.stale
      /\ WorkOK(w1, used) /\ WorkOK(w2, used) /\ WorkOK(w3, used)
      /\ down \in Node /\ up \in Node /\ down.id \in 1..used /\ up.id \in 1..used
  BY SMTT(30), <1>2, RotationStale
<1>4. /\ w1 = OdsAccessRead(ods, x) /\ w2 = OdsAccessRead(w1, Top(w1).child[Other(s)])
      /\ w3 = OdsAccessWrite(w2, down) /\ w4 = OdsAccessWrite(w3, up)
  BY Zenon DEF RotateSteps
<1>5. Top(w1) = L[x] /\ Stored(memory, w1, L, D)
  BY <1>1, <1>3, <1>4, ReachedRead
<1>6. Top(w2) = L[y] /\ Stored(memory, w2, L, D)
  <2>1. w2 = OdsAccessRead(w1, y)
    BY <1>4, <1>5
  <2> QED
    BY <1>1, <1>3, <1>5, <2>1, ReachedRead
<1>7. /\ Relink1(down, L[x], Other(s), L[y].child[s], L[y].height[s])
      /\ Relink1(up, L[y], s, x, HEIGHT(down)) /\ Top(w4) = up
  <2>1. /\ Relink1(down, Top(w1), Other(s), Top(w2).child[s], Top(w2).height[s])
        /\ Relink1(up, Top(w2), s, x, HEIGHT(down)) /\ Top(w4) = up
    BY <1>1, <1>2, <1>3, RotationWork
  <2> QED
    BY <1>5, <1>6, <2>1
<1>8. down.id = x /\ up.id = y
  BY <1>2, <1>7 DEF Relink1
<1>9. ASSUME NEW M, NEW E,
             M[x] = down /\ M[y] = up
             /\ \A j \in E : j \in {x, y} \/ (j \in D /\ M[j] = L[j])
      PROVE  Stored(memory, w4, M, E)
  <2>1. PICK F : F = E \ {y}
    OBVIOUS
  <2>2. M[down.id] = down /\ \A j \in F : j = down.id \/ (j \in D /\ M[j] = L[j])
    BY <1>8, <1>9, <2>1
  <2>3. Stored(memory, w3, M, F)
    BY <1>1, <1>3, <1>4, <1>6, <2>2, StoredWrite
  <2>4. M[up.id] = up /\ \A j \in E : j = up.id \/ (j \in F /\ M[j] = M[j])
    BY <1>8, <1>9, <2>1
  <2> QED
    BY <1>1, <1>3, <1>4, <2>3, <2>4, StoredWrite
<1> QED
  BY <1>7, <1>9 DEF Rotated

\* The tree after a rotation on the path sp, and what of it is found.
Turned(d, m, U, x, y, sp, uneven, rim, down, up, w) ==
    \E M, W :
        /\ OpenFocus(d, m, M, W, y, sp, uneven \cup {x, y}, rim)
        /\ M[x] = down /\ M[y] = up
        /\ W[RootOf(y, sp)] = U[RootOf(x, sp)]
        /\ Stored(memory, w, M, W[RootOf(y, sp)] \ SpineIds(sp))

Covers(D, U, x, sp) == U[RootOf(x, sp)] \ SpineIds(sp) \subseteq D

LEMMA RotateSpine ==
    ASSUME NEW d, NEW m, NEW L, NEW U, NEW x, NEW sp, NEW uneven, NEW rim,
           OpenFocus(d, m, L, U, x, sp, uneven, rim), x # invalid_mask, Within(rim, sp),
           NEW s \in Sides, NEW y, y = L[x].child[Other(s)], y # invalid_mask,
           NEW D, Covers(D, U, x, sp),
           NEW down, NEW up, NEW w, Rotated(L, D, x, y, s, down, up, w)
    PROVE  Turned(d, m, U, x, y, sp, uneven, rim, down, up, w)
<1>1. /\ Relink1(down, L[x], Other(s), L[y].child[s], L[y].height[s])
      /\ Relink1(up, L[y], s, x, HEIGHT(down))
  BY DEF Rotated
<1>2. Turn(d, m, L, U, x, y, sp, uneven, rim, down, up)
  BY <1>1, RotateFocus
<1>3. PICK M, W :
              /\ OpenFocus(d, m, M, W, y, sp, uneven \cup {x, y}, rim)
              /\ M[x] = down /\ M[y] = up
              /\ W[RootOf(y, sp)] = U[RootOf(x, sp)]
              /\ \A j \in U[RootOf(x, sp)] :
                    j \notin {x, y} /\ j \notin SpineIds(sp) => M[j] = L[j]
  BY <1>2 DEF Turn
<1>4. PICK E : E = U[RootOf(x, sp)] \ SpineIds(sp)
  OBVIOUS
<1>5. \A j \in E : j \in {x, y} \/ (j \in D /\ M[j] = L[j])
  BY <1>3, <1>4 DEF Covers
<1>6. Stored(memory, w, M, E)
  BY <1>3, <1>5 DEF Rotated
<1>7. Stored(memory, w, M, W[RootOf(y, sp)] \ SpineIds(sp))
  BY <1>3, <1>4, <1>6
<1> QED
  BY <1>3, <1>7 DEF Turned

\* The heights of the nodes that a rotation makes.
LEMMA RotatedHeights ==
    ASSUME NEW L, NEW D, NEW x, NEW y, NEW s \in Sides, NEW down, NEW up, NEW w,
           Rotated(L, D, x, y, s, down, up, w)
    PROVE  /\ down \in Node /\ up \in Node /\ up.id = L[y].id
           /\ down.height[s] = L[x].height[s] /\ down.height[Other(s)] = L[y].height[s]
           /\ HEIGHT(down) = Over(L[y].height[s], L[x].height[s])
           /\ up.height[s] = HEIGHT(down) /\ up.height[Other(s)] = L[y].height[Other(s)]
           /\ HEIGHT(up) = Over(L[y].height[Other(s)], HEIGHT(down))
<1>1. /\ Relink1(down, L[x], Other(s), L[y].child[s], L[y].height[s])
      /\ Relink1(up, L[y], s, x, HEIGHT(down))
  BY DEF Rotated
<1>2. Other(s) \in Sides /\ Other(Other(s)) = s
  BY OtherSide
<1>3. /\ down \in Node /\ up \in Node /\ up.id = L[y].id
      /\ down.height[s] = L[x].height[s] /\ down.height[Other(s)] = L[y].height[s]
      /\ up.height[s] = HEIGHT(down) /\ up.height[Other(s)] = L[y].height[Other(s)]
  BY <1>1, <1>2 DEF Relink1
<1>4. HEIGHT(down) = Over(down.height[Other(s)], down.height[s])
  BY <1>2, <1>3, HeightOver
<1>5. HEIGHT(up) = Over(up.height[Other(s)], up.height[s])
  BY <1>2, <1>3, HeightOver
<1> QED
  BY <1>3, <1>4, <1>5

LEMMA LastSoundly ==
    ASSUME Typing, pc = "rotate", NEW L, NEW U, NEW t, NEW s \in Sides, NEW y,
           AtLast(L, U, t, s, y), NEW down, NEW up, NEW w,
           Rotated(L, U[RootOf(t, stack)] \ SpineIds(stack), t, y, s, down, up, w),
           WorkOK(w, used), w.bad = "no", Proceed(w, Tail(tasks))
    PROVE  pc' = "ascend" /\ \E M, W : AtAscend(M, W, y)'
<1>1. PICK sp : sp = stack
  OBVIOUS
<1>2. PICK D : D = U[RootOf(t, sp)] \ SpineIds(sp)
  BY Zenon
<1>3. Working(L, U, t, sp, {t, y}) /\ y = L[t].child[Other(s)] /\ y # invalid_mask
  BY Zenon, <1>1 DEF AtLast
<1>4. /\ Focus(dict, used, L, U, t, sp, {t, y}) /\ Reached(L, t, D)
      /\ sp # <<>> => Last(sp).side \in Sides
  BY <1>2, <1>3, WorkingFacts
<1>5. Rotated(L, D, t, y, s, down, up, w)
  BY <1>1, <1>2
<1>6. t \in D /\ t # invalid_mask /\ y \in D /\ y \in Ids /\ L[y] \in Node /\ L[t] \in Node
  BY <1>3, <1>4, OtherSide DEF Reached
<1>7. PICK e, d, m, a : e = <<>> /\ d = dict /\ m = used /\ a = {t, y}
  OBVIOUS
<1>8. OpenFocus(d, m, L, U, t, sp, a, e) /\ Within(e, sp)
  BY <1>4, <1>7, OpenToFocus DEF Within
<1>9. Turned(d, m, U, t, y, sp, a, e, down, up, w)
  <2>1. Covers(D, U, t, sp)
    BY <1>2 DEF Covers
  <2> QED
    BY ONLY <1>3, <1>5, <1>6, <1>8, <2>1, s \in Sides, RotateSpine
<1>10. PICK M, W :
              /\ OpenFocus(d, m, M, W, y, sp, a \cup {t, y}, e)
              /\ M[t] = down /\ M[y] = up
              /\ W[RootOf(y, sp)] = U[RootOf(t, sp)]
              /\ Stored(memory, w, M, W[RootOf(y, sp)] \ SpineIds(sp))
  BY Zenon, <1>9 DEF Turned
<1> DEFINE g == L[y].height[s]
           b == L[t].height[s]
           c == L[y].height[Other(s)]
<1>11. /\ g \in Nat /\ b \in Nat /\ c \in Nat
       /\ g <= b + 1 /\ b <= g + 1 /\ c <= Over(g, b) /\ Over(g, b) <= c + 1
       /\ Grown(stack, Over(c, Over(g, b)))
  BY Zenon, <1>6, NodeFields, OtherSide DEF AtLast
<1>12. /\ down \in Node /\ up \in Node /\ down.height[s] = b /\ down.height[Other(s)] = g
       /\ up.height[s] = Over(g, b) /\ up.height[Other(s)] = c
       /\ HEIGHT(up) = Over(c, Over(g, b))
  BY <1>5, RotatedHeights
<1> HIDE DEF g, b, c
<1>13. Even(down) /\ Even(up)
  <2>1. c <= Over(g, b) + 1
    BY <1>11 DEF Over
  <2> QED
    BY <1>11, <1>12, <2>1, EvenSides
<1>14. Focus(d, m, M, W, y, sp, a \cup {t, y})
  BY <1>7, <1>10, OpenToFocus
<1>15. Focus(d, m, M, W, y, sp, {})
  BY <1>7, <1>10, <1>13, <1>14, FocusUneven
<1>16. Tail(tasks) = <<>>
  <2>1. tasks \in Seq(Tasks) /\ Len(tasks) = 1
    BY Zenon, TypingFacts DEF AtLast
  <2>2. Tail(tasks) \in Seq(Tasks) /\ Len(Tail(tasks)) = 0
    BY <2>1
  <2> QED
    BY Zenon, <2>2, EmptySeq
<1>17. /\ ods' = w /\ stack' = sp /\ dict' = d /\ memory' = memory /\ used' = m /\ pc' = "ascend"
  <2>1. Proceed(w, <<>>)
    BY <1>16
  <2> QED
    BY <1>1, <1>7, <2>1, ProceedFacts
<1>18. Spine' = sp /\ ~(stack' # <<>> /\ Last(stack').side = "here")
  BY <1>4, <1>17 DEF Spine, Sides
<1>19. Working(M, W, y, Spine, {})'
  BY <1>3, <1>6, <1>10, <1>15, <1>17, <1>18 DEF Working
<1>20. Grown(sp, HEIGHT(M[y])) /\ Top(w) = M[y]
  BY <1>1, <1>5, <1>10, <1>11, <1>12 DEF Rotated
<1>21. AtAscend(M, W, y)'
  BY <1>17, <1>18, <1>19, <1>20 DEF AtAscend
<1> QED
  BY <1>17, <1>21

\* The heights at a double rotation: a and b are those under the heavy child, p and q those
\* under its own heavy child, e and d those of the node.
LEMMA FirstHeights ==
    ASSUME NEW a \in Nat, NEW b \in Nat, NEW d \in Nat, NEW e \in Nat, NEW p \in Nat, NEW q \in Nat,
           e = d + 2, e = Over(a, b), b = a + 1, b = Over(p, q), p <= q + 1, q <= p + 1
    PROVE  /\ a = d /\ b = d + 1 /\ Over(p, a) = d + 1 /\ q <= d /\ d <= q + 1
           /\ a <= p + 1 /\ p <= a + 1 /\ Over(e, d) = d + 3
BY DEF Over

LEMMA OpenFocusUneven ==
    ASSUME NEW d, NEW m, NEW L, NEW U, NEW t, NEW sp, NEW a, NEW rim,
           OpenFocus(d, m, L, U, t, sp, a, rim),
           NEW b, \A j \in a : j \in b \/ Even(L[j])
    PROVE  OpenFocus(d, m, L, U, t, sp, b, rim)
<1>1. PICK T : T = U[RootOf(t, sp)]
  OBVIOUS
<1>2. /\ Context(L, U, t, sp) /\ Holds(d, L, T) /\ Loose(L, T, sp, rim)
      /\ \A j \in T \ a : Even(L[j])
      /\ T \subseteq 1..m
  BY <1>1 DEF OpenFocus
<1>3. \A j \in T \ b : Even(L[j])
  BY <1>2
<1> QED
  BY <1>1, <1>2, <1>3 DEF OpenFocus

\* The heavy child y is the root of the subtree that is done, and its parent t the last
\* node of the path sp.
LEMMA DownFacts ==
    ASSUME NEW d, NEW m, NEW L, NEW U, NEW t, NEW sq, NEW a, Focus(d, m, L, U, t, sq, a),
           t # invalid_mask, NEW s \in Sides, NEW y, y = L[t].child[s], y # invalid_mask
    PROVE  LET sp == Append(sq, [node |-> L[t], side |-> s]) IN
           /\ OpenFocus(d, m, L, U, y, sp, a, sq) /\ RootOf(y, sp) = RootOf(t, sq)
           /\ SpineIds(sp) = SpineIds(sq) \cup {t} /\ Within(sq, sp)
<1>1. PICK f : f = [node |-> L[t], side |-> s]
  OBVIOUS
<1>2. PICK sp : sp = Append(sq, f)
  OBVIOUS
<1>3. PICK T : T = U[RootOf(t, sq)]
  OBVIOUS
<1>4. /\ Context(L, U, t, sq) /\ Holds(d, L, T) /\ Tall(L, T, sq) /\ T \subseteq 1..m
      /\ \A j \in T \ a : Even(L[j])
  BY <1>3 DEF Focus
<1>5. L[t] \in Node /\ L[t].id = t /\ sq \in Stacks /\ SpineIds(sq) \subseteq T
  BY <1>3, FocusFacts, ContextFacts
<1>6. Context(L, U, y, sp) /\ RootOf(y, sp) = RootOf(t, sq)
  BY <1>1, <1>2, <1>4, ContextExtend
<1>7. f \in Frame /\ f.node = L[t] /\ sq \in Seq(Frame)
  BY <1>1, <1>5 DEF Frame, Stacks
<1>8. sp # <<>> /\ Last(sp) = f /\ Front(sp) = sq
  BY <1>2, <1>7, FrontOfAppend
<1>9. SpineIds(sp) = SpineIds(sq) \cup {t}
  <2>1. PICK p, q : p = Last(sp).node.id /\ q = Front(sp)
    OBVIOUS
  <2>2. SpineIds(sp) = SpineIds(q) \cup {p}
    BY ONLY <1>6, <1>8, <2>1, PopFacts
  <2> QED
    BY <1>5, <1>7, <1>8, <2>1, <2>2
<1>10. Within(sq, sp)
  <2> SUFFICES ASSUME sq # <<>> PROVE Last(sq).node.id \in SpineIds(sq) \cup {t}
    BY <1>9 DEF Within
  <2>1. PICK p, q : p = Last(sq).node.id /\ q = Front(sq)
    OBVIOUS
  <2>2. SpineIds(sq) = SpineIds(q) \cup {p}
    BY ONLY <1>4, <2>1, sq # <<>>, PopFacts
  <2> QED
    BY <2>1, <2>2
<1>11. Loose(L, T, sp, sq)
  BY <1>4 DEF Loose, Tall
<1>12. OpenFocus(d, m, L, U, y, sp, a, sq)
  BY <1>3, <1>4, <1>6, <1>11 DEF OpenFocus
<1> QED
  BY <1>1, <1>2, <1>6, <1>9, <1>10, <1>12

\* What is known before the rotations of a double rotation: D are the nodes that are found,
\* sp is the path to the heavy child y, z its heavy child.
Doubled(L, U, t, s, y, z, D, sp) ==
    /\ t \in D /\ t # invalid_mask /\ Stored(memory, ods, L, D) /\ Reached(L, t, D)
    /\ y \in D /\ z \in D /\ y # invalid_mask /\ z # invalid_mask /\ y # t /\ z # t /\ z # y
    /\ OpenFocus(dict, used, L, U, y, sp, {t}, stack) /\ Within(stack, sp)
    /\ Covers(D, U, y, sp) /\ Even(L[z])
    /\ L[t].height[s] = L[t].height[Other(s)] + 2
    /\ HEIGHT(L[y]) = L[t].height[s]
    /\ L[y].height[Other(s)] = L[y].height[s] + 1
    /\ HEIGHT(L[z]) = L[y].height[Other(s)]
    /\ Risen(stack, HEIGHT(L[t]))

LEMMA FirstFacts ==
    ASSUME NEW L, NEW U, NEW t, NEW s \in Sides, NEW y, AtFirst(L, U, t, s, y),
           NEW z, z = L[y].child[Other(s)], NEW D, D = U[RootOf(t, stack)] \ SpineIds(stack)
    PROVE  Doubled(L, U, t, s, y, z, D, Append(stack, [node |-> L[t], side |-> s]))
<1>1. PICK sq : sq = stack
  OBVIOUS
<1>2. PICK sp : sp = Append(sq, [node |-> L[t], side |-> s])
  OBVIOUS
<1>3. /\ y = L[t].child[s] /\ y # invalid_mask /\ Working(L, U, t, sq, {t})
      /\ L[t].height[s] = L[t].height[Other(s)] + 2
      /\ L[y].height[Other(s)] = L[y].height[s] + 1 /\ Risen(stack, HEIGHT(L[t]))
  BY <1>1 DEF AtFirst
<1>4. /\ Focus(dict, used, L, U, t, sq, {t}) /\ Stored(memory, ods, L, D) /\ Reached(L, t, D)
      /\ D = U[RootOf(t, sq)] \ SpineIds(sq)
  <2>1. PICK E : E = U[RootOf(t, sq)] \ SpineIds(sq)
    OBVIOUS
  <2>2. Working(L, U, t, sq, {t})
    BY <1>3
  <2>3. Focus(dict, used, L, U, t, sq, {t}) /\ Stored(memory, ods, L, E) /\ Reached(L, t, E)
    BY ONLY <2>1, <2>2, WorkingFacts
  <2>4. D = E
    BY <1>1, <2>1
  <2> QED
    BY <2>1, <2>3, <2>4
<1>5. /\ t \in D /\ t # invalid_mask /\ y \in D /\ y # t /\ L[t].id = t
      /\ L[t].height[s] = Height(L, y) /\ L[y] \in Node /\ L[t] \in Node
  BY <1>3, <1>4 DEF Reached
<1>6. PICK T : T = U[RootOf(t, sq)]
  OBVIOUS
<1>7. /\ Tree(L, U, RootOf(t, sq)) /\ Tall(L, T, sq) /\ \A j \in T : j \notin {t} => Even(L[j])
      /\ U[t] \subseteq T /\ SpineIds(sq) \subseteq T \ U[t]
      /\ Context(L, U, t, sq) /\ t \in T /\ y \in T
  BY <1>4, <1>5, <1>6, FocusFacts
<1>8. y \in U[y] /\ U[y] \subseteq U[t]
  BY <1>3, <1>6, <1>7, ChildFacts
<1>9. Other(s) \in Sides /\ ~Opening(sq, y, Other(s))
  <2>1. sq # <<>> => Last(sq).node.id \in SpineIds(sq)
    <3> SUFFICES ASSUME sq # <<>> PROVE Last(sq).node.id \in SpineIds(sq)
      OBVIOUS
    <3>1. PICK p, q : p = Last(sq).node.id /\ q = Front(sq)
      OBVIOUS
    <3>2. SpineIds(sq) = SpineIds(q) \cup {p}
      BY ONLY <1>7, <3>1, sq # <<>>, PopFacts
    <3> QED
      BY <3>1, <3>2
  <2> QED
    BY <1>4, <1>5, <2>1, OtherSide DEF Opening
<1>10. L[y].height[Other(s)] = Height(L, z)
  BY <1>7, <1>9 DEF Tall
<1>11. z # invalid_mask /\ HEIGHT(L[z]) = L[y].height[Other(s)]
  <2>1. L[y].height[s] \in Nat /\ L[y].height[Other(s)] # 0
    BY <1>3, <1>5, NodeFields, OtherSide
  <2> QED
    BY <1>10, <2>1 DEF Height
<1>12. z \in U[z] /\ U[z] \subseteq U[y] /\ z \in T /\ z # y
  BY <1>6, <1>7, <1>9, <1>11, ChildFacts
<1>13. z # t /\ z \in D
  <2>1. t \notin U[y]
    BY SMTT(30), <1>3, <1>5, <1>6, <1>7, TreeChild
  <2> QED
    BY <1>4, <1>6, <1>7, <1>8, <1>12, <2>1
<1>14. Even(L[z]) /\ HEIGHT(L[y]) = L[t].height[s]
  BY Zenon, <1>3, <1>5, <1>7, <1>12, <1>13 DEF Height
<1>15. /\ OpenFocus(dict, used, L, U, y, sp, {t}, sq) /\ RootOf(y, sp) = RootOf(t, sq)
       /\ SpineIds(sp) = SpineIds(sq) \cup {t} /\ Within(sq, sp)
  <2>1. PICK d, m, a : d = dict /\ m = used /\ a = {t}
    OBVIOUS
  <2>2. Focus(d, m, L, U, t, sq, a)
    BY <1>4, <2>1
  <2>3. /\ OpenFocus(d, m, L, U, y, sp, a, sq) /\ RootOf(y, sp) = RootOf(t, sq)
        /\ SpineIds(sp) = SpineIds(sq) \cup {t} /\ Within(sq, sp)
    BY ONLY <1>2, <1>3, <1>5, <2>2, s \in Sides, DownFacts
  <2> QED
    BY <2>1, <2>3
<1>16. Covers(D, U, y, sp)
  BY SMTT(30), <1>4, <1>15 DEF Covers
<1>17. Doubled(L, U, t, s, y, z, D, sp)
  BY Zenon, <1>1, <1>3, <1>4, <1>5, <1>11, <1>12, <1>13, <1>14, <1>15, <1>16 DEF Doubled
<1> QED
  BY <1>1, <1>2, <1>17

LEMMA FirstSoundly ==
    ASSUME Typing, pc = "rotate", NEW L, NEW U, NEW t \in Ids, NEW s \in Sides, NEW y,
           AtFirst(L, U, t, s, y), NEW z \in Ids, z = L[y].child[Other(s)],
           NEW D, D = U[RootOf(t, stack)] \ SpineIds(stack),
           NEW down, NEW up, NEW w, Rotated(L, D, y, z, s, down, up, w),
           WorkOK(w, used), w.bad = "no", Proceed(w, Tail(tasks))
    PROVE  pc' = "rotate" /\ \E M, W : AtSecond(M, W, t, s, z, L[t])'
<1>1. PICK n : n = L[t]
  OBVIOUS
<1>2. PICK sp : sp = Append(stack, [node |-> n, side |-> s])
  OBVIOUS
<1>3. Doubled(L, U, t, s, y, z, D, sp)
  BY <1>1, <1>2, FirstFacts
<1>4. /\ t \in D /\ t # invalid_mask /\ Reached(L, t, D)
      /\ y \in D /\ z \in D /\ y # invalid_mask /\ z # invalid_mask /\ y # t /\ z # t /\ z # y
      /\ Covers(D, U, y, sp) /\ Even(L[z])
      /\ n.height[s] = n.height[Other(s)] + 2
      /\ HEIGHT(L[y]) = n.height[s]
      /\ L[y].height[Other(s)] = L[y].height[s] + 1
      /\ HEIGHT(L[z]) = L[y].height[Other(s)]
      /\ Risen(stack, HEIGHT(n))
  BY <1>1, <1>3 DEF Doubled
<1>5. PICK q, d, m, a : q = stack /\ d = dict /\ m = used /\ a = {t}
  OBVIOUS
<1>6. OpenFocus(d, m, L, U, y, sp, a, q) /\ Within(q, sp)
  BY <1>3, <1>5 DEF Doubled
<1>7. Turned(d, m, U, y, z, sp, a, q, down, up, w)
  <2>1. Rotated(L, D, y, z, s, down, up, w) /\ z = L[y].child[Other(s)] /\ s \in Sides
    OBVIOUS
  <2> QED
    BY ONLY <1>4, <1>6, <2>1, RotateSpine
<1>8. PICK M, W :
        /\ OpenFocus(d, m, M, W, z, sp, a \cup {y, z}, q)
        /\ M[y] = down /\ M[z] = up
        /\ Stored(memory, w, M, W[RootOf(z, sp)] \ SpineIds(sp))
  BY <1>7 DEF Turned
<1>9. n \in Node /\ n.id = t /\ L[y] \in Node /\ L[z] \in Node
  BY <1>1, <1>4 DEF Reached
<1> DEFINE g == L[y].height[s]
           b == L[y].height[Other(s)]
           e == n.height[s]
           h == n.height[Other(s)]
           i == L[z].height[s]
           k == L[z].height[Other(s)]
<1>10. /\ g \in Nat /\ b \in Nat /\ e \in Nat /\ h \in Nat /\ i \in Nat /\ k \in Nat
  BY SMTT(30), <1>9, NodeFields, OtherSide
<1>11. /\ e = h + 2 /\ e = Over(g, b) /\ b = g + 1 /\ b = Over(i, k) /\ i <= k + 1 /\ k <= i + 1
       /\ HEIGHT(n) = Over(e, h)
  <2>1. HEIGHT(L[y]) = Over(g, b) /\ HEIGHT(L[z]) = Over(i, k) /\ HEIGHT(n) = Over(e, h)
    BY <1>9, HeightOver
  <2>2. i <= k + 1 /\ k <= i + 1
    BY <1>4, EvenSides
  <2> QED
    BY <1>4, <2>1, <2>2
<1>12. /\ down \in Node /\ down.height[s] = g /\ down.height[Other(s)] = i
       /\ up.height[s] = Over(i, g) /\ up.height[Other(s)] = k
  BY RotatedHeights
<1> HIDE DEF g, b, e, h, i, k
<1>13. /\ g = h /\ b = h + 1 /\ Over(i, g) = h + 1 /\ k <= h /\ h <= k + 1
       /\ g <= i + 1 /\ i <= g + 1 /\ Over(e, h) = h + 3
  BY ONLY SMTT(30), <1>10, <1>11, FirstHeights
<1>14. Even(down)
  BY <1>12, <1>13, EvenSides
<1>15. OpenFocus(d, m, M, W, z, sp, {t, z}, q)
  BY <1>5, <1>8, <1>14, OpenFocusUneven
<1>16. Tail(tasks) = <<Task(Relinking(s), t, n), Task(Other(s), t, n)>>
  <2>1. PICK x1, x2, x3 : x1 = Task(s, n.child[s], n) /\ x2 = Task(Relinking(s), t, n)
                          /\ x3 = Task(Other(s), t, n)
    BY SMTT(30)
  <2>2. tasks = <<x1, x2, x3>>
    BY <1>1, <1>9, <2>1 DEF AtFirst, DoubleRotation
  <2>3. Tail(<<x1, x2, x3>>) = <<x2, x3>>
    OBVIOUS
  <2> QED
    BY <2>1, <2>2, <2>3
<1>17. /\ ods' = w /\ tasks' = <<Task(Relinking(s), t, n), Task(Other(s), t, n)>> /\ stack' = q
       /\ dict' = d /\ memory' = memory /\ used' = m /\ pc' = "rotate"
  <2>1. PICK rest : rest = <<Task(Relinking(s), t, n), Task(Other(s), t, n)>>
    OBVIOUS
  <2>2. Proceed(w, rest) /\ rest # <<>>
    BY <1>16, <2>1
  <2>3. /\ ods' = w /\ tasks' = rest /\ stack' = stack /\ dict' = dict
        /\ memory' = memory /\ used' = used /\ pc' = "rotate"
    BY <2>2, ProceedFacts
  <2> QED
    BY <1>5, <2>1, <2>3
<1>18. Pending(M, W, z, sp, {t, z}, stack)'
  BY <1>4, <1>8, <1>15, <1>17 DEF Pending
<1>19. PICK f : f = [node |-> n, side |-> s]
  OBVIOUS
<1>20. Pending(M, W, z, Append(stack, f), {t, z}, stack)'
  <2>1. Append(stack', f) = sp
    BY <1>2, <1>5, <1>17, <1>19
  <2> QED
    BY <1>18, <2>1
<1>21. Top(w) = M[z] /\ Risen(stack', h + 3)
  BY <1>4, <1>5, <1>8, <1>11, <1>13, <1>17 DEF Rotated
<1>22. /\ M[z].height[s] = h + 1 /\ M[z].height[Other(s)] = k
  BY <1>8, <1>12, <1>13
<1>23. AtSecond(M, W, t, s, z, n)'
  BY <1>9, <1>11, <1>13, <1>17, <1>19, <1>20, <1>21, <1>22 DEF AtSecond, e, h
<1> QED
  BY <1>1, <1>17, <1>23

LEMMA RotateSoundly ==
    ASSUME Typing, Sound, NEW s \in Sides, Rotate(s)
    PROVE  Sound'
<1>1. /\ used \in Nat /\ setup \in Setups /\ ods.bad = "no" /\ WorkOK(ods, used)
      /\ MemoryOK(used) /\ pc = "rotate" /\ Head(tasks).do = s
  BY Zenon, TypingFacts DEF Rotate, Running
<1>2. PICK x : x = Head(tasks).id
  OBVIOUS
<1>3. x \in Ids
  BY <1>1, <1>2, HeadTask DEF Tasks
<1>4. PICK w1, w2, down, w3, up, w4 :
              /\ RotateSteps(s, x, ods, w1, w2, down, w3, up, w4)
              /\ Proceed(w4, Tail(tasks))
  BY <1>2, RotateStep
<1>5. WorkOK(w4, used)
  BY <1>1, <1>3, <1>4, RotationWork
<1>6. ods' = w4 /\ dropped' = dropped /\ (w4.bad # "no" => pc' \in {"aborted", "garbled"})
  BY <1>1, <1>4, <1>5, ProceedFacts
<1>7. CASE w4.bad # "no"
  BY <1>6, <1>7, EndSoundly
<1>8. CASE w4.bad = "no"
  <2> SUFFICES ASSUME ~dropped', ~ods'.stale
               PROVE  (\E L, U : SoundAt(L, U))'
    BY DEF Sound
  <2>1. ~w4.stale /\ ~ods.stale /\ ~dropped
    BY <1>1, <1>3, <1>4, <1>6, <1>8, RotationStale
  <2>2. PICK L, U : AtRotate(L, U)
    BY <1>1, <2>1 DEF Sound, SoundAt
  <2>3. PICK z \in Sides, t \in Ids, y \in Ids :
           \/ AtLast(L, U, t, z, y)
           \/ AtFirst(L, U, t, z, y)
           \/ \E n : AtSecond(L, U, t, z, y, n)
    BY <2>2 DEF AtRotate
  <2>4. PICK D : D = U[RootOf(t, stack)] \ SpineIds(stack)
    BY Zenon
  <2>5. CASE AtLast(L, U, t, z, y)
    <3>1. z = s /\ x = t /\ y = L[t].child[Other(s)] /\ y # invalid_mask
      BY Zenon, <1>1, <1>2, <2>5 DEF AtLast
    <3>2. Stored(memory, ods, L, D) /\ Reached(L, t, D) /\ t \in D /\ y \in D
      <4>1. PICK sp : sp = stack
        BY SMTT(30)
      <4>2. Working(L, U, t, sp, {t, y})
        BY Zenon, <2>5, <4>1 DEF AtLast
      <4>3. PICK E : E = U[RootOf(t, sp)] \ SpineIds(sp)
        OBVIOUS
      <4>4. Stored(memory, ods, L, E) /\ Reached(L, t, E)
        BY ONLY <4>2, <4>3, WorkingFacts
      <4> QED
        BY <2>4, <3>1, <4>1, <4>3, <4>4, OtherSide DEF Reached
    <3>3. Rotated(L, D, t, y, s, down, up, w4)
      BY <1>1, <1>4, <1>8, <2>1, <3>1, <3>2, RotationMade
    <3>4. pc' = "ascend" /\ \E M, W : AtAscend(M, W, y)'
      BY <1>1, <1>4, <1>5, <1>8, <2>4, <2>5, <3>1, <3>3, LastSoundly
    <3> QED
      BY <3>4 DEF SoundAt
  <2>6. CASE AtFirst(L, U, t, z, y)
    <3>1. z = s /\ x = L[t].child[s] /\ y = x
      BY <1>1, <1>2, <2>6 DEF AtFirst, DoubleRotation, Task
    <3>2. PICK c : c = L[y].child[Other(s)]
      OBVIOUS
    <3>3. Doubled(L, U, t, s, y, c, D, Append(stack, [node |-> L[t], side |-> s]))
      BY <2>4, <2>6, <3>1, <3>2, FirstFacts
    <3>4. Stored(memory, ods, L, D) /\ Reached(L, t, D) /\ y \in D /\ c \in D /\ c \in Ids
      BY <3>3 DEF Doubled, Reached
    <3>5. Rotated(L, D, y, c, s, down, up, w4)
      BY SMTT(30), <1>1, <1>4, <1>8, <2>1, <3>1, <3>2, <3>4, RotationMade
    <3>6. pc' = "rotate" /\ \E M, W : AtSecond(M, W, t, s, c, L[t])'
      BY <1>1, <1>4, <1>5, <1>8, <2>4, <2>6, <3>1, <3>2, <3>4, <3>5, FirstSoundly
    <3>7. PICK M, W : AtSecond(M, W, t, s, c, L[t])'
      BY <3>6
    <3>8. AtRotate(M, W)'
      BY <3>4, <3>7 DEF AtRotate
    <3> QED
      BY <3>6, <3>8 DEF SoundAt
  <2>7. ~\E n : AtSecond(L, U, t, z, y, n)
    <3> SUFFICES ASSUME NEW n, AtSecond(L, U, t, z, y, n) PROVE FALSE
      OBVIOUS
    <3>1. PICK a, b : a = Task(Relinking(z), t, n) /\ b = Task(Other(z), t, n)
      OBVIOUS
    <3>2. tasks = <<a, b>> /\ a.do = Relinking(z)
      BY <3>1 DEF AtSecond, Task
    <3>3. Head(<<a, b>>) = a
      OBVIOUS
    <3> QED
      BY <1>1, <3>2, <3>3, TaskNames
  <2> QED
    BY <2>3, <2>5, <2>6, <2>7
<1> QED
  BY <1>7, <1>8

LEMMA NextSound ==
    ASSUME Typing, Counted, Sound, [Next]_vars PROVE Sound'
<1>1. CASE Call
  BY <1>1, BeginSoundly DEF Call
<1>2. CASE Broken \/ ReadFails \/ Overflow
  <2>1. CASE Broken
    <3>1. /\ ods' = OdsAccessRead(ods, cursor) /\ ods'.bad # "no" /\ pc' = ods'.bad
          /\ pc = "descend"
      BY <2>1 DEF Broken, Goto
    <3>2. WorkOK(ods', used)
      BY <3>1, TypingFacts, ReadWork DEF Running
    <3>3. pc' \in {"aborted", "garbled"}
      BY <3>1, <3>2 DEF WorkOK, Work
    <3> QED
      BY <3>3, EndSoundly
  <2>2. CASE ReadFails \/ Overflow
    <3>1. pc' \in {"aborted", "overflowed"}
      BY <2>2 DEF ReadFails, Overflow, Goto
    <3> QED
      BY <3>1, EndSoundly
  <2> QED
    BY <1>2, <2>1, <2>2
<1>3. CASE Descend \/ NotFound \/ Place \/ Ascend \/ InsertReturns \/ Balance
  <2>1. Descend \/ NotFound \/ Place => Sound'
    BY DescendSoundly, NotFoundSoundly, PlaceSoundly
  <2>2. Ascend \/ InsertReturns \/ Balance => Sound'
    BY AscendSoundly, InsertReturnsSoundly, BalanceSoundly
  <2> QED
    BY <1>3, <2>1, <2>2
<1>4. CASE LeftRotate \/ RightRotate \/ \E side \in Sides : Relink(side)
  <2>1. LeftRotate \/ RightRotate => \E side \in Sides : Rotate(side)
    BY DEF LeftRotate, RightRotate, Sides
  <2>2. \A side \in Sides : Rotate(side) => Sound'
    BY RotateSoundly
  <2>3. \A side \in Sides : Relink(side) => Sound'
    BY RelinkSoundly
  <2> QED
    BY <1>4, <2>1, <2>2, <2>3
<1>5. CASE PadReads \/ WriteBack \/ PadWrites
  BY <1>5, PadReadsSoundly, WriteBackSoundly, PadWritesSoundly
<1>6. CASE UNCHANGED vars
  <2>1. /\ memory' = memory /\ root_id' = root_id /\ node_count' = node_count /\ ods' = ods
        /\ pc' = pc /\ call' = call /\ stack' = stack /\ tasks' = tasks /\ cursor' = cursor
        /\ dict' = dict /\ dropped' = dropped
    BY <1>6 DEF vars
  <2>2. used' = used /\ Spine' = Spine
    BY <2>1 DEF used, Spine
  <2>3. \A L, U, t, sp, a, rim :
           /\ Working(L, U, t, sp, a) => Working(L, U, t, sp, a)'
           /\ Pending(L, U, t, sp, a, rim) => Pending(L, U, t, sp, a, rim)'
    BY <2>1, <2>2 DEF Working, Pending
  <2>4. \A L, U : /\ AtRest(L, U) => AtRest(L, U)'
                  /\ AtDescend(L, U) => AtDescend(L, U)'
    BY <2>1, <2>2 DEF AtRest, AtDescend, Searching
  <2>5. \A L, U, t : AtAscend(L, U, t) => AtAscend(L, U, t)'
    <3> SUFFICES ASSUME NEW L, NEW U, NEW t, AtAscend(L, U, t) PROVE AtAscend(L, U, t)'
      OBVIOUS
    <3>1. PICK sp : sp = Spine
      OBVIOUS
    <3>2. Working(L, U, t, sp, {})'
      BY <2>3, <3>1 DEF AtAscend
    <3>3. Working(L, U, t, Spine, {})'
      BY <2>2, <3>1, <3>2
    <3> QED
      BY <2>1, <2>2, <3>3 DEF AtAscend
  <2>6. \A L, U, t : AtBalance(L, U, t) => AtBalance(L, U, t)'
    <3> SUFFICES ASSUME NEW L, NEW U, NEW t, AtBalance(L, U, t) PROVE AtBalance(L, U, t)'
      OBVIOUS
    <3>1. PICK sp : sp = stack
      OBVIOUS
    <3>2. Working(L, U, t, sp, {t})'
      BY <2>3, <3>1 DEF AtBalance
    <3> QED
      BY <2>1, <3>1, <3>2 DEF AtBalance
  <2>7. \A L, U : AtRotate(L, U) => AtRotate(L, U)'
    <3> SUFFICES ASSUME NEW L, NEW U, NEW s \in Sides, NEW t \in Ids, NEW y \in Ids
                 PROVE  /\ AtLast(L, U, t, s, y) => AtLast(L, U, t, s, y)'
                        /\ AtFirst(L, U, t, s, y) => AtFirst(L, U, t, s, y)'
                        /\ \A n : AtSecond(L, U, t, s, y, n) => AtSecond(L, U, t, s, y, n)'
      BY DEF AtRotate
    <3>1. PICK sp : sp = stack
      BY SMTT(30)
    <3>2. AtLast(L, U, t, s, y) => AtLast(L, U, t, s, y)'
      <4>1. Working(L, U, t, stack, {t, y}) => Working(L, U, t, stack, {t, y})'
        BY <2>1, <2>3, <3>1
      <4> QED
        BY Zenon, <2>1, <4>1 DEF AtLast
    <3>3. AtFirst(L, U, t, s, y) => AtFirst(L, U, t, s, y)'
      <4>1. Working(L, U, t, stack, {t}) => Working(L, U, t, stack, {t})'
        BY <2>1, <2>3, <3>1
      <4> QED
        BY <2>1, <4>1 DEF AtFirst
    <3>4. ASSUME NEW n PROVE AtSecond(L, U, t, s, y, n) => AtSecond(L, U, t, s, y, n)'
      <4>1. PICK sq : sq = Append(stack, [node |-> n, side |-> s])
        OBVIOUS
      <4>2. Append(stack', [node |-> n, side |-> s]) = sq
        BY <2>1, <4>1
      <4>3. Pending(L, U, y, sq, {t, y}, sp) => Pending(L, U, y, sq, {t, y}, sp)'
        BY <2>3
      <4>4. Pending(L, U, y, Append(stack, [node |-> n, side |-> s]), {t, y}, stack)
              => Pending(L, U, y, Append(stack, [node |-> n, side |-> s]), {t, y}, stack)'
        BY <2>1, <3>1, <4>1, <4>2, <4>3
      <4> QED
        BY <2>1, <4>4 DEF AtSecond
    <3> QED
      BY <3>2, <3>3, <3>4
  <2>8. \A L, U : SoundAt(L, U) => SoundAt(L, U)'
    BY <2>1, <2>4, <2>5, <2>6, <2>7 DEF SoundAt
  <2> QED
    BY <2>1, <2>8 DEF Sound
<1> QED
  BY <1>1, <1>2, <1>3, <1>4, <1>5, <1>6 DEF Next, Step

-------------------------------------------------------------------------------
(* What the ORAM has between operations. *)

LEMMA LeastNumber ==
    ASSUME NEW N, N \subseteq Nat, N # {}
    PROVE  \E n \in N : \A m \in N : n <= m
<1> DEFINE R == OpToRel(<, Nat)
<1>1. R = {ss \in Nat \X Nat : ss[1] < ss[2]}
  BY DEF OpToRel
<1>2. IsWellFoundedOn(R, Nat)
  BY NatLessThanWellFounded
<1> HIDE DEF R
<1>3. PICK n \in N : \A m \in N : ~(<<m, n>> \in R)
  BY <1>2, WFMin
<1>4. ASSUME NEW m \in N PROVE n <= m
  <2>1. m \in Nat /\ n \in Nat /\ <<m, n>> \notin R
    BY <1>3
  <2>2. m < n => <<m, n>> \in R
    BY <1>1, <2>1
  <2> QED
    BY <2>1, <2>2
<1> QED
  BY <1>4

LEMMA LeastSize ==
    ASSUME NEW B, B # {}, NEW U, \A j \in B : Cardinality(U[j]) \in Nat
    PROVE  \E j \in B : \A k \in B : Cardinality(U[j]) <= Cardinality(U[k])
<1>1. PICK N : N = {Cardinality(U[j]) : j \in B}
  OBVIOUS
<1>2. N \subseteq Nat /\ N # {}
  BY <1>1
<1>3. PICK n \in N : \A m \in N : n <= m
  BY <1>2, LeastNumber
<1> QED
  BY <1>1, <1>3

\* The trees under the children of a node are smaller.
LEMMA TreeSizes ==
    ASSUME NEW L, NEW U, NEW r, Tree(L, U, r), IsFiniteSet(U[r])
    PROVE  /\ \A j \in U[r] : Cardinality(U[j]) \in Nat
           /\ \A j \in U[r] : \A s \in Sides : L[j].child[s] # invalid_mask =>
                 /\ L[j].child[s] \in U[r]
                 /\ Cardinality(U[L[j].child[s]]) < Cardinality(U[j])
<1>1. \A j \in U[r] : IsFiniteSet(U[j]) /\ Cardinality(U[j]) \in Nat /\ j \in U[j]
  BY TreeNodes, FS_Subset, FS_CardinalityType
<1>2. ASSUME NEW j \in U[r], NEW s \in Sides, NEW c, c = L[j].child[s], c # invalid_mask
      PROVE  c \in U[r] /\ Cardinality(U[c]) < Cardinality(U[j])
  <2>1. c \in U[r] /\ U[c] \subseteq U[j] /\ j \notin U[c]
    BY <1>2, TreeChild
  <2>2. /\ IsFiniteSet(U[j]) /\ IsFiniteSet(U[j] \ {j}) /\ Cardinality(U[j]) \in Nat
        /\ Cardinality(U[c]) \in Nat /\ Cardinality(U[j] \ {j}) = Cardinality(U[j]) - 1
    BY <1>1, <2>1, FS_RemoveElement
  <2>3. Cardinality(U[c]) <= Cardinality(U[j] \ {j})
    <3>1. U[c] \subseteq U[j] \ {j}
      BY <2>1
    <3> QED
      BY <2>2, <3>1, FS_Subset
  <2> QED
    BY <2>1, <2>2, <2>3
<1> QED
  BY <1>1, <1>2

\* A tree contains the trees under its nodes.
LEMMA TreeNested ==
    ASSUME NEW L, NEW U, NEW r, Tree(L, U, r), IsFiniteSet(U[r])
    PROVE  \A i \in U[r] : \A j \in U[i] : U[j] \subseteq U[i]
<1>1. PICK B : B = {i \in U[r] : \E j \in U[i] : ~(U[j] \subseteq U[i])}
  OBVIOUS
<1> SUFFICES ASSUME B # {} PROVE FALSE
  BY <1>1
<1>2. \A i \in B : Cardinality(U[i]) \in Nat
  BY <1>1, TreeSizes
<1>3. PICK i \in B : \A k \in B : Cardinality(U[i]) <= Cardinality(U[k])
  BY <1>2, LeastSize
<1>4. PICK j \in U[i] : ~(U[j] \subseteq U[i])
  BY <1>1, <1>3
<1>5. i \in U[r] /\ j # i
  BY <1>1, <1>4
<1>6. PICK s \in Sides : j \in U[L[i].child[s]]
  BY <1>4, <1>5, TreeNodes
<1>7. PICK c : c = L[i].child[s]
  OBVIOUS
<1>8. c # invalid_mask /\ U[c] \subseteq U[i]
  <2>1. U[invalid_mask] = {}
    BY DEF Tree
  <2> QED
    BY <1>5, <1>6, <1>7, <2>1, TreeChild
<1>9. c \in U[r] /\ Cardinality(U[c]) < Cardinality(U[i])
  BY <1>5, <1>7, <1>8, TreeSizes
<1>10. Cardinality(U[c]) \in Nat /\ Cardinality(U[i]) \in Nat
  BY <1>5, <1>9, TreeSizes
<1>11. c \notin B
  BY <1>3, <1>9, <1>10
<1> QED
  BY <1>1, <1>4, <1>6, <1>7, <1>8, <1>9, <1>11

\* A set of ids with a node of the tree, and the children of its members, has all of the
\* tree under the node.
LEMMA ClosedHasTree ==
    ASSUME NEW L, NEW U, NEW r, Tree(L, U, r), IsFiniteSet(U[r]), NEW S,
           \A j \in S \cap U[r] : \A s \in Sides : L[j].child[s] \in S
    PROVE  \A j \in S \cap U[r] : U[j] \subseteq S
<1>1. PICK B : B = {j \in S \cap U[r] : ~(U[j] \subseteq S)}
  OBVIOUS
<1> SUFFICES ASSUME B # {} PROVE FALSE
  BY <1>1
<1>2. \A j \in B : Cardinality(U[j]) \in Nat
  BY <1>1, TreeSizes
<1>5. PICK j \in B : \A k \in B : Cardinality(U[j]) <= Cardinality(U[k])
  BY <1>2, LeastSize
<1>6. j \in S /\ j \in U[r] /\ ~(U[j] \subseteq S)
  BY <1>1, <1>5
<1>7. ASSUME NEW s \in Sides PROVE U[L[j].child[s]] \subseteq S
  <2>1. CASE L[j].child[s] = invalid_mask
    <3>1. U[invalid_mask] = {}
      BY DEF Tree
    <3> QED
      BY <2>1, <3>1
  <2>2. CASE L[j].child[s] # invalid_mask
    <3>1. PICK c : c = L[j].child[s]
      OBVIOUS
    <3>2. c \in U[r] /\ Cardinality(U[c]) < Cardinality(U[j]) /\ c \in S
      BY <1>6, <2>2, <3>1, TreeSizes
    <3>3. Cardinality(U[c]) \in Nat /\ Cardinality(U[j]) \in Nat
      BY <1>6, <3>2, TreeSizes
    <3>4. c \notin B
      BY <1>5, <3>2, <3>3
    <3> QED
      BY <1>1, <3>1, <3>2, <3>4
  <2> QED
    BY <2>1, <2>2
<1>8. \A i \in U[j] : i = j \/ \E s \in Sides : i \in U[L[j].child[s]]
  BY <1>6, TreeNodes
<1> QED
  BY <1>6, <1>7, <1>8

\* A tree that the memory has is what is found under its nodes.
LEMMA SubtreeIs ==
    ASSUME NEW L, NEW U, NEW r, Tree(L, U, r), \A j \in U[r] : memory[j] = L[j],
           memory[invalid_mask] \in {Blank, Gone}, NEW i \in U[r] \cup {invalid_mask}
    PROVE  Subtree(i) = U[i]
<1>1. /\ \A j \in U[r] : L[j] \in Node /\ j \in Ids /\ j # invalid_mask /\ j \in U[j]
                         /\ U[j] \subseteq U[r]
      /\ U[invalid_mask] = {} /\ invalid_mask \in Ids /\ U[r] \subseteq Ids
  BY TreeNodes DEF Tree, Ids, invalid_mask
<1>0. IsFiniteSet(U[r])
  <2>1. IsFiniteSet(Ids)
    BY OdictAssumption, FS_Interval DEF Ids
  <2> QED
    BY <1>1, <2>1, FS_Subset
<1>2. \A j \in U[r] : Children(j) = {L[j].child[s] : s \in Sides}
  BY <1>1, OdictAssumption DEF Children
<1>3. Children(invalid_mask) = {}
  BY DEF Children
<1> DEFINE closed == {S \in SUBSET Ids : i \in S /\ \A j \in S : Children(j) \subseteq S}
<1>4. U[i] \cup {invalid_mask} \in closed
  <2>1. PICK A : A = U[i] \cup {invalid_mask}
    OBVIOUS
  <2>2. A \in SUBSET Ids /\ i \in A
    BY <1>1, <2>1
  <2>3. ASSUME NEW j \in U[i], NEW s \in Sides PROVE L[j].child[s] \in A
    <3>1. i \in U[r] /\ j \in U[r]
      BY <1>1, <2>3
    <3>2. PICK c : c = L[j].child[s]
      OBVIOUS
    <3>3. U[c] \subseteq U[j] /\ (c # invalid_mask => c \in U[c])
      BY <3>1, <3>2, TreeChild
    <3>4. U[j] \subseteq U[i]
      BY <1>0, <2>3, <3>1, TreeNested
    <3> QED
      BY <2>1, <3>2, <3>3, <3>4
  <2>4. \A j \in A : Children(j) \subseteq A
    <3>1. \A j \in U[i] : Children(j) \subseteq A
      <4>1. \A j \in U[i] : j \in U[r]
        BY <1>1
      <4> QED
        BY <1>2, <2>3, <4>1
    <3> QED
      BY <1>3, <2>1, <3>1
  <2> QED
    BY <2>1, <2>2, <2>4
<1>5. ASSUME NEW S \in closed PROVE U[i] \subseteq S
  <2>1. \A j \in S \cap U[r] : \A s \in Sides : L[j].child[s] \in S
    BY <1>2
  <2>2. \A j \in S \cap U[r] : U[j] \subseteq S
    BY <1>0, <2>1, ClosedHasTree
  <2> QED
    BY <1>1, <2>2
<1>6. invalid_mask \notin U[i]
  BY <1>1
<1>7. Subtree(i) = {j \in Ids : \A S \in closed : j \in S} \ {invalid_mask}
  BY DEF Subtree
<1>8. U[i] \subseteq Ids
  BY <1>1
<1> HIDE DEF closed
<1> QED
  BY <1>4, <1>5, <1>6, <1>7, <1>8

\* Between operations the tree is whole, and the ORAM has all of it.
LEMMA WholeTree ==
    ASSUME Typing, Sound, Whole
    PROVE  \E L, U : /\ Focus(dict, used, L, U, root_id, <<>>, {})
                     /\ \A j \in U[root_id] : memory[j] = L[j]
                     /\ \A i \in U[root_id] \cup {invalid_mask} : Subtree(i) = U[i]
                     /\ root_id \in U[root_id] \cup {invalid_mask}
<1>1. pc = "idle" /\ ~dropped /\ ods = Start
  BY DEF Whole, Typing
<1>2. ~ods.stale /\ ods.cache = <<>> /\ ods.evicted = {}
  BY <1>1 DEF Start
<1>3. PICK L, U : AtRest(L, U)
  BY <1>1, <1>2 DEF Sound, SoundAt
<1>4. Focus(dict, used, L, U, root_id, <<>>, {}) /\ Stored(memory, ods, L, U[root_id])
  BY <1>3 DEF AtRest
<1>5. Nodes(ods.cache) = {}
  BY <1>2 DEF Nodes
<1>6. \A j \in U[root_id] : memory[j] = L[j]
  BY <1>2, <1>4, <1>5 DEF Stored, IsIn
<1>7. Tree(L, U, root_id)
  BY <1>4, FocusFacts DEF RootOf
<1>8. memory[invalid_mask] \in {Blank, Gone}
  <2>1. invalid_mask \in Ids /\ invalid_mask \notin 1..used
    BY UsedType DEF invalid_mask, Ids
  <2> QED
    BY <2>1 DEF Typing, MemoryOK
<1>9. root_id \in U[root_id] \cup {invalid_mask}
  BY <1>7 DEF Tree
<1>10. \A i \in U[root_id] \cup {invalid_mask} : Subtree(i) = U[i]
  BY <1>6, <1>7, <1>8, SubtreeIs
<1> QED
  BY <1>4, <1>6, <1>9, <1>10

LEMMA SoundHoldsDictionary ==
    ASSUME Typing, Sound PROVE TreeHoldsDictionary
<1> SUFFICES ASSUME Whole
             PROVE  LET nodes == {memory[j] : j \in Subtree(root_id)} IN
                    /\ nodes \cap {Blank, Gone} = {}
                    /\ \A n \in nodes :
                          /\ \A j \in Subtree(n.child["left"]) : memory[j].key < n.key
                          /\ \A j \in Subtree(n.child["right"]) : memory[j].key > n.key
                    /\ \A k \in Key : {n.val : n \in {m \in nodes : m.key = k}} = {dict[k]} \ {None}
  BY DEF TreeHoldsDictionary
<1>1. PICK L, U : /\ Focus(dict, used, L, U, root_id, <<>>, {})
                  /\ \A j \in U[root_id] : memory[j] = L[j]
                  /\ \A i \in U[root_id] \cup {invalid_mask} : Subtree(i) = U[i]
                  /\ root_id \in U[root_id] \cup {invalid_mask}
  BY WholeTree
<1>2. PICK T : T = U[root_id]
  OBVIOUS
<1>3. /\ Tree(L, U, root_id) /\ Holds(dict, L, T)
      /\ \A j \in T : L[j] \in Node
  BY <1>1, <1>2, FocusFacts DEF RootOf
<1>4. PICK nodes : nodes = {memory[j] : j \in T}
  OBVIOUS
<1>5. nodes = {memory[j] : j \in Subtree(root_id)}
  BY <1>1, <1>2, <1>4
<1>6. nodes = {L[j] : j \in T}
  BY <1>1, <1>2, <1>4
<1>7. nodes \cap {Blank, Gone} = {}
  BY <1>3, <1>6
<1>8. ASSUME NEW n \in nodes
      PROVE  /\ \A j \in Subtree(n.child["left"]) : memory[j].key < n.key
             /\ \A j \in Subtree(n.child["right"]) : memory[j].key > n.key
  <2>1. PICK i \in T : n = L[i]
    BY <1>6
  <2>2. ASSUME NEW s \in Sides, NEW c, c = L[i].child[s]
        PROVE  Subtree(c) = U[c] /\ \A j \in U[c] : memory[j] = L[j] /\ Under(s, L[j].key, n.key)
    <3>1. c \in U[root_id] \cup {invalid_mask} /\ U[c] \subseteq U[root_id]
          /\ \A j \in U[c] : Under(s, L[j].key, L[i].key)
      BY <1>2, <1>3, <2>1, <2>2, TreeChild
    <3> QED
      BY <1>1, <2>1, <3>1
  <2>3. "left" \in Sides /\ "right" \in Sides
    BY DEF Sides
  <2>4. \A j \in Subtree(n.child["left"]) : memory[j].key < n.key
    BY <2>1, <2>2, <2>3 DEF Under
  <2>5. \A j \in Subtree(n.child["right"]) : memory[j].key > n.key
    BY <2>1, <2>2, <2>3 DEF Under
  <2> QED
    BY <2>4, <2>5
<1>9. ASSUME NEW k \in Key
      PROVE  {n.val : n \in {m \in nodes : m.key = k}} = {dict[k]} \ {None}
  <2>1. \A j \in T : L[j].val \in Val /\ dict[L[j].key] = L[j].val
    BY <1>3, NodeFields DEF Holds
  <2>2. \A n \in nodes : n.key = k => n.val = dict[k] /\ n.val # None
    BY <1>6, <2>1
  <2>3. dict[k] # None => \E n \in nodes : n.key = k
    BY <1>3, <1>6 DEF Holds
  <2> QED
    BY <2>2, <2>3
<1> QED
  BY <1>5, <1>7, <1>8, <1>9

LEMMA SoundBalanced ==
    ASSUME Typing, Sound PROVE Balanced
<1> SUFFICES ASSUME Whole, NEW j \in Subtree(root_id), NEW n, n = memory[j]
             PROVE  /\ \A s \in Sides : n.height[s] = HeightOf(n.child[s])
                    /\ n.height["left"] - n.height["right"] \in -1..1
  BY DEF Balanced
<1>1. PICK L, U : /\ Focus(dict, used, L, U, root_id, <<>>, {})
                  /\ \A i \in U[root_id] : memory[i] = L[i]
                  /\ \A i \in U[root_id] \cup {invalid_mask} : Subtree(i) = U[i]
                  /\ root_id \in U[root_id] \cup {invalid_mask}
  BY WholeTree
<1>2. PICK T : T = U[root_id]
  OBVIOUS
<1>3. /\ Tree(L, U, root_id) /\ Tall(L, T, <<>>)
      /\ \A i \in T : L[i] \in Node /\ Even(L[i])
  BY <1>1, <1>2, FocusFacts DEF RootOf
<1>4. j \in T /\ n = L[j] /\ n \in Node /\ Even(n)
  BY <1>1, <1>2, <1>3
<1>5. ASSUME NEW s \in Sides PROVE n.height[s] = HeightOf(n.child[s])
  <2>1. PICK c : c = n.child[s]
    OBVIOUS
  <2>2. n.height[s] = Height(L, c)
    BY <1>3, <1>4, <2>1 DEF Tall, Opening
  <2>3. c # invalid_mask => memory[c] = L[c]
    BY <1>1, <1>2, <1>3, <1>4, <2>1, TreeChild
  <2> QED
    BY <2>1, <2>2, <2>3 DEF Height, HeightOf
<1>6. /\ n.height["left"] \in Nat /\ n.height["right"] \in Nat
      /\ n.height["left"] <= n.height["right"] + 1 /\ n.height["right"] <= n.height["left"] + 1
  BY <1>4, NodeFields DEF Even, Sides, Other
<1> QED
  BY <1>5, <1>6

\* An insertion that no failure disturbs leaves an AVL tree of the dictionary in the ORAM,
\* with exactly the keys inserted, each with the first value, and the heights that the nodes
\* keep are true: Balance and its rotations put the nodes that the cache evicted, or still
\* has, together again.
THEOREM TreeIsSound == Spec => []TreeSound
<1>1. Init => Typing /\ Counted /\ Sound
  BY InitTyping, InitCounted, InitSound
<1>2. Typing /\ Counted /\ Sound /\ [Next]_vars => Typing' /\ Counted' /\ Sound'
  BY NextTyping, NextCounted, NextSound
<1>3. Typing /\ Sound => TreeSound
  BY SoundHoldsDictionary, SoundBalanced DEF TreeSound, Typing
<1> QED
  BY <1>1, <1>2, <1>3, PTL DEF Spec

-------------------------------------------------------------------------------
(* What a search returns. *)

FoundIt == pc = "pad_reads" /\ call.op = "find" /\ ~dropped => answer = dict[call.key]

LEMMA NotFoundFinds ==
    ASSUME Typing, Counted, Sound, NotFound PROVE FoundIt'
<1>1. /\ pc = "descend" /\ cursor = invalid_mask /\ answer' = answer /\ call' = call
      /\ dict' = dict /\ dropped' = dropped
  BY DEF NotFound, Kept
<1> SUFFICES ASSUME ~dropped PROVE answer' = dict'[call'.key]
  BY <1>1 DEF FoundIt
<1>2. answer = None /\ ~ods.stale
  BY <1>1 DEF Counted, Walking
<1>3. PICK L, U : AtRest(L, U) /\ Searching(L, U)
  BY <1>1, <1>2 DEF Sound, SoundAt, AtDescend
<1>4. /\ Focus(dict, used, L, U, root_id, <<>>, {}) /\ U[invalid_mask] = {}
      /\ call.key \in Key
  BY <1>1, <1>3, RestFacts DEF Typing, CallOK
<1>5. Holds(dict, L, U[root_id])
  BY <1>4 DEF Focus, RootOf
<1>6. \A j \in U[root_id] : L[j].key # call.key
  BY <1>1, <1>3, <1>4 DEF Searching
<1>7. dict[call.key] = None
  BY <1>4, <1>5, <1>6 DEF Holds
<1> QED
  BY <1>1, <1>2, <1>7

LEMMA DescendFinds ==
    ASSUME Typing, Counted, Sound, Descend PROVE FoundIt'
<1>1. /\ pc = "descend" /\ call' = call /\ dict' = dict /\ dropped' = dropped
      /\ pc' = "pad_reads" =>
            /\ Side(Top(ods'), call.key) = "here"
            /\ call.op = "find" => answer' = Top(ods').val
  BY DEF Descend, Kept, Goto
<1> SUFFICES ASSUME ~dropped, pc' = "pad_reads", call.op = "find"
             PROVE  answer' = dict[call.key]
  BY <1>1 DEF FoundIt
<1>2. ~ods.stale /\ ~ods'.stale
  BY <1>1, ReadOnWay DEF Counted, Walking
<1>3. PICK L, U : AtDescend(L, U)
  BY <1>1, <1>2 DEF Sound, SoundAt
<1>4. /\ cursor \in U[root_id] /\ L[cursor] \in Node /\ Top(ods') = L[cursor]
      /\ call.key \in Nat
  BY <1>2, <1>3, DescendReads
<1>5. L[cursor].key = call.key
  BY <1>1, <1>4, NodeFields DEF Side
<1>6. Focus(dict, used, L, U, root_id, <<>>, {})
  BY <1>3, RestFacts DEF AtDescend
<1>7. Holds(dict, L, U[root_id])
  BY <1>6 DEF Focus, RootOf
<1> QED
  BY <1>1, <1>4, <1>5, <1>7 DEF Holds

LEMMA NextFinds ==
    ASSUME Typing, Counted, Sound, FoundIt, [Next]_vars PROVE FoundIt'
<1>1. CASE NotFound BY <1>1, NotFoundFinds
<1>2. CASE Descend BY <1>2, DescendFinds
<1>3. CASE Call
  BY <1>3 DEF Call, Find, Insert, Begin, FoundIt
<1>4. CASE InsertReturns
  BY <1>4 DEF InsertReturns, FoundIt, Typing, CallOK
<1>5. CASE Broken
  <2>1. pc' \in {"aborted", "garbled"}
    BY <1>5, BrokenTyping DEF Broken, Goto, Typing, TypeOK, Work
  <2> QED
    BY <2>1 DEF FoundIt
<1>6. CASE \/ ReadFails \/ Overflow \/ Place \/ Ascend \/ WriteBack
  <2>1. pc' # "pad_reads"
    BY <1>6 DEF ReadFails, Overflow, Place, Ascend, WriteBack, Goto
  <2> QED
    BY <2>1 DEF FoundIt
<1>7. CASE Balance \/ LeftRotate \/ RightRotate \/ \E side \in Sides : Relink(side)
  <2>1. PICK w, rest : Proceed(w, rest) /\ pc \in {"balance", "rotate"}
    BY ZenonT(30), <1>7 DEF Balance, LeftRotate, RightRotate, Rotate, Relink
  <2>2. call' = call /\ call.op = "insert"
    BY <2>1 DEF Proceed, Kept, Typing, CallOK
  <2> QED
    BY SMTT(30), <2>2 DEF FoundIt
<1>8. CASE PadReads \/ PadWrites
  <2>1. pc' # "pad_reads"
    BY <1>8, DoPadCases DEF PadReads, PadWrites
  <2> QED
    BY <2>1 DEF FoundIt
<1>9. CASE UNCHANGED vars
  BY <1>9 DEF vars, FoundIt
<1> QED
  BY <1>1, <1>2, <1>3, <1>4, <1>5, <1>6, <1>7, <1>8, <1>9 DEF Next, Step

\* What a search of an undamaged dictionary returns, FindInternal's node or nullptr, is the
\* first value inserted for the key.
THEOREM FindReturnsFirst == Spec => FindsFirst
<1>1. Init => Typing /\ Counted /\ Sound /\ FoundIt
  BY InitTyping, InitCounted, InitSound DEF Init, FoundIt
<1>2. Typing /\ Counted /\ Sound /\ FoundIt /\ [Next]_vars
        => Typing' /\ Counted' /\ Sound' /\ FoundIt'
  BY NextTyping, NextCounted, NextSound, NextFinds
<1>3. FoundIt /\ [Next]_vars =>
        [pc = "pad_reads" /\ call.op = "find" /\ ~dropped => answer = dict[call.key]]_vars
  BY DEF FoundIt
<1> QED
  BY <1>1, <1>2, <1>3, PTL DEF Spec, FindsFirst

-------------------------------------------------------------------------------
(* Why an operation may stop. *)

FirstBlock == faults = 0 => memory[invalid_mask] # Gone

\* A read of a node of the tree goes wrong only if the node was evicted with changes.
LEMMA BadRead ==
    ASSUME setup \in Setups, NEW m \in Nat, NEW w, WorkOK(w, m), MemoryOK(m), w.bad = "no",
           NEW L, NEW t, NEW D, Stored(memory, w, L, D), Reached(L, t, D), NEW id \in D,
           NEW v, v = OdsAccessRead(w, id)
    PROVE  /\ v.bad # "no" => v.evicted # {}
           /\ w.stale => v.stale
           /\ WorkOK(v, m)
           /\ v.bad = "no" /\ ~v.stale => Top(v) = L[id] /\ Stored(memory, v, L, D)
<1>1. id \in Ids /\ L[id] \in Node
  BY DEF Reached
<1> QED
  BY <1>1, StoredRead, ReadSound, StaleStays

\* The nodes that a rotation reads are those of the tree.
LEMMA RotateNodes ==
    ASSUME Typing, pc = "rotate", NEW s \in Sides, Head(tasks).do = s,
           NEW L, NEW U, AtRotate(L, U)
    PROVE  \E t, D : /\ Stored(memory, ods, L, D) /\ Reached(L, t, D)
                     /\ Head(tasks).id \in D /\ L[Head(tasks).id].child[Other(s)] \in D
<1>1. PICK z \in Sides, t \in Ids, y \in Ids :
           \/ AtLast(L, U, t, z, y)
           \/ AtFirst(L, U, t, z, y)
           \/ \E n : AtSecond(L, U, t, z, y, n)
  BY DEF AtRotate
<1>2. PICK D : D = U[RootOf(t, stack)] \ SpineIds(stack)
  BY Zenon
<1>3. CASE AtLast(L, U, t, z, y)
  <2>1. z = s /\ Head(tasks).id = t /\ y = L[t].child[Other(s)] /\ y # invalid_mask
        /\ Working(L, U, t, stack, {t, y})
    BY Zenon, <1>3 DEF AtLast
  <2>2. Stored(memory, ods, L, D) /\ Reached(L, t, D)
    BY ONLY <1>2, <2>1, WorkingFacts
  <2>3. t \in D /\ y \in D
    BY <2>1, <2>2, OtherSide DEF Reached
  <2> QED
    BY <2>1, <2>2, <2>3
<1>4. CASE AtFirst(L, U, t, z, y)
  <2>1. z = s /\ y = L[t].child[s] /\ Head(tasks).id = y
    BY <1>4 DEF AtFirst, DoubleRotation, Task
  <2>2. PICK c : c = L[y].child[Other(s)]
    OBVIOUS
  <2>3. Doubled(L, U, t, s, y, c, D, Append(stack, [node |-> L[t], side |-> s]))
    BY <1>2, <1>4, <2>1, <2>2, FirstFacts
  <2>4. Stored(memory, ods, L, D) /\ Reached(L, t, D) /\ y \in D /\ c \in D
    BY <2>3 DEF Doubled
  <2> QED
    BY <2>1, <2>2, <2>4
<1>5. ~\E n : AtSecond(L, U, t, z, y, n)
  <2> SUFFICES ASSUME NEW n, AtSecond(L, U, t, z, y, n) PROVE FALSE
    OBVIOUS
  <2>1. PICK a, b : a = Task(Relinking(z), t, n) /\ b = Task(Other(z), t, n)
    OBVIOUS
  <2>2. tasks = <<a, b>> /\ a.do = Relinking(z)
    BY <2>1 DEF AtSecond, Task
  <2>3. Head(<<a, b>>) = a
    OBVIOUS
  <2> QED
    BY <2>2, <2>3, TaskNames
<1> QED
  BY <1>1, <1>3, <1>4, <1>5

LEMMA RotateStops ==
    ASSUME Typing, Sound, NEW s \in Sides, Rotate(s)
    PROVE  StopJustified'
<1>1. /\ used \in Nat /\ setup \in Setups /\ ods.bad = "no" /\ WorkOK(ods, used)
      /\ MemoryOK(used) /\ pc = "rotate" /\ Head(tasks).do = s
  BY Zenon, TypingFacts DEF Rotate, Running
<1>2. PICK x : x = Head(tasks).id
  OBVIOUS
<1>3. x \in Ids
  BY <1>1, <1>2, HeadTask DEF Tasks
<1>4. PICK w1, w2, down, w3, up, w4 :
              /\ RotateSteps(s, x, ods, w1, w2, down, w3, up, w4)
              /\ Proceed(w4, Tail(tasks))
  BY <1>2, RotateStep
<1>5. WorkOK(w4, used)
  BY <1>1, <1>3, <1>4, RotationWork
<1>6. ods' = w4 /\ dropped' = dropped /\ (w4.bad = "no" => pc' \in {"ascend", "rotate"})
  BY ONLY Zenon, Typing, <1>1, <1>4, <1>5, ProceedFacts
<1>7. /\ w1 = OdsAccessRead(ods, x) /\ w2 = OdsAccessRead(w1, Top(w1).child[Other(s)])
  BY <1>4 DEF RotateSteps
<1>8. /\ WorkOK(w1, used) /\ WorkOK(w2, used)
      /\ w1.bad # "no" => w4 = w1
      /\ w1.bad = "no" /\ w2.bad # "no" => w4 = w2
      /\ w1.bad = "no" => Top(w1).child[Other(s)] \in Ids
      /\ w1.bad = "no" /\ w2.bad = "no" => w4.bad = "no"
  BY <1>1, <1>3, <1>4, RotationWork
<1> SUFFICES ASSUME ~dropped, w4.bad # "no" PROVE w4.evicted # {} \/ w4.stale
  BY <1>6 DEF StopJustified
<1>9. ods.stale => w1.stale
  BY <1>1, <1>3, <1>7, StaleStays
<1>10. w1.bad = "no" /\ w1.stale => w4.stale
  BY <1>1, <1>7, <1>8, StaleStays
<1>11. CASE ods.stale
  BY <1>8, <1>9, <1>10, <1>11
<1>12. CASE ~ods.stale
  <2>1. PICK L, U : AtRotate(L, U)
    BY <1>1, <1>12 DEF Sound, SoundAt
  <2>2. PICK t, D : /\ Stored(memory, ods, L, D) /\ Reached(L, t, D)
                    /\ x \in D /\ L[x].child[Other(s)] \in D
    BY <1>1, <1>2, <2>1, RotateNodes
  <2>3. /\ w1.bad # "no" => w1.evicted # {}
        /\ w1.bad = "no" /\ ~w1.stale => Top(w1) = L[x] /\ Stored(memory, w1, L, D)
    BY <1>1, <1>7, <2>2, BadRead
  <2>4. w1.bad = "no" /\ ~w1.stale /\ w2.bad # "no" => w2.evicted # {}
    BY <1>1, <1>7, <1>8, <2>2, <2>3, BadRead
  <2> QED
    BY Zenon, <1>8, <1>10, <2>3, <2>4
<1> QED
  BY <1>11, <1>12

LEMMA BalanceStops ==
    ASSUME Typing, Sound, Balance
    PROVE  StopJustified'
<1> DEFINE n == Top(ods)
           heavy == {s \in Sides : Heavy(n, s)}
<1>1. /\ pc = "balance" /\ n \in Node /\ n.id \in Ids /\ setup \in Setups /\ used \in Nat
      /\ WorkOK(ods, used) /\ MemoryOK(used) /\ ods.bad = "no"
  BY BalanceTyping, TypingFacts, NodeFields DEF Balance, Running
<1> HIDE DEF n
<1>2. CASE heavy = {} /\ Proceed(ods, <<>>)
  <2>1. pc' = "ascend"
    BY <1>1, <1>2, ProceedFacts
  <2> QED
    BY <2>1 DEF StopJustified
<1>3. ASSUME NEW s \in heavy, NEW w, w = OdsAccessRead(Marked, n.child[s]),
             IF Top(w).height[s] >= Top(w).height[Other(s)]
             THEN Proceed(w, SingleRotation(s, n))
             ELSE Proceed(OdsAccessRead(w, n.id), DoubleRotation(s, n))
      PROVE  StopJustified'
  <2>1. s \in Sides /\ Heavy(n, s) /\ n.child[s] \in Ids
    BY <1>1, NodeFields
  <2>2. /\ WorkOK(Marked, used) /\ Marked.bad = "no" /\ Marked.stale = ods.stale
        /\ WorkOK(w, used) /\ (ods.stale => w.stale)
        /\ \A L, D : Stored(memory, ods, L, D) => Stored(memory, Marked, L, D)
    BY <1>1, <1>3, <2>1, MarkedFacts
  <2>3. PICK v : v = OdsAccessRead(w, n.id)
    OBVIOUS
  <2>4. WorkOK(v, used) /\ (w.stale => v.stale) /\ (w.bad # "no" => v = w)
    <3>1. CASE w.bad # "no"
      BY <2>2, <2>3, <3>1, BadStays
    <3>2. CASE w.bad = "no"
      BY <1>1, <2>2, <2>3, <3>2, ReadWork, StaleStays
    <3> QED
      BY <3>1, <3>2
  <2>5. PICK x, rest : Proceed(x, rest) /\ WorkOK(x, used) /\ (x = w \/ x = v) /\ rest # <<>>
    BY <1>3, <2>2, <2>3, <2>4 DEF SingleRotation, DoubleRotation
  <2>6. ods' = x /\ dropped' = dropped /\ (x.bad = "no" => pc' = "rotate")
    BY <1>1, <2>5, ProceedFacts
  <2> SUFFICES ASSUME ~dropped, x.bad # "no" PROVE x.evicted # {} \/ x.stale
    BY <2>6 DEF StopJustified
  <2>7. CASE ods.stale
    BY <2>2, <2>4, <2>5, <2>7
  <2>8. CASE ~ods.stale
    <3>1. PICK L, U, t : AtBalance(L, U, t)
      BY <1>1, <2>8 DEF Sound, SoundAt
    <3>2. n = L[t] /\ Working(L, U, t, stack, {t}) /\ L[t].child[s] # invalid_mask
      <4>1. n = L[t]
        BY <3>1 DEF AtBalance, n
      <4> QED
        BY <2>1, <3>1, <4>1, HeavyFacts DEF AtBalance
    <3>3. PICK D : D = U[RootOf(t, stack)] \ SpineIds(stack)
      OBVIOUS
    <3>4. Stored(memory, ods, L, D) /\ Reached(L, t, D)
      BY ONLY <3>2, <3>3, WorkingFacts
    <3>5. n.child[s] \in D /\ n.id = t /\ t \in D
      BY <2>1, <3>2, <3>4 DEF Reached
    <3>6. Stored(memory, Marked, L, D)
      BY <2>2, <3>4
    <3>7. /\ w.bad # "no" => w.evicted # {}
          /\ w.bad = "no" /\ ~w.stale => Stored(memory, w, L, D)
      BY <1>1, <1>3, <2>2, <3>4, <3>5, <3>6, BadRead
    <3>8. w.bad = "no" /\ ~w.stale /\ v.bad # "no" => v.evicted # {}
      BY <1>1, <2>2, <2>3, <3>4, <3>5, <3>7, BadRead
    <3> QED
      BY <2>4, <2>5, <3>7, <3>8
  <2> QED
    BY <2>7, <2>8
<1> QED
  <2>1. Balance => \/ heavy = {} /\ Proceed(ods, <<>>)
                   \/ \E s \in heavy :
                        \E w \in {OdsAccessRead(Marked, n.child[s])} :
                            IF Top(w).height[s] >= Top(w).height[Other(s)]
                            THEN Proceed(w, SingleRotation(s, n))
                            ELSE Proceed(OdsAccessRead(w, n.id), DoubleRotation(s, n))
    BY DEF Balance, Marked, n
  <2> QED
    BY <1>2, <1>3, <2>1

LEMMA BrokenStops ==
    ASSUME Typing, Counted, Sound, Broken
    PROVE  StopJustified'
<1>1. /\ used \in Nat /\ setup \in Setups /\ WorkOK(ods, used) /\ MemoryOK(used)
      /\ ods.bad = "no" /\ cursor \in Ids /\ pc = "descend" /\ cursor # invalid_mask
      /\ ods' = OdsAccessRead(ods, cursor) /\ ods'.bad # "no" /\ dropped' = dropped
  BY TypingFacts DEF Broken, Running
<1> SUFFICES ASSUME ~dropped PROVE ods'.evicted # {}
  BY <1>1 DEF StopJustified
<1>2. ~ods.stale
  BY <1>1 DEF Counted, Walking
<1>3. PICK L, U : AtRest(L, U) /\ Searching(L, U)
  BY <1>1, <1>2 DEF Sound, SoundAt, AtDescend
<1>4. cursor \in U[root_id] /\ L[cursor] \in Node /\ Stored(memory, ods, L, U[root_id])
  BY <1>1, <1>3, RestFacts DEF Searching
<1> QED
  BY <1>1, <1>4, StoredRead

\* Every call of the recursion has read a node that the ones below it do not read: the
\* stack has room for them all.
LEMMA NoOverflow ==
    ASSUME Typing, Counted, Sound, Overflow
    PROVE  dropped
<1>1. pc = "descend" /\ cursor # invalid_mask /\ ods.reads >= MaxDepth
  BY DEF Overflow
<1> SUFFICES ASSUME ~dropped PROVE FALSE
  OBVIOUS
<1>2. ~ods.stale
  BY <1>1 DEF Counted, Walking
<1>3. PICK L, U : AtRest(L, U) /\ Searching(L, U)
  BY <1>1, <1>2 DEF Sound, SoundAt, AtDescend
<1>4. /\ cursor \in U[root_id] /\ Tree(L, U, root_id) /\ U[root_id] \subseteq 1..used
      /\ IsFiniteSet(U[root_id])
      /\ ods.reads + Cardinality(U[cursor]) <= Cardinality(U[root_id])
  BY <1>1, <1>3, RestFacts DEF Searching
<1>5. /\ IsFiniteSet(U[cursor]) /\ cursor \in U[cursor]
      /\ Cardinality(U[cursor]) \in Nat /\ Cardinality(U[root_id]) \in Nat
  BY <1>4, TreeNodes, FS_Subset, FS_CardinalityType
<1>6. Cardinality(U[cursor]) # 0
  BY <1>5, FS_EmptySet
<1>7. Cardinality(U[root_id]) <= used /\ used \in Nat /\ used <= MaxInserts
  <2>1. used \in Nat /\ used <= MaxInserts
    BY UsedType
  <2>2. IsFiniteSet(1..used) /\ Cardinality(1..used) = used
    BY <2>1, FS_Interval
  <2> QED
    BY <1>4, <2>1, <2>2, FS_Subset
<1>8. ods.reads \in Nat
  BY CountTypes
<1> QED
  BY <1>1, <1>4, <1>5, <1>6, <1>7, <1>8, DepthAssumption, OdictAssumption

\* A failed access is counted.
LEMMA FailsCounted ==
    ASSUME Typing, NEW m, Fails(m) PROVE faults' > 0
BY DEF Fails, Typing, TypeOK

LEMMA PadStops ==
    ASSUME Typing, FirstBlock, NEW num, NEW next, DoPad(num, next),
           next \in {"idle", "write_back"}
    PROVE  pc' = "aborted" => faults' > 0
<1>1. faults \in Nat /\ (memory[0] = Gone => faults > 0)
  BY DEF Typing, TypeOK, FirstBlock, invalid_mask
<1> QED
  BY <1>1, FailsCounted DEF DoPad, Goto

LEMMA NextStops ==
    ASSUME Typing, Counted, Sound, FirstBlock, StopJustified, [Next]_vars
    PROVE  StopJustified'
<1>1. CASE Broken BY <1>1, BrokenStops
<1>2. CASE Overflow
  BY <1>2, NoOverflow DEF Overflow, StopJustified
<1>3. CASE ReadFails
  BY <1>3, FailsCounted DEF ReadFails, StopJustified
<1>4. CASE Call \/ Descend \/ NotFound \/ Place \/ Ascend \/ InsertReturns \/ WriteBack
  <2>1. pc' \in {"descend", "pad_reads", "ascend", "balance", "write_back"}
    BY <1>4 DEF Call, Find, Insert, Begin, Descend, NotFound, Place, Ascend, InsertReturns,
       WriteBack, Goto
  <2> QED
    BY <2>1 DEF StopJustified
<1>5. CASE Balance BY <1>5, BalanceStops
<1>6. CASE LeftRotate \/ RightRotate
  BY <1>6, RotateStops DEF LeftRotate, RightRotate, Sides
<1>7. ASSUME NEW side \in Sides, Relink(side) PROVE StopJustified'
  <2>1. PICK n : /\ ods' = OdsAccessWrite(ods, n) /\ n \in Node /\ n.id \in 1..used
    BY <1>7, RelinkTyping DEF Relink1
  <2>2. ods'.bad = "no"
    BY <1>7, <2>1, TypingFacts, WriteWork DEF Relink, Running
  <2>3. pc' \in {"ascend", "rotate"}
    BY <1>7, <2>2 DEF Relink, Proceed, Goto
  <2> QED
    BY <2>3 DEF StopJustified
<1>8. CASE PadReads
  <2>1. pc' = "aborted" => faults' > 0
    BY <1>8, PadStops DEF PadReads
  <2>2. pc' \in {"write_back", "panicked", "aborted"}
    BY <1>8, DoPadCases DEF PadReads
  <2> QED
    BY <2>1, <2>2 DEF StopJustified
<1>9. CASE PadWrites
  <2>1. pc' = "aborted" => faults' > 0
    BY <1>9, PadStops DEF PadWrites
  <2>2. pc' \in {"idle", "panicked", "aborted"}
    BY <1>9, DoPadCases DEF PadWrites
  <2> QED
    BY <2>1, <2>2 DEF StopJustified
<1>10. CASE UNCHANGED vars
  BY <1>10 DEF vars, StopJustified
<1> QED
  BY <1>1, <1>2, <1>3, <1>4, <1>5, <1>6, <1>7, <1>8, <1>9, <1>10 DEF Next, Step

-------------------------------------------------------------------------------
(* The fewest nodes of a tree of some height. *)

\* g has the values of MinNodes up to n.
Counts(g, n) ==
    \A h \in 0..n : g[h] = (IF h < 2 THEN h ELSE g[h - 1] + g[h - 2] + 1) /\ g[h] \in Nat

LEMMA CountsExist ==
    ASSUME NEW n \in Nat PROVE \E g : Counts(g, n)
<1>1. PICK B : B = {m \in Nat : ~\E g : Counts(g, m)}
  OBVIOUS
<1> SUFFICES ASSUME B # {} PROVE FALSE
  BY <1>1
<1>2. PICK m \in B : \A k \in B : m <= k
  BY <1>1, LeastNumber
<1>3. m \in Nat /\ ~\E g : Counts(g, m)
  BY <1>1, <1>2
<1>4. CASE m = 0
  <2>1. PICK g : g = [h \in {0} |-> 0]
    OBVIOUS
  <2>2. Counts(g, m)
    BY <1>4, <2>1 DEF Counts
  <2> QED
    BY <1>3, <2>2
<1>5. CASE m > 0
  <2>1. m - 1 \in Nat /\ m - 1 \notin B
    BY <1>2, <1>3, <1>5
  <2>2. PICK g : Counts(g, m - 1)
    BY <1>1, <2>1
  <2>3. PICK last : last = (IF m < 2 THEN m ELSE g[m - 1] + g[m - 2] + 1)
    OBVIOUS
  <2>4. last \in Nat
    <3>1. m >= 2 => g[m - 1] \in Nat /\ g[m - 2] \in Nat
      <4>1. m >= 2 => m - 1 \in 0..(m - 1) /\ m - 2 \in 0..(m - 1)
        BY <1>3
      <4> QED
        BY <2>2, <4>1 DEF Counts
    <3> QED
      BY <1>3, <2>3, <3>1
  <2>5. PICK f : f = [h \in 0..m |-> IF h = m THEN last ELSE g[h]]
    OBVIOUS
  <2>6. ASSUME NEW h \in 0..m
        PROVE  f[h] = (IF h < 2 THEN h ELSE f[h - 1] + f[h - 2] + 1) /\ f[h] \in Nat
    <3>1. h >= 2 => /\ h - 1 \in 0..m /\ h - 1 # m /\ h - 2 \in 0..m /\ h - 2 # m
      BY <1>3
    <3>2. h >= 2 => f[h - 1] = g[h - 1] /\ f[h - 2] = g[h - 2]
      BY <2>5, <3>1
    <3>3. CASE h = m
      BY <2>3, <2>4, <2>5, <3>2, <3>3
    <3>4. CASE h # m
      <4>1. h \in 0..(m - 1) /\ f[h] = g[h]
        BY <1>3, <2>5, <3>4
      <4> QED
        BY <2>2, <3>2, <4>1 DEF Counts
    <3> QED
      BY <3>3, <3>4
  <2>7. Counts(f, m)
    BY <2>6 DEF Counts
  <2> QED
    BY <1>3, <2>7
<1> QED
  BY <1>3, <1>4, <1>5

LEMMA CountsAgree ==
    ASSUME NEW g, NEW n \in Nat, Counts(g, n), NEW f, NEW m \in Nat, Counts(f, m),
           NEW k \in Nat, k <= n, k <= m
    PROVE  g[k] = f[k]
<1>1. PICK B : B = {h \in Nat : h <= n /\ h <= m /\ g[h] # f[h]}
  OBVIOUS
<1> SUFFICES ASSUME B # {} PROVE FALSE
  BY <1>1
<1>2. PICK h \in B : \A j \in B : h <= j
  BY <1>1, LeastNumber
<1>3. h \in 0..n /\ h \in 0..m /\ g[h] # f[h]
  BY <1>1, <1>2
<1>4. h >= 2 => g[h - 1] = f[h - 1] /\ g[h - 2] = f[h - 2]
  <2>1. h >= 2 => h - 1 \notin B /\ h - 2 \notin B /\ h - 1 \in Nat /\ h - 2 \in Nat
    BY <1>2, <1>3
  <2>2. h >= 2 => h - 1 <= n /\ h - 1 <= m /\ h - 2 <= n /\ h - 2 <= m
    BY <1>3
  <2> QED
    BY <1>1, <2>1, <2>2
<1> QED
  BY <1>3, <1>4 DEF Counts

LEMMA MinNodesIs ==
    ASSUME NEW h \in Nat
    PROVE  /\ MinNodes[h] = (IF h < 2 THEN h ELSE MinNodes[h - 1] + MinNodes[h - 2] + 1)
           /\ MinNodes[h] \in Nat
<1>1. PICK f : f = [n \in Nat |-> (CHOOSE g : Counts(g, n))[n]]
  OBVIOUS
<1>2. ASSUME NEW n \in Nat, NEW g, Counts(g, n), NEW k \in Nat, k <= n PROVE f[k] = g[k]
  <2>1. Counts(CHOOSE c : Counts(c, k), k)
    BY CountsExist
  <2>2. PICK c : c = CHOOSE a : Counts(a, k)
    OBVIOUS
  <2>3. Counts(c, k) /\ f[k] = c[k]
    BY <1>1, <2>1, <2>2
  <2> QED
    BY <1>2, <2>3, CountsAgree
<1>3. ASSUME NEW n \in Nat
      PROVE  f[n] = (IF n < 2 THEN n ELSE f[n - 1] + f[n - 2] + 1) /\ f[n] \in Nat
  <2>1. PICK g : Counts(g, n)
    BY CountsExist
  <2>2. f[n] = g[n]
    BY <1>2, <2>1
  <2>3. n >= 2 => f[n - 1] = g[n - 1] /\ f[n - 2] = g[n - 2]
    <3>1. n >= 2 => n - 1 \in Nat /\ n - 2 \in Nat /\ n - 1 <= n /\ n - 2 <= n
      OBVIOUS
    <3> QED
      BY <1>2, <2>1, <3>1
  <2> QED
    BY <2>1, <2>2, <2>3 DEF Counts
<1>4. f = [n \in Nat |-> IF n < 2 THEN n ELSE f[n - 1] + f[n - 2] + 1]
  <2>1. PICK e : e = [n \in Nat |-> IF n < 2 THEN n ELSE f[n - 1] + f[n - 2] + 1]
    OBVIOUS
  <2>2. \A n \in Nat : e[n] = f[n]
    BY <1>3, <2>1
  <2> QED
    BY <1>1, <2>1, <2>2
<1>5. MinNodes = [n \in Nat |-> IF n < 2 THEN n ELSE MinNodes[n - 1] + MinNodes[n - 2] + 1]
  BY <1>4, Zenon DEF MinNodes
<1>6. Counts(MinNodes, h) /\ MinNodes[h] \in Nat
  <2>1. PICK M : M = MinNodes
    OBVIOUS
  <2>2. \A n \in Nat : M[n] = (IF n < 2 THEN n ELSE M[n - 1] + M[n - 2] + 1)
    BY <1>5, <2>1
  <2>3. PICK B : B = {n \in Nat : M[n] # f[n]}
    OBVIOUS
  <2>4. B = {}
    <3> SUFFICES ASSUME B # {} PROVE FALSE
      OBVIOUS
    <3>1. PICK n \in B : \A j \in B : n <= j
      BY <2>3, LeastNumber
    <3>2. n \in Nat /\ M[n] # f[n]
      BY <2>3, <3>1
    <3>3. n >= 2 => M[n - 1] = f[n - 1] /\ M[n - 2] = f[n - 2]
      <4>1. n >= 2 => n - 1 \notin B /\ n - 2 \notin B /\ n - 1 \in Nat /\ n - 2 \in Nat
        BY <3>1, <3>2
      <4> QED
        BY <2>3, <4>1
    <3> QED
      BY <1>3, <2>2, <3>2, <3>3
  <2>5. \A n \in Nat : M[n] = f[n]
    BY <2>3, <2>4
  <2>6. \A n \in Nat : M[n] \in Nat
    BY <1>3, <2>5
  <2> QED
    BY <2>1, <2>2, <2>6 DEF Counts
<1> QED
  BY <1>5, <1>6

LEMMA MinNodesGrows ==
    ASSUME NEW a \in Nat, NEW b \in Nat, a <= b PROVE MinNodes[a] <= MinNodes[b]
<1>1. PICK M : M = MinNodes
  OBVIOUS
<1>2. \A h \in Nat : M[h] \in Nat /\ M[h] = (IF h < 2 THEN h ELSE M[h - 1] + M[h - 2] + 1)
  BY <1>1, MinNodesIs
<1>3. ASSUME NEW h \in Nat PROVE M[h] <= M[h + 1]
  <2>1. CASE h = 0
    <3>1. M[0] = 0 /\ M[1] \in Nat
      BY <1>2
    <3> QED
      BY <2>1, <3>1
  <2>2. CASE h >= 1
    <3>1. h + 1 \in Nat /\ h - 1 \in Nat /\ ~(h + 1 < 2) /\ (h + 1) - 1 = h /\ (h + 1) - 2 = h - 1
      BY <2>2
    <3>2. M[h + 1] = M[h] + M[h - 1] + 1 /\ M[h] \in Nat /\ M[h - 1] \in Nat
      BY <1>2, <3>1
    <3> QED
      BY <3>2
  <2> QED
    BY <2>1, <2>2
<1>4. PICK B : B = {d \in Nat : ~(M[a] <= M[a + d])}
  OBVIOUS
<1>5. B = {}
  <2> SUFFICES ASSUME B # {} PROVE FALSE
    OBVIOUS
  <2>1. PICK d \in B : \A j \in B : d <= j
    BY <1>4, LeastNumber
  <2>2. d \in Nat /\ ~(M[a] <= M[a + d]) /\ M[a] \in Nat /\ M[a + d] \in Nat
    BY <1>2, <1>4, <2>1
  <2>3. d # 0
    BY <2>2
  <2>4. d - 1 \in Nat /\ d - 1 \notin B
    BY <2>1, <2>2, <2>3
  <2>5. PICK e : e = a + (d - 1)
    OBVIOUS
  <2>6. e \in Nat /\ e + 1 = a + d /\ M[a] <= M[e] /\ M[e] \in Nat
    BY <1>2, <1>4, <2>4, <2>5
  <2>7. M[e] <= M[e + 1]
    BY <1>3, <2>6
  <2> QED
    BY <2>2, <2>6, <2>7
<1>6. b - a \in Nat /\ a + (b - a) = b
  OBVIOUS
<1> QED
  BY <1>1, <1>4, <1>5, <1>6

LEMMA MinNodesAbove ==
    ASSUME NEW a \in Nat, NEW b \in Nat, a <= b + 1, b <= a + 1
    PROVE  MinNodes[Over(a, b)] <= MinNodes[a] + MinNodes[b] + 1
<1>1. PICK M : M = MinNodes
  OBVIOUS
<1>2. \A h \in Nat : M[h] \in Nat /\ M[h] = (IF h < 2 THEN h ELSE M[h - 1] + M[h - 2] + 1)
  BY <1>1, MinNodesIs
<1>3. \A i, j \in Nat : i <= j => M[i] <= M[j]
  BY <1>1, MinNodesGrows
<1>4. ASSUME NEW p \in Nat, NEW q \in Nat, q <= p, p <= q + 1
      PROVE  M[p + 1] <= M[p] + M[q] + 1
  <2>1. CASE p = 0
    <3>1. M[0] = 0 /\ M[1] = 1 /\ q = 0
      BY <1>2, <1>4, <2>1
    <3> QED
      BY <2>1, <3>1
  <2>2. CASE p >= 1
    <3>1. p + 1 \in Nat /\ p - 1 \in Nat /\ ~(p + 1 < 2) /\ (p + 1) - 1 = p /\ (p + 1) - 2 = p - 1
          /\ p - 1 <= q
      BY <1>4, <2>2
    <3>2. M[p + 1] = M[p] + M[p - 1] + 1 /\ M[p] \in Nat /\ M[p - 1] \in Nat
          /\ M[p - 1] <= M[q] /\ M[q] \in Nat
      BY <1>2, <1>3, <3>1
    <3> QED
      BY <3>2
  <2> QED
    BY <2>1, <2>2
<1>5. CASE a >= b
  <2>1. Over(a, b) = a + 1
    BY <1>5 DEF Over
  <2> QED
    BY <1>1, <1>4, <1>5, <2>1
<1>6. CASE ~(a >= b)
  <2>1. Over(a, b) = b + 1 /\ a <= b
    BY <1>6 DEF Over
  <2>2. M[a] + M[b] + 1 = M[b] + M[a] + 1
    BY <1>2
  <2> QED
    BY <1>1, <1>4, <2>1, <2>2
<1> QED
  BY <1>5, <1>6

\* A tree of even nodes with true heights has that many nodes at least.
LEMMA TreeMin ==
    ASSUME NEW L, NEW U, NEW r, Tree(L, U, r), IsFiniteSet(U[r]),
           \A j \in U[r] : \A s \in Sides : L[j].height[s] = Height(L, L[j].child[s]),
           \A j \in U[r] : Even(L[j])
    PROVE  \A j \in U[r] : MinNodes[HEIGHT(L[j])] <= Cardinality(U[j])
<1>1. PICK B : B = {j \in U[r] : ~(MinNodes[HEIGHT(L[j])] <= Cardinality(U[j]))}
  OBVIOUS
<1> SUFFICES ASSUME B # {} PROVE FALSE
  BY <1>1
<1>2. \A j \in B : Cardinality(U[j]) \in Nat
  BY <1>1, TreeSizes
<1>3. PICK j \in B : \A k \in B : Cardinality(U[j]) <= Cardinality(U[k])
  BY <1>2, LeastSize
<1>4. /\ j \in U[r] /\ L[j] \in Node /\ Even(L[j])
      /\ ~(MinNodes[HEIGHT(L[j])] <= Cardinality(U[j]))
  BY <1>1, <1>3, TreeNodes
<1>5. ASSUME NEW s \in Sides, NEW c, c = L[j].child[s]
      PROVE  /\ IsFiniteSet(U[c]) /\ Cardinality(U[c]) \in Nat /\ j \notin U[c]
             /\ L[j].height[s] \in Nat
             /\ MinNodes[L[j].height[s]] <= Cardinality(U[c])
  <2>1. U[c] \subseteq U[r] /\ j \notin U[c] /\ L[j].height[s] \in Nat
    BY <1>4, <1>5, TreeChild, NodeFields
  <2>2. IsFiniteSet(U[c]) /\ Cardinality(U[c]) \in Nat
    BY <2>1, FS_Subset, FS_CardinalityType
  <2>3. L[j].height[s] = Height(L, c)
    BY <1>4, <1>5
  <2>4. CASE c = invalid_mask
    <3>1. U[c] = {} /\ L[j].height[s] = 0
      BY <2>3, <2>4 DEF Tree, Height
    <3>2. MinNodes[0] = 0 /\ Cardinality({}) = 0
      BY MinNodesIs, FS_EmptySet
    <3> QED
      BY <2>1, <2>2, <3>1, <3>2
  <2>5. CASE c # invalid_mask
    <3>1. c \in U[r] /\ Cardinality(U[c]) < Cardinality(U[j])
      BY <1>4, <1>5, <2>5, TreeSizes
    <3>2. Cardinality(U[j]) \in Nat
      BY <1>2
    <3>3. c \notin B
      BY <1>3, <2>2, <3>1, <3>2
    <3>4. MinNodes[HEIGHT(L[c])] <= Cardinality(U[c])
      BY <1>1, <3>1, <3>3
    <3> QED
      BY <2>1, <2>2, <2>3, <2>5, <3>4 DEF Height
  <2> QED
    BY <2>4, <2>5
<1>6. PICK b, c : b = L[j].child["left"] /\ c = L[j].child["right"]
  OBVIOUS
<1>7. /\ IsFiniteSet(U[b]) /\ Cardinality(U[b]) \in Nat /\ j \notin U[b]
      /\ IsFiniteSet(U[c]) /\ Cardinality(U[c]) \in Nat /\ j \notin U[c]
      /\ L[j].height["left"] \in Nat /\ L[j].height["right"] \in Nat
      /\ MinNodes[L[j].height["left"]] <= Cardinality(U[b])
      /\ MinNodes[L[j].height["right"]] <= Cardinality(U[c])
  BY <1>5, <1>6 DEF Sides
<1>8. Cardinality(U[j]) = Cardinality(U[b]) + Cardinality(U[c]) + 1
  <2>1. \A i \in U[c] : i \notin U[b]
    BY <1>4, <1>6, TreeChild DEF Sides, Other
  <2>2. U[j] = (U[b] \cup U[c]) \cup {j}
    BY <1>4, <1>6, TreeNodes DEF Sides
  <2>3. IsFiniteSet(U[b] \cup U[c])
        /\ Cardinality(U[b] \cup U[c]) = Cardinality(U[b]) + Cardinality(U[c])
    <3>1. U[b] \cap U[c] = {}
      BY <2>1
    <3>2. PICK X, Y : X = U[b] /\ Y = U[c]
      OBVIOUS
    <3>3. /\ IsFiniteSet(X) /\ IsFiniteSet(Y) /\ Cardinality(X \cap Y) = 0
          /\ Cardinality(X) \in Nat /\ Cardinality(Y) \in Nat
      BY <1>7, <3>1, <3>2, FS_EmptySet
    <3>4. /\ IsFiniteSet(X \cup Y)
          /\ Cardinality(X \cup Y) = Cardinality(X) + Cardinality(Y) - Cardinality(X \cap Y)
      BY ONLY <3>3, FS_Union
    <3> QED
      BY <3>2, <3>3, <3>4
  <2>4. j \notin U[b] \cup U[c]
    BY <1>7
  <2>5. Cardinality((U[b] \cup U[c]) \cup {j}) = Cardinality(U[b] \cup U[c]) + 1
    BY <2>3, <2>4, FS_AddElement
  <2> QED
    BY <2>2, <2>3, <2>5
<1>9. HEIGHT(L[j]) = Over(L[j].height["left"], L[j].height["right"])
  BY <1>4, HeightOver DEF Sides, Other
<1>10. L[j].height["left"] <= L[j].height["right"] + 1
       /\ L[j].height["right"] <= L[j].height["left"] + 1
  BY <1>4 DEF Even, Sides, Other
<1>11. MinNodes[Over(L[j].height["left"], L[j].height["right"])]
          <= MinNodes[L[j].height["left"]] + MinNodes[L[j].height["right"]] + 1
  BY <1>7, <1>10, MinNodesAbove
<1>12. /\ MinNodes[L[j].height["left"]] \in Nat /\ MinNodes[L[j].height["right"]] \in Nat
       /\ MinNodes[HEIGHT(L[j])] \in Nat
  BY <1>4, <1>7, MinNodesIs, HeightType
<1> QED
  BY <1>4, <1>7, <1>8, <1>9, <1>11, <1>12

-------------------------------------------------------------------------------
(* The blocks of the ORAM. *)

Intact == faults = 0 => \A j \in Ids : j < setup.oram => memory[j] # Gone

LEMMA IntactFirst ==
    ASSUME Typing, Intact PROVE FirstBlock
<1>1. setup.oram \in Nat \ {0} /\ invalid_mask \in Ids
  BY TypingFacts, SetupType DEF invalid_mask, Ids
<1> QED
  BY <1>1 DEF Intact, FirstBlock, invalid_mask

LEMMA SameSetup ==
    ASSUME [Next]_vars PROVE setup' = setup
<1>1. CASE Call BY <1>1 DEF Call, Find, Insert, Begin
<1>2. CASE Broken \/ ReadFails \/ Overflow \/ Descend \/ NotFound \/ Place
  BY <1>2 DEF Broken, ReadFails, Overflow, Descend, NotFound, Place, Kept
<1>3. CASE Ascend \/ InsertReturns \/ PadReads \/ WriteBack \/ PadWrites
  BY SMTT(30), <1>3 DEF Ascend, InsertReturns, PadReads, WriteBack, PadWrites, Kept
<1>4. CASE Balance \/ LeftRotate \/ RightRotate \/ \E side \in Sides : Relink(side)
  BY ZenonT(30), <1>4 DEF Balance, LeftRotate, RightRotate, Rotate, Relink, Proceed, Kept
<1>5. CASE UNCHANGED vars
  BY <1>5 DEF vars
<1> QED
  BY <1>1, <1>2, <1>3, <1>4, <1>5 DEF Next, Step

LEMMA NextIntact ==
    ASSUME Typing, Intact, [Next]_vars PROVE Intact'
<1>1. faults \in Nat /\ setup' = setup /\ memory \in [Ids -> Node \cup {Blank, Gone}]
  BY SameSetup DEF Typing, TypeOK
<1>2. CASE WriteBack
  <2>1. CASE faults' > 0
    BY <2>1 DEF Intact
  <2>2. CASE ~(faults' > 0)
    <3>1. PICK n : n = Head(ods.cache)
      OBVIOUS
    <3>2. n \in Node /\ n.id \in Ids
      BY <1>2, <3>1, WriteBackFacts
    <3>3. /\ faults' = faults
          /\ memory' = IF memory[n.id] # Gone THEN [memory EXCEPT ![n.id] = n] ELSE memory
      <4>1. ASSUME NEW m, Fails(m) PROVE FALSE
        BY <2>2, <4>1, FailsCounted
      <4> QED
        BY <1>2, <3>1, <4>1 DEF WriteBack
    <3>4. \A j \in Ids : memory[j] # Gone => memory'[j] # Gone
      BY <1>1, <3>2, <3>3, OdictAssumption
    <3> QED
      BY <1>1, <3>3, <3>4 DEF Intact
  <2> QED
    BY <2>1, <2>2
<1>3. CASE PadReads \/ PadWrites
  <2>1. \/ memory' = memory /\ faults' = faults
        \/ faults' = faults + 1
    BY <1>3, DoPadCases DEF PadReads, PadWrites
  <2> QED
    BY <1>1, <2>1 DEF Intact
<1>4. CASE ReadFails
  <2>1. faults' = faults + 1
    BY <1>4, ReadFailsTyping
  <2> QED
    BY <1>1, <2>1 DEF Intact
<1>5. CASE ~(WriteBack \/ PadReads \/ PadWrites \/ ReadFails)
  <2>1. memory' = memory /\ faults' = faults
    <3>1. CASE Call BY <3>1 DEF Call, Find, Insert, Begin
    <3>2. CASE Broken \/ Overflow \/ Descend \/ NotFound \/ Place \/ Ascend \/ InsertReturns
      BY SMTT(30), <3>2 DEF Broken, Overflow, Descend, NotFound, Place, Ascend, InsertReturns, Kept
    <3>3. CASE Balance \/ LeftRotate \/ RightRotate \/ \E side \in Sides : Relink(side)
      BY ZenonT(30), <3>3 DEF Balance, LeftRotate, RightRotate, Rotate, Relink, Proceed, Kept
    <3>4. CASE UNCHANGED vars
      BY <3>4 DEF vars
    <3> QED
      BY <1>5, <3>1, <3>2, <3>3, <3>4 DEF Next, Step
  <2> QED
    BY <1>1, <2>1 DEF Intact
<1> QED
  BY <1>2, <1>3, <1>4, <1>5

LEMMA InitIntact ==
    ASSUME Init PROVE Intact
BY DEF Init, Intact

-------------------------------------------------------------------------------
(* A cache with room for the way to the leaves loses nothing. *)

\* No access has failed, the ORAM has a block for every node, and the cache has room
\* for one node more than an AVL tree is high.
Roomy ==
    /\ faults = 0 /\ node_count <= setup.oram
    /\ ~(MinNodes[setup.cache] <= node_count - 2)

\* The child that a rotation may need next is cached.
HotIn(c, n) == \A s \in Sides : n.height[s] > n.height[Other(s)] => IsIn(c, n.child[s])

Clean == ~dropped /\ ods.evicted = {} /\ ~ods.stale

\* The nodes to return to are cached.
WarmStack ==
    call.op = "insert" /\ pc \in {"descend", "ascend", "balance", "rotate"} =>
        \A i \in DOMAIN stack : IsIn(ods.cache, stack[i].node.id)

\* There is room for the way down.
WarmDown ==
    pc = "descend" /\ call.op = "insert" => Len(ods.cache) + HeightOf(cursor) < setup.cache

\* A subtree that has grown is higher on the side of the way back.
WarmTop ==
    pc \in {"ascend", "balance"} /\ Spine # <<>> /\ HEIGHT(Top(ods)) = Base(Spine) + 1 =>
        HotIn(ods.cache, Top(ods))

\* So is the child that is to be rotated.
WarmHeavy(c, n) ==
    \A s \in Sides : Heavy(n, s) =>
        /\ IsIn(c, n.child[s])
        /\ \A k \in Nodes(c) : k.id = n.child[s] => HotIn(c, k)
WarmBalance == pc = "balance" => WarmHeavy(ods.cache, Top(ods))

\* Whatever a rotation reads is cached.
WarmTasks(c, rest) ==
    /\ \A i \in DOMAIN rest : IsIn(c, rest[i].id)
    /\ Head(rest).do \in Sides =>
          \A k \in Nodes(c) : k.id = Head(rest).id => IsIn(c, k.child[Other(Head(rest).do)])
WarmRotate == pc = "rotate" => WarmTasks(ods.cache, tasks)

WarmParts == Clean /\ WarmStack /\ WarmDown /\ WarmTop /\ WarmBalance /\ WarmRotate
Warm == Roomy => WarmParts

SameIds(c, d) == \A j : IsIn(c, j) <=> IsIn(d, j)

LEMMA SameIdsHot ==
    ASSUME NEW c, NEW d, SameIds(c, d), NEW n, HotIn(c, n) PROVE HotIn(d, n)
BY DEF SameIds, HotIn

LEMMA WarmRead ==
    ASSUME setup \in Setups, NEW m \in Nat, NEW w, WorkOK(w, m), MemoryOK(m), w.bad = "no",
           NEW id \in Ids, IsIn(w.cache, id), NEW v, v = OdsAccessRead(w, id)
    PROVE  /\ WorkOK(v, m) /\ v.bad = "no" /\ v.evicted = w.evicted /\ v.stale = w.stale
           /\ Top(v) \in Nodes(w.cache) /\ Top(v) \in Node /\ Top(v).id = id /\ id \in 1..m
           /\ Nodes(v.cache) = Nodes(w.cache) /\ SameIds(w.cache, v.cache)
           /\ v.cache # <<>>
<1>1. /\ WorkOK(v, m) /\ v.bad = "no" /\ v.evicted = w.evicted /\ v.stale = w.stale
      /\ Top(v) \in Nodes(w.cache) /\ Top(v) \in Node /\ Top(v).id = id /\ id \in 1..m
      /\ v.cache # <<>> /\ Keeps(w, v, Top(v))
  BY ReadSound
<1>2. Unique(w.cache)
  BY DEF WorkOK
<1>3. \A k \in Nodes(w.cache) : k.id = id => k = Top(v)
  BY <1>1, <1>2, UniqueNode
<1>4. Nodes(v.cache) = Nodes(w.cache)
  <2>1. PICK n : n = Top(v)
    OBVIOUS
  <2>2. /\ n \in Nodes(v.cache) /\ n \in Nodes(w.cache) /\ n.id = id /\ Keeps(w, v, n)
        /\ \A k \in Nodes(w.cache) : k.id = id => k = n
    BY <1>1, <1>3, <2>1 DEF Keeps
  <2>3. \A k \in Nodes(v.cache) : k \in Nodes(w.cache)
    BY <2>2 DEF Keeps
  <2>4. \A k \in Nodes(w.cache) : k \in Nodes(v.cache)
    BY <2>2 DEF Keeps
  <2> QED
    BY <2>3, <2>4
<1> QED
  BY <1>1, <1>4 DEF SameIds, IsIn

LEMMA WarmWrite ==
    ASSUME setup \in Setups, NEW m \in Nat, NEW w, WorkOK(w, m), w.bad = "no",
           NEW n \in Node, n.id \in 1..m, IsIn(w.cache, n.id), w.evicted = {},
           NEW v, v = OdsAccessWrite(w, n)
    PROVE  /\ WorkOK(v, m) /\ v.bad = "no" /\ v.evicted = {} /\ v.stale = w.stale
           /\ Top(v) = n /\ n \in Nodes(v.cache) /\ SameIds(w.cache, v.cache)
           /\ \A k \in Nodes(v.cache) : k = n \/ (k \in Nodes(w.cache) /\ k.id # n.id)
<1>1. /\ WorkOK(v, m) /\ v.bad = "no" /\ v.evicted = {} /\ v.stale = w.stale
      /\ Top(v) = n /\ Keeps(w, v, n)
  BY WriteSound
<1>2. SameIds(w.cache, v.cache)
  BY <1>1 DEF SameIds, IsIn, Keeps
<1> QED
  BY <1>1, <1>2 DEF Keeps

-------------------------------------------------------------------------------
(* The steps that leave the cache alone, or empty it. *)

LEMMA RoomyBack ==
    ASSUME Typing, [Next]_vars, Roomy' PROVE Roomy
<1>1. setup' = setup
  BY SameSetup
<1>2. faults \in Nat /\ node_count \in Nat /\ setup.oram \in Nat /\ setup.cache \in Nat
  BY TypingFacts, SetupType DEF Typing, TypeOK
<1>3. node_count' \in {node_count, node_count + 1}
  <2>1. CASE Call BY <2>1 DEF Call, Find, Insert, Begin
  <2>2. CASE Broken \/ ReadFails \/ Overflow \/ Descend \/ NotFound \/ Place
    BY <2>2 DEF Broken, ReadFails, Overflow, Descend, NotFound, Place, Kept
  <2>3. CASE Ascend \/ InsertReturns \/ PadReads \/ WriteBack \/ PadWrites
    BY SMTT(30), <2>3 DEF Ascend, InsertReturns, PadReads, WriteBack, PadWrites, Kept
  <2>4. CASE Balance \/ LeftRotate \/ RightRotate \/ \E side \in Sides : Relink(side)
    BY ZenonT(30), <2>4 DEF Balance, LeftRotate, RightRotate, Rotate, Relink, Proceed, Kept
  <2>5. CASE UNCHANGED vars
    BY <2>5 DEF vars
  <2> QED
    BY <2>1, <2>2, <2>3, <2>4, <2>5 DEF Next, Step
<1>4. faults' = faults \/ faults' > 0
  <2>1. CASE Call BY <2>1 DEF Call, Find, Insert, Begin
  <2>2. CASE Broken \/ Overflow \/ Descend \/ NotFound \/ Place \/ Ascend \/ InsertReturns
    BY <2>2 DEF Broken, Overflow, Descend, NotFound, Place, Ascend, InsertReturns, Kept
  <2>3. CASE ReadFails \/ PadReads \/ PadWrites
    BY <1>2, <2>3, ReadFailsTyping, DoPadCases DEF PadReads, PadWrites
  <2>4. CASE WriteBack
    BY SMTT(30), <1>2, <2>4, FailsCounted DEF WriteBack
  <2>5. CASE Balance \/ LeftRotate \/ RightRotate \/ \E side \in Sides : Relink(side)
    BY ZenonT(30), <2>5 DEF Balance, LeftRotate, RightRotate, Rotate, Relink, Proceed, Kept
  <2>6. CASE UNCHANGED vars
    BY <2>6 DEF vars
  <2> QED
    BY <2>1, <2>2, <2>3, <2>4, <2>5, <2>6 DEF Next, Step
<1>5. PICK e : e = MinNodes[setup.cache]
  OBVIOUS
<1>6. e \in Nat /\ e = MinNodes[setup.cache]'
  BY <1>1, <1>2, <1>5, MinNodesIs
<1>7. faults' = 0 /\ node_count' <= setup.oram /\ ~(e <= node_count' - 2)
  BY <1>1, <1>6 DEF Roomy
<1> QED
  BY <1>2, <1>3, <1>4, <1>5, <1>6, <1>7 DEF Roomy

LEMMA WarmElsewhere ==
    ASSUME Clean',
           pc' \in {"idle", "pad_reads", "write_back", "panicked", "aborted", "garbled",
                    "overflowed"}
              \/ (pc' = "descend" /\ call'.op # "insert")
    PROVE  WarmParts'
BY DEF WarmParts, WarmStack, WarmDown, WarmTop, WarmBalance, WarmRotate

LEMMA WriteBackWarm ==
    ASSUME Typing, Intact, Roomy, WarmParts, WriteBack, Roomy' PROVE WarmParts'
<1>1. ods.evicted = {} /\ ~ods.stale /\ ~dropped /\ faults = 0
  BY DEF WarmParts, Clean, Roomy
<1>2. PICK n : n = Head(ods.cache)
  OBVIOUS
<1>3. n.id \in 1..used /\ n.id \in Ids /\ ods'.evicted = ods.evicted /\ ods'.stale = ods.stale
  BY <1>2, WriteBackFacts DEF SameCounts
<1>4. memory[n.id] # Gone
  <2>1. used \in Nat /\ used <= node_count - 1 /\ node_count \in Nat /\ setup.oram \in Nat
    BY UsedType, TypingFacts, SetupType
  <2>2. node_count <= setup.oram
    BY DEF Roomy
  <2>3. n.id < setup.oram
    BY <1>3, <2>1, <2>2
  <2> QED
    BY <1>1, <1>3, <2>3 DEF Intact
<1>5. ~(faults' > 0)
  <2>1. faults' = 0
    BY DEF Roomy
  <2> QED
    BY <2>1
<1>6. ASSUME NEW m PROVE ~Fails(m)
  BY <1>5, FailsCounted
<1>7. ~dropped'
  <2>1. \/ dropped' = (dropped \/ ~(memory[n.id] # Gone))
        \/ \E m : Fails(m)
    BY <1>2 DEF WriteBack
  <2> QED
    BY <1>1, <1>4, <1>6, <2>1
<1>8. Clean' /\ pc' = "write_back"
  BY <1>1, <1>3, <1>7 DEF Clean, WriteBack
<1> QED
  BY <1>8, WarmElsewhere

LEMMA QuietWarm ==
    ASSUME Typing, WarmParts,
           NotFound \/ InsertReturns \/ Overflow \/ PadReads \/ PadWrites
              \/ (\E k \in Key : Find(k))
    PROVE  WarmParts'
<1>1. ods.evicted = {} /\ ~ods.stale /\ ~dropped
  BY DEF WarmParts, Clean
<1>2. CASE NotFound \/ InsertReturns \/ Overflow
  <2>1. Clean' /\ pc' \in {"pad_reads", "overflowed"}
    BY <1>1, <1>2 DEF Clean, NotFound, InsertReturns, Overflow, Goto
  <2> QED
    BY <2>1, WarmElsewhere
<1>3. CASE PadReads
  <2>1. pc' \in {"write_back", "panicked", "aborted"}
    BY <1>3, DoPadCases DEF PadReads
  <2>2. Clean'
    BY <1>1, <1>3 DEF Clean, PadReads
  <2> QED
    BY <2>1, <2>2, WarmElsewhere
<1>4. CASE PadWrites
  <2>1. pc' \in {"idle", "panicked", "aborted"}
    BY <1>4, DoPadCases DEF PadWrites
  <2>2. Clean'
    BY <1>1, <1>4 DEF Clean, PadWrites, Start
  <2> QED
    BY <2>1, <2>2, WarmElsewhere
<1>5. ASSUME NEW k \in Key, Find(k) PROVE WarmParts'
  <2>1. ods \in Work
    BY TypingFacts DEF WorkOK
  <2>2. /\ ods'.evicted = ods.evicted /\ ods'.stale = ods.stale /\ dropped' = dropped
        /\ pc' = "descend" /\ call'.op = "find"
    BY <1>5, <2>1 DEF Find, Begin, Work
  <2>3. Clean'
    BY <1>1, <2>2 DEF Clean
  <2> QED
    BY <2>2, <2>3, WarmElsewhere
<1> QED
  BY <1>2, <1>3, <1>4, <1>5

LEMMA BrokenWarm ==
    ASSUME Typing, WarmParts, Counted, Broken PROVE WarmParts'
<1>1. ods.evicted = {} /\ ~ods.stale /\ ~dropped
  BY DEF WarmParts, Clean
<1>2. /\ used \in Nat /\ setup \in Setups /\ WorkOK(ods, used) /\ MemoryOK(used)
      /\ ods.bad = "no" /\ cursor \in Ids /\ pc = "descend"
      /\ ods' = OdsAccessRead(ods, cursor) /\ ods'.bad # "no" /\ dropped' = dropped
  BY TypingFacts DEF Broken, Running
<1>3. ods'.evicted = ods.evicted /\ ods'.stale = ods.stale
  <2>1. ~IsIn(ods.cache, cursor) /\ memory[cursor] \notin Node
    BY <1>2, ReadSound
  <2> QED
    BY <1>2, <2>1, ReadSound
<1>4. pc' \in {"aborted", "garbled"}
  <2>1. ods'.bad \in {"no", "aborted", "garbled"}
    <3>1. WorkOK(ods', used)
      BY <1>2, ReadWork
    <3> QED
      BY <3>1 DEF WorkOK, Work
  <2> QED
    BY <1>2, <2>1 DEF Broken, Goto
<1>5. Clean'
  BY <1>1, <1>2, <1>3 DEF Clean
<1> QED
  BY <1>4, <1>5, WarmElsewhere

-------------------------------------------------------------------------------
(* The way down. *)

\* An AVL tree of the nodes there are is not higher than the cache is large.
LEMMA InsertWarm ==
    ASSUME Typing, Sound, WarmParts, Roomy', NEW k \in Key, Insert(k, node_count)
    PROVE  WarmParts'
<1>1. ods.evicted = {} /\ ~ods.stale /\ ~dropped /\ pc = "idle"
  BY DEF WarmParts, Clean, Insert, Begin
<1>2. ods \in Work
  BY TypingFacts DEF WorkOK
<1>3. /\ ods'.evicted = ods.evicted /\ ods'.stale = ods.stale /\ dropped' = dropped
      /\ ods'.cache = <<>> /\ pc' = "descend" /\ stack' = <<>> /\ cursor' = root_id
      /\ memory' = memory /\ node_count' = node_count + 1 /\ setup' = setup
  BY <1>2 DEF Insert, Begin, Work
<1>4. Clean'
  BY <1>1, <1>3 DEF Clean
<1>5. HeightOf(root_id) < setup.cache /\ HeightOf(root_id) \in Nat
  <2>1. PICK L, U : /\ Focus(dict, used, L, U, root_id, <<>>, {})
                    /\ \A j \in U[root_id] : memory[j] = L[j]
    BY <1>1, WholeTree DEF Whole
  <2>2. setup.cache \in Nat \ {0}
    BY TypingFacts, SetupType
  <2>3. CASE root_id = invalid_mask
    BY <2>2, <2>3 DEF HeightOf
  <2>4. CASE root_id # invalid_mask
    <3>1. PICK T : T = U[root_id]
      OBVIOUS
    <3>2. /\ Tree(L, U, root_id) /\ T \subseteq 1..used /\ L[root_id] \in Node
          /\ root_id \in T /\ Tall(L, T, <<>>) /\ \A j \in T : Even(L[j])
      <4>1. RootOf(root_id, <<>>) = root_id
        BY DEF RootOf
      <4> QED
        BY <2>1, <2>4, <3>1, <4>1, FocusFacts
    <3>3. \A j \in T : \A s \in Sides : L[j].height[s] = Height(L, L[j].child[s])
      BY <3>2 DEF Tall, Opening
    <3>4. used \in Nat /\ used = node_count - 1 /\ node_count \in Nat
      BY <1>1, UsedType, TypingFacts DEF used
    <3>5. IsFiniteSet(T) /\ Cardinality(T) <= used /\ Cardinality(T) \in Nat
      <4>1. IsFiniteSet(1..used) /\ Cardinality(1..used) = used
        BY <3>4, FS_Interval
      <4> QED
        BY <3>2, <4>1, FS_Subset, FS_CardinalityType
    <3>6. PICK h : h = HEIGHT(L[root_id])
      OBVIOUS
    <3>7. h \in Nat /\ MinNodes[h] <= Cardinality(T)
      <4>1. \A j \in T : MinNodes[HEIGHT(L[j])] <= Cardinality(U[j])
        BY <3>1, <3>2, <3>3, <3>5, TreeMin
      <4> QED
        BY <3>1, <3>2, <3>6, <4>1, HeightType
    <3>8. ~(MinNodes[setup.cache] <= node_count - 1)
      <4>1. PICK e : e = MinNodes[setup.cache]
        OBVIOUS
      <4>2. ~(e <= node_count' - 2)
        BY <1>3, <4>1 DEF Roomy
      <4> QED
        BY <1>3, <3>4, <4>1, <4>2
    <3>9. h < setup.cache
      <4> SUFFICES ASSUME ~(h < setup.cache) PROVE FALSE
        OBVIOUS
      <4>1. setup.cache <= h /\ setup.cache \in Nat
        BY <2>2, <3>7
      <4>2. PICK e, f : e = MinNodes[setup.cache] /\ f = MinNodes[h]
        OBVIOUS
      <4>3. e <= f /\ e \in Nat /\ f \in Nat
        BY <3>7, <4>1, <4>2, MinNodesGrows, MinNodesIs
      <4> QED
        BY <3>4, <3>5, <3>7, <3>8, <4>2, <4>3
    <3> QED
      BY <2>1, <2>4, <3>1, <3>2, <3>6, <3>7, <3>9 DEF HeightOf
  <2> QED
    BY <2>3, <2>4
<1>6. WarmStack' /\ WarmTop' /\ WarmBalance' /\ WarmRotate'
  BY <1>3 DEF WarmStack, WarmTop, WarmBalance, WarmRotate
<1>7. WarmDown'
  <2>1. PICK x : x = HeightOf(root_id)
    OBVIOUS
  <2>2. HeightOf(cursor)' = x
    BY <1>3, <2>1 DEF HeightOf
  <2>3. Len(ods'.cache) = 0
    BY <1>3
  <2>4. 0 + x = x
    <3>1. x \in Nat
      BY <1>5, <2>1
    <3> QED
      BY <3>1
  <2>5. x < setup'.cache
    BY <1>3, <1>5, <2>1
  <2> QED
    BY <2>2, <2>3, <2>4, <2>5 DEF WarmDown
<1> QED
  BY <1>4, <1>6, <1>7 DEF WarmParts

LEMMA DescendFindWarm ==
    ASSUME Typing, Counted, WarmParts, Descend, call.op # "insert" PROVE WarmParts'
<1>1. /\ ods'.evicted = {} /\ ~ods'.stale
  BY ReadOnWay
<1>2. ~dropped' /\ call' = call /\ pc' \in {"descend", "pad_reads"}
  <2>1. call.op = "find"
    BY TypingFacts DEF CallOK, Descend
  <2> QED
    BY <2>1 DEF Descend, Kept, Goto, WarmParts, Clean
<1>3. Clean'
  BY <1>1, <1>2 DEF Clean
<1> QED
  BY <1>2, <1>3, WarmElsewhere

\* What a step of an insertion that goes down has read.
LEMMA DescendWarmRead ==
    ASSUME Typing, Counted, Sound, WarmParts, Descend, call.op = "insert",
           NEW n, n = Top(ods'), NEW s, s = Side(n, call.key)
    PROVE  /\ n \in Node /\ ods'.cache \in Seq(Node) /\ memory' = memory /\ setup' = setup
           /\ \A j : IsIn(ods.cache, j) => IsIn(ods'.cache, j)
           /\ IsIn(ods'.cache, n.id)
           /\ stack \in Stacks /\ stack' = Append(stack, [node |-> n, side |-> s])
           /\ [node |-> n, side |-> s] \in Frame
           /\ Clean' /\ call'.op = "insert"
           /\ s # "here" => /\ pc' = "descend"
                            /\ Len(ods'.cache) + HeightOf(cursor)' < setup.cache
           /\ s = "here" => /\ pc' = "ascend"
                            /\ stack # <<>> => HEIGHT(n) # Base(stack) + 1
<1>1. /\ used \in Nat /\ setup \in Setups /\ WorkOK(ods, used) /\ MemoryOK(used)
      /\ ods.bad = "no" /\ cursor \in Ids /\ pc = "descend" /\ cursor # invalid_mask
      /\ ods' = OdsAccessRead(ods, cursor) /\ ods'.bad = "no" /\ dropped' = dropped
      /\ memory' = memory /\ setup' = setup /\ call' = call /\ stack \in Stacks
  BY TypingFacts DEF Descend, Running, Kept
<1>2. /\ n = memory[cursor] /\ n \in Node /\ ods'.evicted = {} /\ ~ods'.stale
  BY ReadOnWay
<1>3. Clean' /\ ~ods.stale /\ ~dropped
  BY <1>1, <1>2 DEF Clean, WarmParts
<1>4. PICK L, U : AtDescend(L, U)
  BY <1>1, <1>3 DEF Sound, SoundAt
<1>5. AtRest(L, U) /\ Context(L, U, cursor, stack) /\ RootOf(cursor, stack) = root_id
  BY <1>4 DEF AtDescend
<1>6. cursor \in U[root_id] /\ n = L[cursor]
  BY <1>1, <1>2, <1>4, DescendReads
<1>7. HeightOf(cursor) = HEIGHT(n) /\ HEIGHT(n) \in Nat
  BY <1>1, <1>2, HeightType DEF HeightOf
<1>8. PICK l, h : l = Len(ods.cache) /\ h = HEIGHT(n)
  OBVIOUS
<1>9. l \in Nat /\ h \in Nat /\ l + h < setup.cache /\ setup.cache \in Nat /\ l < setup.cache
  <2>1. Len(ods.cache) + HeightOf(cursor) < setup.cache
    BY <1>1 DEF WarmParts, WarmDown
  <2>2. l \in Nat /\ setup.cache \in Nat
    BY <1>1, <1>8, TypingFacts, SetupType
  <2> QED
    BY <1>7, <1>8, <2>1, <2>2
<1>10. Keeps(ods, ods', n) /\ WorkOK(ods', used)
  BY <1>1, ReadSound
<1>11. /\ \A j : IsIn(ods.cache, j) => IsIn(ods'.cache, j)
       /\ IsIn(ods'.cache, n.id)
  <2>1. n \in Nodes(ods'.cache)
        /\ \A k \in Nodes(ods.cache) : k.id = n.id \/ k \in Nodes(ods'.cache)
    BY <1>8, <1>9, <1>10 DEF Keeps
  <2> QED
    BY <2>1 DEF IsIn
<1>12. Len(ods'.cache) <= l + 1 /\ Len(ods'.cache) \in Nat /\ ods'.cache \in Seq(Node)
  <2>1. ods'.cache \in Seq(Node)
    BY <1>10 DEF WorkOK, Work
  <2> QED
    BY <1>8, <1>10, <2>1 DEF Keeps
<1>13. s \in Sides \cup {"here"} /\ stack' = Append(stack, [node |-> n, side |-> s])
  BY DEF Side, Descend, Sides
<1>14. [node |-> n, side |-> s] \in Frame
  BY <1>2, <1>13 DEF Frame
<1>15. /\ Focus(dict, used, L, U, root_id, <<>>, {}) /\ Tree(L, U, root_id)
       /\ Stored(memory, ods, L, U[root_id])
  BY <1>5, RestFacts
<1>16. ASSUME s # "here"
       PROVE  pc' = "descend" /\ Len(ods'.cache) + HeightOf(cursor)' < setup.cache
  <2>1. PICK c : c = n.child[s]
    OBVIOUS
  <2>2. pc' = "descend" /\ cursor' = c /\ s \in Sides
    BY <1>1, <1>13, <1>16, <2>1 DEF Descend, Goto
  <2>3. c \in Ids /\ (c # invalid_mask => c \in U[root_id])
    <3>1. PICK r, j : r = root_id /\ j = cursor
      OBVIOUS
    <3>2. Tree(L, U, r) /\ j \in U[r] /\ s \in Sides /\ c = L[j].child[s]
      BY <1>6, <1>15, <2>1, <2>2, <3>1
    <3>3. c \in Ids /\ (c # invalid_mask => c \in U[r])
      BY ONLY <3>2, TreeChild
    <3> QED
      BY <3>1, <3>3
  <2>4. Height(L, c) = n.height[s] /\ n.height[s] \in Nat /\ h >= n.height[s] + 1
    <3>1. Tall(L, U[root_id], <<>>)
      BY <1>15 DEF Focus, RootOf
    <3>2. L[cursor].height[s] = Height(L, L[cursor].child[s])
      BY <1>6, <2>2, <3>1 DEF Tall, Opening
    <3> QED
      BY <1>2, <1>6, <1>8, <2>1, <2>2, <3>2, HeightType, NodeFields
  <2>5. c # invalid_mask => memory[c] = L[c]
    <3> SUFFICES ASSUME c # invalid_mask PROVE memory[c] = L[c]
      OBVIOUS
    <3>1. c \in U[root_id]
      BY <2>3
    <3>2. CASE IsIn(ods.cache, c)
      <4>1. PICK k \in Nodes(ods.cache) : k.id = c
        BY <3>2 DEF IsIn
      <4>2. k = L[c]
        BY <1>15, <3>1, <4>1 DEF Stored
      <4>3. memory[k.id] = k
        BY <1>1, <4>1 DEF Counted, Walking
      <4> QED
        BY <4>1, <4>2, <4>3
    <3>3. CASE ~IsIn(ods.cache, c)
      <4>1. ods.evicted = {}
        BY DEF WarmParts, Clean
      <4> QED
        BY <1>15, <3>1, <3>3, <4>1 DEF Stored
    <3> QED
      BY <3>2, <3>3
  <2>6. HeightOf(cursor)' = n.height[s]
    <3>1. HeightOf(cursor)' = IF c = invalid_mask THEN 0 ELSE HEIGHT(memory[c])
      BY <1>1, <2>2 DEF HeightOf
    <3>2. HeightOf(cursor)' = Height(L, c)
      BY <2>5, <3>1 DEF Height
    <3> QED
      BY <2>4, <3>2
  <2> QED
    BY SMTT(30), <1>9, <1>12, <2>2, <2>4, <2>6
<1>17. ASSUME s = "here"
       PROVE  pc' = "ascend" /\ (stack # <<>> => HEIGHT(n) # Base(stack) + 1)
  <2>1. pc' = "ascend"
    BY <1>17 DEF Descend, Goto
  <2>2. stack # <<>> => Base(stack) = Height(L, cursor)
    <3>1. PICK d, m : d = dict /\ m = used
      OBVIOUS
    <3>2. PICK t, r, sp : t = cursor /\ r = root_id /\ sp = stack
      OBVIOUS
    <3>3. Focus(d, m, L, U, r, <<>>, {}) /\ Context(L, U, t, sp) /\ RootOf(t, sp) = r
      BY <1>5, <1>15, <3>1, <3>2
    <3>4. sp # <<>> => Base(sp) = Height(L, t)
      BY ONLY <3>3, FocusDown
    <3> QED
      BY <3>2, <3>4
  <2>3. Height(L, cursor) = h
    BY <1>1, <1>6, <1>8 DEF Height
  <2>4. h # h + 1
    BY <1>9
  <2> QED
    BY <1>8, <2>1, <2>2, <2>3, <2>4
<1> QED
  BY <1>1, <1>2, <1>3, <1>11, <1>12, <1>13, <1>14, <1>16, <1>17

LEMMA AppendFrames ==
    ASSUME NEW q \in Stacks, NEW f \in Frame, NEW c, NEW d,
           \A i \in DOMAIN q : IsIn(c, q[i].node.id),
           \A j : IsIn(c, j) => IsIn(d, j), IsIn(d, f.node.id), NEW z, z = Append(q, f)
    PROVE  \A i \in DOMAIN z : IsIn(d, z[i].node.id)
BY DEF Stacks

LEMMA DescendWarm ==
    ASSUME Typing, Counted, Sound, WarmParts, Descend PROVE WarmParts'
<1>1. CASE call.op # "insert"
  BY <1>1, DescendFindWarm
<1>2. CASE call.op = "insert"
  <2>1. PICK n, s : n = Top(ods') /\ s = Side(n, call.key)
    OBVIOUS
  <2>2. /\ n \in Node /\ memory' = memory /\ setup' = setup
        /\ \A j : IsIn(ods.cache, j) => IsIn(ods'.cache, j)
        /\ IsIn(ods'.cache, n.id)
        /\ stack \in Stacks /\ stack' = Append(stack, [node |-> n, side |-> s])
        /\ [node |-> n, side |-> s] \in Frame
        /\ Clean' /\ call'.op = "insert"
        /\ s # "here" => /\ pc' = "descend"
                         /\ Len(ods'.cache) + HeightOf(cursor)' < setup.cache
        /\ s = "here" => /\ pc' = "ascend"
                         /\ stack # <<>> => HEIGHT(n) # Base(stack) + 1
    BY <1>2, <2>1, DescendWarmRead
  <2>3. PICK f : f = [node |-> n, side |-> s]
    OBVIOUS
  <2>4. \A i \in DOMAIN stack : IsIn(ods.cache, stack[i].node.id)
    BY <1>2 DEF WarmParts, WarmStack, Descend
  <2>5. \A i \in DOMAIN stack' : IsIn(ods'.cache, stack'[i].node.id)
    BY <2>2, <2>3, <2>4, AppendFrames
  <2>6. WarmStack'
    BY <2>5 DEF WarmStack
  <2>7. WarmDown'
    BY <2>2 DEF WarmDown
  <2>8. WarmTop'
    <3> SUFFICES ASSUME pc' \in {"ascend", "balance"}, Spine' # <<>>
                 PROVE  HEIGHT(Top(ods')) # Base(Spine') + 1
      BY DEF WarmTop
    <3>1. s = "here" /\ pc' = "ascend"
      BY <2>2
    <3>2. stack' # <<>> /\ Last(stack') = f /\ Front(stack') = stack
      <4>1. stack \in Seq(Frame) /\ f \in Frame /\ stack' = Append(stack, f)
        BY <2>2, <2>3 DEF Stacks
      <4> QED
        BY <4>1, FrontOfAppend
    <3>3. Spine' = stack
      BY <2>3, <3>1, <3>2 DEF Spine
    <3> QED
      BY <2>1, <2>2, <3>1, <3>3
  <2>9. WarmBalance' /\ WarmRotate'
    BY <2>2 DEF WarmBalance, WarmRotate
  <2> QED
    BY <2>2, <2>6, <2>7, <2>8, <2>9 DEF WarmParts
<1> QED
  BY <1>1, <1>2

LEMMA PlaceWarm ==
    ASSUME Typing, WarmParts, Place PROVE WarmParts'
<1>1. /\ setup \in Setups /\ used \in Nat /\ WorkOK(ods, used) /\ pc = "descend"
      /\ call.op = "insert" /\ cursor = invalid_mask /\ ods' = Put(ods, Leaf)
      /\ stack' = stack /\ call' = call /\ dropped' = dropped /\ pc' = "ascend"
  BY TypingFacts DEF Place, Kept, Goto, Leaf
<1>2. /\ Leaf \in Node /\ Leaf.id = used + 1
      /\ \A s \in Sides : Leaf.height[s] = 0
  BY <1>1, LeafFacts
<1>3. PICK m, n : m = used + 1 /\ n = Leaf
  OBVIOUS
<1>4. m \in Nat /\ used <= m /\ n \in Node /\ n.id \in 1..m /\ \A s \in Sides : n.height[s] = 0
  BY <1>1, <1>2, <1>3
<1>5. WorkOK(ods, m)
  BY <1>1, <1>4, WorkMono
<1>6. Len(ods.cache) < setup.cache
  <2>1. Len(ods.cache) + HeightOf(cursor) < setup.cache
    BY <1>1 DEF WarmParts, WarmDown
  <2>2. Len(ods.cache) \in Nat
    BY TypingFacts
  <2> QED
    BY <1>1, <2>1, <2>2 DEF HeightOf
<1>7. /\ Top(ods') = n /\ SameCounts(ods, ods') /\ Keeps(ods, ods', n)
      /\ ods'.evicted = ods.evicted
  BY <1>1, <1>3, <1>4, <1>5, <1>6, PutSound
<1>8. Clean'
  BY <1>1, <1>7 DEF Clean, WarmParts, SameCounts
<1>9. \A j : IsIn(ods.cache, j) => IsIn(ods'.cache, j)
  BY <1>6, <1>7 DEF Keeps, IsIn
<1>10. WarmStack'
  BY <1>1, <1>9 DEF WarmStack, WarmParts
<1>11. HotIn(ods'.cache, n)
  <2>1. \A s \in Sides : ~(n.height[s] > n.height[Other(s)])
    BY <1>4, OtherSide
  <2> QED
    BY <2>1 DEF HotIn
<1>12. WarmTop'
  BY <1>7, <1>11 DEF WarmTop
<1> QED
  BY <1>1, <1>8, <1>10, <1>12 DEF WarmParts, WarmDown, WarmBalance, WarmRotate

-------------------------------------------------------------------------------
(* The way back. *)

LEMMA TopCached ==
    ASSUME NEW w, w.cache \in Seq(Node), w.cache # <<>>
    PROVE  Top(w) \in Nodes(w.cache) /\ Top(w) \in Node /\ IsIn(w.cache, Top(w).id)
<1>1. Top(w) = w.cache[1] /\ 1 \in DOMAIN w.cache /\ w.cache[1] \in Node
  BY FrontTail DEF Top
<1> QED
  BY <1>1 DEF Nodes, IsIn

\* The heights of a node that gets back a subtree of height h for one of height b.
LEMMA RaisedHeights ==
    ASSUME NEW b \in Nat, NEW o \in Nat, NEW h \in Nat, h = b \/ h = b + 1,
           b <= o + 1, o <= b + 1
    PROVE  /\ ~(o > h + 1)
           /\ h > o + 1 => h = b + 1
           /\ Over(h, o) = Over(b, o) + 1 => ~(o > h)
BY DEF Over

\* The node that Ascend writes, and its heights.
Raised(n, a, s, b, o, h, top) ==
    /\ n \in Node /\ n.id = a.id /\ n.id \in 1..used /\ n.id # top.id /\ s \in Sides
    /\ n.child[s] = top.id /\ n.height[s] = h /\ n.height[Other(s)] = o
    /\ b \in Nat /\ o \in Nat /\ h \in Nat /\ (h = b \/ h = b + 1)
    /\ b <= o + 1 /\ o <= b + 1
    /\ HEIGHT(n) = Over(h, o)
    /\ Front(stack) # <<>> => Base(Front(stack)) = Over(b, o)

LEMMA AscendRaises ==
    ASSUME Typing, Ascend, Last(stack).side # "here", NEW L, NEW U, NEW t, AtAscend(L, U, t),
           NEW a, a = Last(stack).node, NEW s, s = Last(stack).side,
           NEW n, n = Relinked(a, s, Top(ods))
    PROVE  Raised(n, a, s, Base(stack), a.height[Other(s)], HEIGHT(Top(ods)), Top(ods))
<1>1. pc = "ascend" /\ stack # <<>> /\ Spine = stack /\ Top(ods) = L[t]
  BY DEF Ascend, Spine, AtAscend
<1>2. PICK sp, p, r : sp = stack /\ p = Last(sp).node.id /\ r = RootOf(t, sp)
  OBVIOUS
<1>3. /\ t \in Ids /\ t # invalid_mask /\ Focus(dict, used, L, U, t, sp, {})
      /\ Grown(sp, HEIGHT(L[t]))
  BY <1>1, <1>2 DEF AtAscend, Working
<1>4. /\ L[t] \in Node /\ L[t].id = t /\ U[r] \subseteq 1..used
      /\ \A j \in U[r] : L[j] \in Node /\ L[j].id = j
  BY <1>2, <1>3, FocusFacts
<1>5. \A j \in U[r] : Even(L[j])
  BY <1>2, <1>3 DEF Focus
<1>6. /\ p \in U[r] /\ p # t /\ s \in Sides /\ a \in Node
      /\ L[p].height[s] = Base(sp) /\ Base(sp) \in Nat
      /\ L[p].height[Other(s)] = a.height[Other(s)] /\ L[p].height[Other(s)] \in Nat
      /\ Front(sp) # <<>> => Base(Front(sp)) = HEIGHT(L[p])
  BY <1>1, <1>2, <1>3, BaseFacts
<1>7. HEIGHT(L[t]) \in Nat
  BY <1>4, HeightType
<1>8. Relink1(n, a, s, t, HEIGHT(L[t]))
  <2>1. PICK e : e = HEIGHT(L[t])
    OBVIOUS
  <2>2. n = [a EXCEPT !.child[s] = t, !.height[s] = e]
    BY <1>1, <1>4, <2>1 DEF Relinked
  <2>3. a \in Node /\ s \in Sides /\ t \in Ids /\ e \in Nat
    BY SMTT(30), <1>3, <1>6, <1>7, <2>1
  <2>4. Relink1(n, a, s, t, e)
    BY ONLY <2>2, <2>3, NodeUpdate
  <2> QED
    BY <2>1, <2>4
<1>9. n \in Node /\ n.id = p /\ n.child[s] = t /\ n.height[s] = HEIGHT(L[t])
      /\ n.height[Other(s)] = a.height[Other(s)]
  BY <1>2, <1>8 DEF Relink1
<1> DEFINE b == Base(sp)
           o == a.height[Other(s)]
           h == HEIGHT(L[t])
<1>10. b \in Nat /\ o \in Nat /\ h \in Nat /\ (h = b \/ h = b + 1)
  BY <1>1, <1>2, <1>3, <1>6, <1>7 DEF Grown
<1>11. b <= o + 1 /\ o <= b + 1
  <2>1. Even(L[p])
    BY <1>5, <1>6
  <2>2. L[p].height[s] <= L[p].height[Other(s)] + 1
        /\ L[p].height[Other(s)] <= L[p].height[s] + 1
    BY <1>6, <2>1, EvenSides
  <2> QED
    BY <1>6, <2>2
<1>12. HEIGHT(n) = Over(h, o)
  BY <1>6, <1>9, HeightOver
<1>13. Front(sp) # <<>> => Base(Front(sp)) = Over(b, o)
  BY <1>4, <1>6, HeightOver
<1>14. n.id \in 1..used /\ n.id # t /\ n.id = a.id
  BY <1>2, <1>4, <1>6, <1>9
<1> HIDE DEF b, o, h
<1>15. Base(stack) = b /\ a.height[Other(s)] = o /\ HEIGHT(Top(ods)) = h /\ Top(ods).id = t
  BY <1>1, <1>2, <1>4 DEF b, o, h
<1>16. n.height[s] = h /\ n.height[Other(s)] = o
  BY <1>9 DEF o, h
<1> QED
  BY <1>2, <1>6, <1>9, <1>10, <1>11, <1>12, <1>13, <1>14, <1>15, <1>16 DEF Raised

\* The write of Ascend.
LEMMA AscendWrites ==
    ASSUME Typing, WarmParts, Ascend, NEW n \in Node, n.id = Last(stack).node.id,
           ods' = OdsAccessWrite(ods, n)
    PROVE  /\ Clean' /\ WarmStack' /\ WarmDown' /\ WarmRotate' /\ pc' = "balance"
           /\ Top(ods') = n /\ SameIds(ods.cache, ods'.cache) /\ Spine' = Front(stack)
           /\ \A k \in Nodes(ods'.cache) : k = n \/ k \in Nodes(ods.cache)
           /\ Top(ods) \in Nodes(ods.cache) /\ IsIn(ods.cache, Top(ods).id)
           /\ Top(ods) \in Node /\ Unique(ods.cache)
<1>1. /\ setup \in Setups /\ used \in Nat /\ WorkOK(ods, used) /\ ods.bad = "no"
      /\ pc = "ascend" /\ stack # <<>> /\ stack' = Front(stack) /\ call' = call
      /\ dropped' = dropped /\ pc' = "balance" /\ stack \in Stacks /\ ods.cache \in Seq(Node)
  BY TypingFacts DEF Ascend, Kept, Goto, Running
<1>2. ods.cache # <<>> /\ call.op = "insert"
  BY <1>1 DEF Typing, CallOK
<1>3. /\ Len(stack) \in DOMAIN stack /\ Last(stack) = stack[Len(stack)]
      /\ DOMAIN Front(stack) \subseteq DOMAIN stack
      /\ \A i \in DOMAIN Front(stack) : Front(stack)[i] = stack[i]
  BY <1>1, FrontTail DEF Stacks
<1>4. \A i \in DOMAIN stack : IsIn(ods.cache, stack[i].node.id) /\ stack[i].node.id \in 1..used
  BY <1>1, <1>2, TypingFacts DEF WarmParts, WarmStack
<1>5. IsIn(ods.cache, n.id) /\ n.id \in 1..used
  BY <1>3, <1>4
<1>6. ods.evicted = {} /\ ~ods.stale /\ ~dropped
  BY DEF WarmParts, Clean
<1>7. /\ ods'.evicted = {} /\ ods'.stale = ods.stale
      /\ Top(ods') = n /\ SameIds(ods.cache, ods'.cache)
      /\ \A k \in Nodes(ods'.cache) : k = n \/ (k \in Nodes(ods.cache) /\ k.id # n.id)
  <2>1. PICK w, v : w = ods /\ v = ods'
    OBVIOUS
  <2>2. /\ setup \in Setups /\ used \in Nat /\ WorkOK(w, used) /\ w.bad = "no"
        /\ n.id \in 1..used /\ IsIn(w.cache, n.id) /\ w.evicted = {}
        /\ v = OdsAccessWrite(w, n)
    BY <1>1, <1>5, <1>6, <2>1
  <2>3. /\ v.evicted = {} /\ v.stale = w.stale /\ Top(v) = n /\ SameIds(w.cache, v.cache)
        /\ \A k \in Nodes(v.cache) : k = n \/ (k \in Nodes(w.cache) /\ k.id # n.id)
    BY <2>2, WarmWrite
  <2> QED
    BY <2>1, <2>3
<1>8. Clean'
  BY <1>1, <1>6, <1>7 DEF Clean
<1>9. WarmStack'
  BY <1>1, <1>3, <1>4, <1>7 DEF WarmStack, SameIds
<1>10. Spine' = Front(stack)
  BY <1>1 DEF Spine
<1>11. Unique(ods.cache)
  BY <1>1 DEF WorkOK
<1>12. Top(ods) \in Nodes(ods.cache) /\ Top(ods) \in Node /\ IsIn(ods.cache, Top(ods).id)
  BY <1>1, <1>2, TopCached
<1> QED
  BY <1>1, <1>7, <1>8, <1>9, <1>10, <1>11, <1>12 DEF WarmDown, WarmRotate

LEMMA AscendHereWarm ==
    ASSUME Typing, Sound, WarmParts, Ascend, Last(stack).side = "here" PROVE WarmParts'
<1>1. pc = "ascend" /\ stack # <<>> /\ Spine = Front(stack) /\ ~ods.stale /\ ~dropped
  BY DEF Ascend, Spine, WarmParts, Clean
<1>2. PICK L, U, t : AtAscend(L, U, t)
  BY <1>1 DEF Sound, SoundAt
<1>3. PICK n : n = Last(stack).node
  OBVIOUS
<1>4. n = Top(ods) /\ n = L[t] /\ L[t] \in Node /\ Even(n)
  <2>1. n = Top(ods) /\ n = L[t] /\ Focus(dict, used, L, U, t, Spine, {}) /\ t # invalid_mask
    BY <1>1, <1>2, <1>3 DEF AtAscend, Working
  <2>2. t \in U[RootOf(t, Spine)] /\ L[t] \in Node
    BY <2>1, FocusFacts
  <2> QED
    BY <2>1, <2>2 DEF Focus
<1>5. ods' = OdsAccessWrite(ods, n)
  BY <1>3, AscendTyping
<1>6. /\ Clean' /\ WarmStack' /\ WarmDown' /\ WarmRotate' /\ pc' = "balance"
      /\ Top(ods') = n /\ SameIds(ods.cache, ods'.cache) /\ Spine' = Front(stack)
  BY <1>3, <1>4, <1>5, AscendWrites
<1>7. WarmTop'
  <2> SUFFICES ASSUME Spine' # <<>>, HEIGHT(n) = Base(Spine') + 1
               PROVE  HotIn(ods'.cache, n)
    BY <1>6 DEF WarmTop
  <2>1. HotIn(ods.cache, n)
    BY <1>1, <1>4, <1>6 DEF WarmParts, WarmTop
  <2> QED
    BY <1>6, <2>1, SameIdsHot
<1>8. WarmBalance'
  <2>1. \A s \in Sides : ~Heavy(n, s)
    <3> SUFFICES ASSUME NEW s \in Sides PROVE ~Heavy(n, s)
      OBVIOUS
    <3>1. n.height[s] <= n.height[Other(s)] + 1
      BY <1>4 DEF Even
    <3>2. n.height[s] \in Nat /\ n.height[Other(s)] \in Nat
      BY <1>4, NodeFields, OtherSide
    <3> QED
      BY <3>1, <3>2 DEF Heavy
  <2>2. WarmHeavy(ods'.cache, n)
    BY <2>1 DEF WarmHeavy
  <2> QED
    BY <1>6, <2>2 DEF WarmBalance
<1> QED
  BY <1>6, <1>7, <1>8 DEF WarmParts

LEMMA AscendAboveWarm ==
    ASSUME Typing, Sound, WarmParts, Ascend, Last(stack).side # "here" PROVE WarmParts'
<1>1. pc = "ascend" /\ stack # <<>> /\ Spine = stack /\ ~ods.stale /\ ~dropped
  BY DEF Ascend, Spine, WarmParts, Clean
<1>2. PICK L, U, t : AtAscend(L, U, t)
  BY <1>1 DEF Sound, SoundAt
<1>3. PICK a, s : a = Last(stack).node /\ s = Last(stack).side
  OBVIOUS
<1>4. PICK n : n = Relinked(a, s, Top(ods))
  OBVIOUS
<1>5. PICK b, o, h, top : b = Base(stack) /\ o = a.height[Other(s)] /\ h = HEIGHT(Top(ods))
                          /\ top = Top(ods)
  OBVIOUS
<1>6. Raised(n, a, s, b, o, h, top)
  BY <1>2, <1>3, <1>4, <1>5, AscendRaises
<1>7. /\ n \in Node /\ n.id = a.id /\ n.id # top.id /\ s \in Sides
      /\ n.child[s] = top.id /\ n.height[s] = h /\ n.height[Other(s)] = o
      /\ b \in Nat /\ o \in Nat /\ h \in Nat /\ (h = b \/ h = b + 1)
      /\ b <= o + 1 /\ o <= b + 1
      /\ HEIGHT(n) = Over(h, o)
      /\ Front(stack) # <<>> => Base(Front(stack)) = Over(b, o)
  BY <1>6 DEF Raised
<1>8. /\ ~(o > h + 1)
      /\ h > o + 1 => h = b + 1
      /\ Over(h, o) = Over(b, o) + 1 => ~(o > h)
  BY <1>7, RaisedHeights
<1>9. ods' = OdsAccessWrite(ods, n)
  BY <1>3, <1>4, AscendTyping
<1>10. /\ Clean' /\ WarmStack' /\ WarmDown' /\ WarmRotate' /\ pc' = "balance"
       /\ Top(ods') = n /\ SameIds(ods.cache, ods'.cache) /\ Spine' = Front(stack)
       /\ \A k \in Nodes(ods'.cache) : k = n \/ k \in Nodes(ods.cache)
       /\ top \in Nodes(ods.cache) /\ IsIn(ods.cache, top.id)
       /\ Unique(ods.cache)
  BY <1>3, <1>5, <1>7, <1>9, AscendWrites
<1>11. IsIn(ods'.cache, top.id)
  BY <1>10 DEF SameIds
<1>12. \A z \in Sides : z = s \/ (z = Other(s) /\ Other(z) = s)
  BY <1>7, OtherSide
<1>13. WarmTop'
  <2> SUFFICES ASSUME Spine' # <<>>, HEIGHT(n) = Base(Spine') + 1
               PROVE  HotIn(ods'.cache, n)
    BY <1>10 DEF WarmTop
  <2>1. ~(o > h)
    BY <1>7, <1>8, <1>10
  <2>2. \A z \in Sides : n.height[z] > n.height[Other(z)] => z = s
    BY <1>7, <1>12, <2>1
  <2> QED
    BY <1>7, <1>11, <2>2 DEF HotIn
<1>14. WarmBalance'
  <2>1. ASSUME NEW z \in Sides, Heavy(n, z) PROVE z = s /\ h > o + 1
    BY <1>7, <1>8, <1>12, <2>1 DEF Heavy
  <2>2. ASSUME h > o + 1, NEW k \in Nodes(ods'.cache), k.id = top.id
        PROVE  HotIn(ods'.cache, k)
    <3>1. k = top
      BY <1>7, <1>10, <2>2, UniqueNode
    <3>2. HEIGHT(Top(ods)) = Base(stack) + 1
      BY <1>5, <1>8, <2>2
    <3>3. HotIn(ods.cache, top)
      BY <1>1, <1>5, <3>2 DEF WarmParts, WarmTop
    <3> QED
      BY <1>10, <3>1, <3>3, SameIdsHot
  <2>3. WarmHeavy(ods'.cache, n)
    BY <1>7, <1>11, <2>1, <2>2 DEF WarmHeavy
  <2> QED
    BY <1>10, <2>3 DEF WarmBalance
<1> QED
  BY <1>10, <1>13, <1>14 DEF WarmParts

-------------------------------------------------------------------------------
(* What Balance leaves to do can be done in the cache. *)

LEMMA SingleWarm ==
    ASSUME NEW c, Unique(c), NEW r \in Nodes(c), NEW s \in Sides, IsIn(c, r.child[s]),
           NEW rest, rest = SingleRotation(s, r)
    PROVE  WarmTasks(c, rest)
<1>1. PICK a : a = Task(Other(s), r.id, r)
  OBVIOUS
<1>2. rest = <<a>> /\ a.do = Other(s) /\ a.id = r.id
  BY <1>1 DEF SingleRotation, Task
<1>3. Head(rest) = a /\ \A i \in DOMAIN rest : rest[i] = a
  BY <1>2
<1>4. IsIn(c, r.id)
  BY DEF IsIn
<1>5. \A k \in Nodes(c) : k.id = r.id => IsIn(c, k.child[Other(Other(s))])
  BY UniqueNode, OtherSide
<1> QED
  BY <1>2, <1>3, <1>4, <1>5 DEF WarmTasks

LEMMA DoubleWarm ==
    ASSUME NEW c, Unique(c), NEW r \in Nodes(c), NEW s \in Sides, NEW y \in Nodes(c),
           y.id = r.child[s], IsIn(c, y.child[Other(s)]),
           NEW rest, rest = DoubleRotation(s, r)
    PROVE  WarmTasks(c, rest)
<1>1. PICK a, b, d : /\ a = Task(s, r.child[s], r) /\ b = Task(Relinking(s), r.id, r)
                     /\ d = Task(Other(s), r.id, r)
  OBVIOUS
<1>2. rest = <<a, b, d>> /\ a.do = s /\ a.id = y.id /\ b.id = r.id /\ d.id = r.id
  BY <1>1 DEF DoubleRotation, Task
<1>3. Head(rest) = a /\ \A i \in DOMAIN rest : rest[i] \in {a, b, d}
  BY <1>2
<1>4. IsIn(c, r.id) /\ IsIn(c, y.id)
  BY DEF IsIn
<1>5. \A k \in Nodes(c) : k.id = y.id => IsIn(c, k.child[Other(s)])
  BY UniqueNode
<1> QED
  BY <1>2, <1>3, <1>4, <1>5 DEF WarmTasks

LEMMA BalancedWarm ==
    ASSUME Typing, Sound, WarmParts, pc = "balance", Proceed(ods, <<>>) PROVE WarmParts'
<1>1. /\ used \in Nat /\ setup \in Setups /\ ods.bad = "no" /\ WorkOK(ods, used)
  BY TypingFacts DEF Running
<1>2. /\ ods' = ods /\ stack' = stack /\ dropped' = dropped /\ pc' = "ascend"
      /\ call' = call
  BY <1>1, ProceedFacts DEF Proceed, Kept
<1>3. Clean' /\ WarmStack'
  BY <1>2 DEF Clean, WarmStack, WarmParts
<1>4. PICK L, U, t : AtBalance(L, U, t)
  BY DEF WarmParts, Clean, Sound, SoundAt
<1>5. stack # <<>> => Last(stack).side # "here"
  <2>1. PICK sp, e : sp = stack /\ e = {t}
    OBVIOUS
  <2>2. Working(L, U, t, sp, e)
    BY <1>4, <2>1 DEF AtBalance
  <2>3. sp # <<>> => Last(sp).side \in Sides
    BY ONLY <2>2, WorkingFacts
  <2> QED
    BY <2>1, <2>3 DEF Sides
<1>6. Spine' = Spine
  BY <1>2, <1>5 DEF Spine
<1>7. WarmTop'
  BY <1>2, <1>6 DEF WarmTop, WarmParts
<1> QED
  BY <1>2, <1>3, <1>7 DEF WarmParts, WarmDown, WarmBalance, WarmRotate

\* What is left is to be done on a cache with the same nodes.
LEMMA ProceedWarm ==
    ASSUME Typing, WarmParts, NEW w, NEW rest, Proceed(w, rest), rest # <<>>,
           pc \in {"balance", "rotate"}, WorkOK(w, used), w.bad = "no", w.evicted = {},
           ~w.stale, SameIds(ods.cache, w.cache), WarmTasks(w.cache, rest)
    PROVE  WarmParts'
<1>1. /\ ods' = w /\ tasks' = rest /\ stack' = stack /\ dropped' = dropped /\ pc' = "rotate"
      /\ call' = call
  BY ProceedFacts DEF Proceed, Kept
<1>2. Clean' /\ WarmRotate'
  BY <1>1 DEF Clean, WarmParts, WarmRotate
<1>3. WarmStack'
  BY <1>1 DEF WarmStack, WarmParts, SameIds
<1> QED
  BY <1>1, <1>2, <1>3 DEF WarmParts, WarmDown, WarmTop, WarmBalance

LEMMA BalanceWarm ==
    ASSUME Typing, Sound, WarmParts, Balance PROVE WarmParts'
<1> DEFINE n == Top(ods)
           heavy == {s \in Sides : Heavy(n, s)}
<1>1. /\ pc = "balance" /\ n \in Node /\ n.id \in Ids /\ setup \in Setups /\ used \in Nat
      /\ WorkOK(ods, used) /\ MemoryOK(used) /\ ods.bad = "no" /\ ods.cache \in Seq(Node)
  BY BalanceTyping, TypingFacts, NodeFields DEF Balance, Running
<1>2. /\ Unique(ods.cache) /\ n \in Nodes(ods.cache) /\ IsIn(ods.cache, n.id)
      /\ ods.evicted = {} /\ ~ods.stale
  <2>1. ods.cache # <<>>
    BY <1>1 DEF Typing
  <2> QED
    BY <1>1, <2>1, TopCached DEF WorkOK, WarmParts, Clean
<1>3. WarmHeavy(ods.cache, n)
  BY <1>1 DEF WarmParts, WarmBalance
<1> HIDE DEF n
<1>4. ASSUME NEW s \in heavy, NEW w, w = OdsAccessRead(Marked, n.child[s]),
             IF Top(w).height[s] >= Top(w).height[Other(s)]
             THEN Proceed(w, SingleRotation(s, n))
             ELSE Proceed(OdsAccessRead(w, n.id), DoubleRotation(s, n))
      PROVE  WarmParts'
  <2>1. s \in Sides /\ Heavy(n, s) /\ n.child[s] \in Ids
    BY <1>1, NodeFields
  <2>2. /\ IsIn(ods.cache, n.child[s])
        /\ \A k \in Nodes(ods.cache) : k.id = n.child[s] => HotIn(ods.cache, k)
    BY <1>3, <2>1 DEF WarmHeavy
  <2>3. PICK u : u = Marked
    OBVIOUS
  <2>4. /\ WorkOK(u, used) /\ u.bad = "no" /\ u.cache = ods.cache /\ u.evicted = {}
        /\ ~u.stale
    <3>1. ods \in Work
      BY <1>1 DEF WorkOK
    <3>2. u.cache = ods.cache /\ u.evicted = ods.evicted /\ u.stale = ods.stale
      BY <2>3, <3>1 DEF Marked, Work
    <3> QED
      BY <1>1, <1>2, <2>1, <2>3, <3>2, MarkedFacts
  <2>5. /\ WorkOK(w, used) /\ w.bad = "no" /\ w.evicted = {} /\ ~w.stale
        /\ Top(w) \in Nodes(ods.cache) /\ Top(w) \in Node /\ Top(w).id = n.child[s]
        /\ Nodes(w.cache) = Nodes(ods.cache) /\ SameIds(ods.cache, w.cache)
    BY <1>1, <1>4, <2>1, <2>2, <2>3, <2>4, WarmRead
  <2>6. Unique(w.cache) /\ IsIn(w.cache, n.id) /\ n \in Nodes(w.cache)
    BY <1>2, <2>5 DEF WorkOK, SameIds
  <2>7. PICK y : y = Top(w)
    OBVIOUS
  <2>8. CASE y.height[s] >= y.height[Other(s)]
    <3>1. Proceed(w, SingleRotation(s, n))
      BY <1>4, <2>7, <2>8
    <3>2. PICK rest : rest = SingleRotation(s, n)
      OBVIOUS
    <3>3. WarmTasks(w.cache, rest)
      BY <2>1, <2>2, <2>5, <2>6, <3>2, SingleWarm DEF SameIds
    <3>4. rest # <<>>
      BY <3>2 DEF SingleRotation
    <3> QED
      BY <1>1, <2>5, <3>1, <3>2, <3>3, <3>4, ProceedWarm
  <2>9. CASE ~(y.height[s] >= y.height[Other(s)])
    <3>1. PICK v : v = OdsAccessRead(w, n.id)
      OBVIOUS
    <3>2. /\ WorkOK(v, used) /\ v.bad = "no" /\ v.evicted = {} /\ ~v.stale
          /\ Nodes(v.cache) = Nodes(w.cache)
      BY <1>1, <2>5, <2>6, <3>1, WarmRead
    <3>3. PICK rest : rest = DoubleRotation(s, n)
      OBVIOUS
    <3>4. SameIds(ods.cache, v.cache) /\ Unique(v.cache) /\ n \in Nodes(v.cache)
          /\ y \in Nodes(v.cache)
      BY <1>2, <2>5, <2>7, <3>2 DEF SameIds, IsIn, WorkOK
    <3>5. IsIn(ods.cache, y.child[Other(s)])
      <4>1. y.height[Other(s)] > y.height[s]
        BY <2>1, <2>5, <2>7, <2>9, NodeFields, OtherSide
      <4> QED
        BY <2>1, <2>2, <2>5, <2>7, <4>1, OtherSide DEF HotIn
    <3>6. WarmTasks(v.cache, rest)
      BY <2>1, <2>5, <2>7, <3>3, <3>4, <3>5, DoubleWarm DEF SameIds
    <3>7. rest # <<>>
      BY <3>3 DEF DoubleRotation
    <3>8. Proceed(v, rest)
      BY <1>4, <2>7, <2>9, <3>1, <3>3
    <3> QED
      BY <1>1, <3>2, <3>4, <3>6, <3>7, <3>8, ProceedWarm
  <2> QED
    BY <2>8, <2>9
<1> QED
  <2>1. Balance => \/ heavy = {} /\ Proceed(ods, <<>>)
                   \/ \E s \in heavy :
                        \E w \in {OdsAccessRead(Marked, n.child[s])} :
                            IF Top(w).height[s] >= Top(w).height[Other(s)]
                            THEN Proceed(w, SingleRotation(s, n))
                            ELSE Proceed(OdsAccessRead(w, n.id), DoubleRotation(s, n))
    BY DEF Balance, Marked, n
  <2> HIDE DEF heavy
  <2> QED
    BY <1>1, <1>4, <2>1, BalancedWarm

-------------------------------------------------------------------------------
(* The rotations. *)

\* The accesses of a rotation whose nodes are cached.
LEMMA RotateCached ==
    ASSUME setup \in Setups, NEW m \in Nat, NEW w, WorkOK(w, m), MemoryOK(m), w.bad = "no",
           w.evicted = {}, ~w.stale, NEW s \in Sides, NEW id \in Ids, IsIn(w.cache, id),
           \A k \in Nodes(w.cache) : k.id = id => IsIn(w.cache, k.child[Other(s)]),
           NEW w1, NEW w2, NEW down, NEW w3, NEW up, NEW w4,
           RotateSteps(s, id, w, w1, w2, down, w3, up, w4)
    PROVE  /\ WorkOK(w4, m) /\ w4.bad = "no" /\ w4.evicted = {} /\ ~w4.stale
           /\ SameIds(w.cache, w4.cache) /\ Top(w4) = up /\ up.child[s] = id
<1>1. /\ w1 = OdsAccessRead(w, id)
      /\ w2 = OdsAccessRead(w1, Top(w1).child[Other(s)])
      /\ w3 = OdsAccessWrite(w2, down)
      /\ w4 = OdsAccessWrite(w3, up)
  BY DEF RotateSteps
<1>2. /\ WorkOK(w1, m) /\ w1.bad = "no" /\ w1.evicted = {} /\ ~w1.stale
      /\ Top(w1) \in Nodes(w.cache) /\ Top(w1) \in Node /\ Top(w1).id = id /\ id \in 1..m
      /\ SameIds(w.cache, w1.cache)
  BY <1>1, WarmRead
<1>3. PICK y : y = Top(w1).child[Other(s)]
  OBVIOUS
<1>4. y \in Ids /\ IsIn(w.cache, y) /\ IsIn(w1.cache, y)
  BY <1>2, <1>3, NodeFields, OtherSide DEF SameIds
<1>5. /\ WorkOK(w2, m) /\ w2.bad = "no" /\ w2.evicted = {} /\ ~w2.stale
      /\ Top(w2).id = y /\ y \in 1..m /\ SameIds(w1.cache, w2.cache)
  BY <1>1, <1>2, <1>3, <1>4, WarmRead
<1>6. /\ Relink1(down, Top(w1), Other(s), Top(w2).child[s], Top(w2).height[s])
      /\ Relink1(up, Top(w2), s, id, HEIGHT(down))
  BY <1>2, <1>5, RotationWork
<1>7. /\ down \in Node /\ down.id = id /\ up \in Node /\ up.id = y /\ up.child[s] = id
  BY <1>2, <1>5, <1>6 DEF Relink1
<1>8. IsIn(w2.cache, id) /\ IsIn(w2.cache, y)
  BY <1>2, <1>4, <1>5 DEF SameIds
<1>9. /\ WorkOK(w3, m) /\ w3.bad = "no" /\ w3.evicted = {} /\ ~w3.stale
      /\ SameIds(w2.cache, w3.cache)
  BY <1>1, <1>2, <1>5, <1>7, <1>8, WarmWrite
<1>10. IsIn(w3.cache, y)
  BY <1>8, <1>9 DEF SameIds
<1>11. /\ WorkOK(w4, m) /\ w4.bad = "no" /\ w4.evicted = {} /\ ~w4.stale
       /\ Top(w4) = up /\ SameIds(w3.cache, w4.cache)
  BY <1>1, <1>5, <1>7, <1>9, <1>10, WarmWrite
<1>12. SameIds(w.cache, w4.cache)
  BY <1>2, <1>5, <1>9, <1>11 DEF SameIds
<1> QED
  BY SMTT(30), <1>7, <1>11, <1>12

\* What follows a rotation: the first of a double one leaves a task that reads nothing,
\* and the last one a node that is not higher on the far side.
LEMMA RotateLeaves ==
    ASSUME Typing, pc = "rotate", NEW s \in Sides, Head(tasks).do = s, NEW L, NEW U,
           AtRotate(L, U), NEW w1, NEW w2, NEW down, NEW w3, NEW up, NEW w4,
           RotateSteps(s, Head(tasks).id, ods, w1, w2, down, w3, up, w4),
           w4.bad = "no", ~w4.stale
    PROVE  /\ Tail(tasks) # <<>> => Head(Tail(tasks)).do \notin Sides
           /\ Tail(tasks) = <<>> => ~(up.height[Other(s)] > up.height[s])
<1>1. PICK z \in Sides, t \in Ids, y \in Ids :
           \/ AtLast(L, U, t, z, y)
           \/ AtFirst(L, U, t, z, y)
           \/ \E n : AtSecond(L, U, t, z, y, n)
  BY DEF AtRotate
<1>2. PICK D : D = U[RootOf(t, stack)] \ SpineIds(stack)
  OBVIOUS
<1>3. CASE AtLast(L, U, t, z, y)
  <2>1. z = s /\ Head(tasks).id = t /\ y = L[t].child[Other(s)] /\ y # invalid_mask
        /\ Working(L, U, t, stack, {t, y}) /\ Len(tasks) = 1
        /\ L[y].height[Other(s)] <= Over(L[y].height[s], L[t].height[s])
    BY Zenon, <1>3 DEF AtLast
  <2>2. Tail(tasks) = <<>>
    <3>1. tasks \in Seq(Tasks) /\ tasks # <<>>
      BY TypingFacts DEF Typing
    <3> QED
      BY <2>1, <3>1, FrontTail
  <2>3. Stored(memory, ods, L, D) /\ Reached(L, t, D)
    BY ONLY <1>2, <2>1, WorkingFacts
  <2>4. t \in D /\ y \in D
    BY <2>1, <2>3, OtherSide DEF Reached
  <2>5. Rotated(L, D, t, y, s, down, up, w4)
    BY <2>1, <2>3, <2>4, RotationMade
  <2>6. /\ up.height[s] = Over(L[y].height[s], L[t].height[s])
        /\ up.height[Other(s)] = L[y].height[Other(s)] /\ up \in Node
    BY <2>5, RotatedHeights
  <2>7. up.height[s] \in Nat /\ up.height[Other(s)] \in Nat
    BY <2>6, NodeFields, OtherSide
  <2> QED
    BY SMTT(30), <2>1, <2>2, <2>6, <2>7
<1>4. CASE AtFirst(L, U, t, z, y)
  <2>1. PICK a, b, d : /\ a = Task(z, L[t].child[z], L[t])
                       /\ b = Task(Relinking(z), L[t].id, L[t])
                       /\ d = Task(Other(z), L[t].id, L[t])
    OBVIOUS
  <2>2. tasks = <<a, b, d>> /\ b.do = Relinking(z)
    BY <1>4, <2>1 DEF AtFirst, DoubleRotation, Task
  <2>3. Tail(<<a, b, d>>) = <<b, d>> /\ Head(<<b, d>>) = b /\ <<b, d>> # <<>>
    OBVIOUS
  <2> QED
    BY <2>2, <2>3, TaskNames
<1>5. ~\E n : AtSecond(L, U, t, z, y, n)
  <2> SUFFICES ASSUME NEW n, AtSecond(L, U, t, z, y, n) PROVE FALSE
    OBVIOUS
  <2>1. PICK a, b : a = Task(Relinking(z), t, n) /\ b = Task(Other(z), t, n)
    OBVIOUS
  <2>2. tasks = <<a, b>> /\ a.do = Relinking(z)
    BY <2>1 DEF AtSecond, Task
  <2>3. Head(<<a, b>>) = a
    OBVIOUS
  <2> QED
    BY <2>2, <2>3, TaskNames
<1> QED
  BY <1>1, <1>3, <1>4, <1>5

LEMMA RotateWarm ==
    ASSUME Typing, Sound, WarmParts, NEW s \in Sides, Rotate(s) PROVE WarmParts'
<1>1. /\ used \in Nat /\ setup \in Setups /\ ods.bad = "no" /\ WorkOK(ods, used)
      /\ MemoryOK(used) /\ pc = "rotate" /\ Head(tasks).do = s /\ ods.evicted = {}
      /\ ~ods.stale /\ ~dropped /\ tasks # <<>> /\ tasks \in Seq(Tasks)
  BY Zenon, TypingFacts DEF Rotate, Running, WarmParts, Clean, Typing
<1>2. PICK x : x = Head(tasks).id
  OBVIOUS
<1>3. x \in Ids
  BY <1>1, <1>2, HeadTask DEF Tasks
<1>4. PICK w1, w2, down, w3, up, w4 :
              /\ RotateSteps(s, x, ods, w1, w2, down, w3, up, w4)
              /\ Proceed(w4, Tail(tasks))
  BY <1>2, RotateStep
<1>5. /\ \A i \in DOMAIN tasks : IsIn(ods.cache, tasks[i].id)
      /\ \A k \in Nodes(ods.cache) : k.id = x => IsIn(ods.cache, k.child[Other(s)])
  BY <1>1, <1>2 DEF WarmParts, WarmRotate, WarmTasks
<1>6. IsIn(ods.cache, x)
  BY <1>1, <1>2, <1>5, FrontTail
<1>7. /\ WorkOK(w4, used) /\ w4.bad = "no" /\ w4.evicted = {} /\ ~w4.stale
      /\ SameIds(ods.cache, w4.cache) /\ Top(w4) = up /\ up.child[s] = x
  BY <1>1, <1>3, <1>4, <1>5, <1>6, RotateCached
<1>8. PICK L, U : AtRotate(L, U)
  BY <1>1 DEF Sound, SoundAt
<1>9. /\ Tail(tasks) # <<>> => Head(Tail(tasks)).do \notin Sides
      /\ Tail(tasks) = <<>> => ~(up.height[Other(s)] > up.height[s])
  BY <1>1, <1>2, <1>4, <1>7, <1>8, RotateLeaves
<1>10. PICK rest : rest = Tail(tasks)
  OBVIOUS
<1>11. CASE rest # <<>>
  <2>1. \A i \in DOMAIN rest : IsIn(w4.cache, rest[i].id)
    <3>1. \A i \in DOMAIN rest : i + 1 \in DOMAIN tasks /\ rest[i] = tasks[i + 1]
      BY <1>1, <1>10, FrontTail
    <3> QED
      BY <1>5, <1>7, <3>1 DEF SameIds
  <2>2. WarmTasks(w4.cache, rest)
    BY <1>9, <1>10, <1>11, <2>1 DEF WarmTasks
  <2> QED
    BY <1>1, <1>4, <1>7, <1>10, <1>11, <2>2, ProceedWarm
<1>12. CASE rest = <<>>
  <2>1. /\ ods' = w4 /\ stack' = stack /\ dropped' = dropped /\ pc' = "ascend" /\ call' = call
    BY <1>1, <1>4, <1>7, <1>10, <1>12, ProceedFacts DEF Proceed, Kept
  <2>2. Clean'
    BY <1>1, <1>7, <2>1 DEF Clean
  <2>3. WarmStack'
    BY <1>1, <1>7, <2>1 DEF WarmStack, WarmParts, SameIds
  <2>4. HotIn(w4.cache, up)
    <3>1. \A z \in Sides : up.height[z] > up.height[Other(z)] => z = s
      BY <1>9, <1>10, <1>12, OtherSide
    <3> QED
      BY <1>6, <1>7, <3>1 DEF HotIn, SameIds
  <2>5. WarmTop'
    BY <1>7, <2>1, <2>4 DEF WarmTop
  <2> QED
    BY <2>1, <2>2, <2>3, <2>5 DEF WarmParts, WarmDown, WarmBalance, WarmRotate
<1> QED
  BY SMTT(30), <1>11, <1>12

LEMMA RelinkWarm ==
    ASSUME Typing, Sound, WarmParts, NEW side \in Sides, Relink(side) PROVE WarmParts'
<1>1. /\ used \in Nat /\ setup \in Setups /\ ods.bad = "no" /\ WorkOK(ods, used)
      /\ pc = "rotate" /\ Head(tasks).do = Relinking(side) /\ ods.evicted = {}
      /\ ~ods.stale /\ ~dropped /\ ods.cache # <<>> /\ ods.cache \in Seq(Node)
      /\ \A i \in DOMAIN tasks : IsIn(ods.cache, tasks[i].id)
  BY TypingFacts
     DEF Relink, Running, WarmParts, WarmRotate, WarmTasks, Clean, Typing
<1>2. PICK L, U : AtRotate(L, U)
  BY <1>1 DEF Sound, SoundAt
<1>3. PICK s \in Sides, t \in Ids, y \in Ids :
         \/ AtLast(L, U, t, s, y)
         \/ AtFirst(L, U, t, s, y)
         \/ \E n : AtSecond(L, U, t, s, y, n)
  BY <1>2 DEF AtRotate
<1>4. Head(tasks).do \notin Sides
  BY <1>1, TaskNames
<1>5. ~AtLast(L, U, t, s, y)
  BY <1>4 DEF AtLast
<1>6. ~AtFirst(L, U, t, s, y)
  <2> SUFFICES ASSUME AtFirst(L, U, t, s, y) PROVE FALSE
    OBVIOUS
  <2>1. Head(tasks).do = s
    BY DEF AtFirst, DoubleRotation, Task
  <2> QED
    BY <1>4, <2>1
<1>7. PICK e : AtSecond(L, U, t, s, y, e)
  BY <1>3, <1>5, <1>6
<1>8. PICK a, b : a = Task(Relinking(s), t, e) /\ b = Task(Other(s), t, e)
  OBVIOUS
<1>9. /\ tasks = <<a, b>> /\ a.do = Relinking(s) /\ a.node = e /\ b.do = Other(s) /\ b.id = t
      /\ e.id = t
  BY <1>7, <1>8 DEF AtSecond, Task
<1>10. Head(<<a, b>>) = a /\ Tail(<<a, b>>) = <<b>> /\ <<a, b>>[2] = b /\ 2 \in DOMAIN <<a, b>>
       /\ Head(<<b>>) = b /\ \A i \in DOMAIN <<b>> : <<b>>[i] = b
  OBVIOUS
<1>11. s = side /\ Head(tasks) = a /\ IsIn(ods.cache, t)
  <2>1. Head(tasks) = a
    BY <1>9, <1>10
  <2>2. tasks[2] = b /\ 2 \in DOMAIN tasks
    BY <1>9, <1>10
  <2>3. IsIn(ods.cache, tasks[2].id)
    BY <1>1, <2>2
  <2> QED
    BY <1>1, <1>9, <2>1, <2>2, <2>3, TaskNames
<1>12. PICK n : n = Relinked(Head(tasks).node, side, Top(ods))
  OBVIOUS
<1>13. /\ ods' = OdsAccessWrite(ods, n)
       /\ Relink1(n, Head(tasks).node, side, Top(ods).id, HEIGHT(Top(ods)))
       /\ Head(tasks).node.id \in 1..used
  BY <1>12, RelinkTyping
<1>14. n \in Node /\ n.id = t /\ n.child[side] = Top(ods).id /\ t \in 1..used
  BY <1>9, <1>11, <1>13 DEF Relink1
<1>15. IsIn(ods.cache, Top(ods).id)
  BY <1>1, TopCached
<1>16. PICK w : w = OdsAccessWrite(ods, n)
  OBVIOUS
<1>17. /\ WorkOK(w, used) /\ w.bad = "no" /\ w.evicted = {} /\ ~w.stale
       /\ n \in Nodes(w.cache) /\ SameIds(ods.cache, w.cache)
       /\ \A k \in Nodes(w.cache) : k = n \/ k.id # n.id
  BY <1>1, <1>11, <1>14, <1>16, WarmWrite
<1>18. Proceed(w, <<b>>)
  BY <1>9, <1>10, <1>12, <1>16 DEF Relink
<1>19. WarmTasks(w.cache, <<b>>)
  <2>1. \A i \in DOMAIN <<b>> : IsIn(w.cache, <<b>>[i].id)
    BY <1>9, <1>10, <1>11, <1>17 DEF SameIds
  <2>2. \A k \in Nodes(w.cache) : k.id = t => IsIn(w.cache, k.child[side])
    BY <1>14, <1>15, <1>17 DEF SameIds
  <2>3. Other(b.do) = side
    BY <1>9, <1>11, OtherSide
  <2>4. Head(<<b>>).do \in Sides =>
           \A k \in Nodes(w.cache) : k.id = Head(<<b>>).id =>
               IsIn(w.cache, k.child[Other(Head(<<b>>).do)])
    BY <1>9, <1>10, <2>2, <2>3
  <2> QED
    BY <2>1, <2>4 DEF WarmTasks
<1>20. PICK rest : rest = <<b>>
  OBVIOUS
<1>21. rest # <<>> /\ Proceed(w, rest) /\ WarmTasks(w.cache, rest)
  BY <1>18, <1>19, <1>20
<1> QED
  BY <1>1, <1>17, <1>21, ProceedWarm

-------------------------------------------------------------------------------
(* Nothing goes wrong without a cause. *)

LEMMA NextWarm ==
    ASSUME Typing, Counted, Sound, Intact, Warm, [Next]_vars PROVE Warm'
<1> SUFFICES ASSUME Roomy' PROVE WarmParts'
  BY DEF Warm
<1>1. Roomy /\ WarmParts
  BY RoomyBack DEF Warm
<1>2. CASE Call
  <2>1. ASSUME NEW k \in Key, Find(k) \/ Insert(k, node_count) PROVE WarmParts'
    BY <1>1, <2>1, QuietWarm, InsertWarm
  <2> QED
    BY <1>2, <2>1 DEF Call
<1>3. CASE Broken \/ Descend \/ Place \/ Ascend \/ Balance
  BY <1>1, <1>3, BrokenWarm, DescendWarm, PlaceWarm, AscendHereWarm, AscendAboveWarm,
     BalanceWarm
<1>4. CASE NotFound \/ InsertReturns \/ Overflow \/ PadReads \/ PadWrites
  BY <1>1, <1>4, QuietWarm
<1>5. CASE ReadFails
  <2>1. faults' > 0
    BY <1>5, FailsCounted DEF ReadFails
  <2> QED
    BY <2>1 DEF Roomy
<1>6. CASE WriteBack BY <1>1, <1>6, WriteBackWarm
<1>7. CASE LeftRotate \/ RightRotate
  BY <1>1, <1>7, RotateWarm DEF LeftRotate, RightRotate, Sides
<1>8. CASE \E side \in Sides : Relink(side)
  BY <1>1, <1>8, RelinkWarm
<1>9. CASE UNCHANGED vars
  <2>1. /\ Clean' /\ WarmStack' /\ WarmDown' /\ WarmTop'
    BY <1>1, <1>9 DEF vars, WarmParts, Clean, WarmStack, WarmDown, WarmTop, HeightOf, Spine
  <2>2. WarmBalance' /\ WarmRotate'
    BY <1>1, <1>9 DEF vars, WarmParts, WarmBalance, WarmRotate
  <2> QED
    BY <2>1, <2>2 DEF WarmParts
<1> QED
  BY <1>2, <1>3, <1>4, <1>5, <1>6, <1>7, <1>8, <1>9 DEF Next, Step

LEMMA InitWarm ==
    ASSUME Init PROVE Warm
<1>1. Clean /\ pc = "idle"
  BY DEF Init, Clean, Start
<1> QED
  BY <1>1 DEF Warm, WarmParts, WarmStack, WarmDown, WarmTop, WarmBalance, WarmRotate

LEMMA WarmDrops ==
    ASSUME Typing, Warm PROVE DropJustified
<1>1. faults \in Nat /\ node_count \in Nat /\ setup.oram \in Nat
  BY TypingFacts, SetupType DEF Typing, TypeOK
<1> SUFFICES ASSUME dropped, ~(faults > 0), ~(node_count > setup.oram)
             PROVE  MinNodes[setup.cache] <= node_count - 2
  BY DEF DropJustified
<1>2. ~Roomy
  BY DEF Warm, WarmParts, Clean
<1>3. faults = 0 /\ node_count <= setup.oram
  BY <1>1
<1> QED
  BY <1>2, <1>3 DEF Roomy

\* The invariant that is behind all of it.
IInv == Typing /\ Counted /\ Sound /\ Intact /\ Warm /\ StopJustified

LEMMA IInvSafe == Spec => []IInv
<1>1. Init => IInv
  <2>1. Init => StopJustified
    BY DEF Init, StopJustified
  <2> QED
    BY <2>1, InitTyping, InitCounted, InitSound, InitIntact, InitWarm DEF IInv
<1>2. IInv /\ [Next]_vars => IInv'
  BY NextTyping, NextCounted, NextSound, NextIntact, NextWarm, NextStops, IntactFirst DEF IInv
<1> QED
  BY <1>1, <1>2, PTL DEF Spec

\* An update that OdsFinalize loses, and a process that ends, recurses for ever or takes a
\* blank block for a node, have a cause: an access of the ORAM that failed, an ORAM with
\* fewer blocks than insertions, or a cache with no room for the way down the tree; and an
\* update that was lost.
THEOREM LossesAreJustified == Spec => [](DropJustified /\ StopJustified)
<1>1. IInv => DropJustified /\ StopJustified
  BY WarmDrops DEF IInv
<1> QED
  BY <1>1, IInvSafe, PTL

\* The same, and the panic of OdsFinalize, which comes after a rotation that made more
\* accesses than the padding, as long as the padding has one access for every node.
THEOREM FailuresAreJustified == PadCovers => (Spec => []FailuresJustified)
<1> SUFFICES ASSUME PadCovers PROVE Spec => []FailuresJustified
  OBVIOUS
<1>1. IInv => FailuresJustified
  BY WarmDrops DEF FailuresJustified, Counted, IInv
<1> QED
  BY <1>1, IInvSafe, PTL
===============================================================================
