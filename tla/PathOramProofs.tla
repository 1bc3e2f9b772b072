---------------------------- MODULE PathOramProofs ----------------------------
(***************************************************************************)
(* Proofs about PathOram, for every tree, bucket size, set of blocks and   *)
(* number of failing RPCs: its invariants, that it implements BlockStore,  *)
(* and what a step may lose.                                               *)
(***************************************************************************)
EXTENDS PathOram, TLAPS

-------------------------------------------------------------------------------
(* The tree. *)

\* A path of the tree meets every level in one of the server's buckets
\* (ReadPath and WritePath never miss with kObjectNotFound).
LEMMA TagInTree ==
    ASSUME NEW p \in Leaves, NEW l \in Levels
    PROVE  Tag(p, l) \in Tags
<1> DEFINE m == 2^l
           n == 2^(tree_level - l)
           q == p \div n
<1>1. tree_level - l \in 0..tree_level
  BY TreeAssumption DEF Levels
<1>2. m \in Nat \ {0} /\ n \in Nat \ {0} /\ number_of_leafs = m * n
  BY <1>1, TreeAssumption DEF Levels, number_of_leafs
<1>3. p \in Nat /\ p < m * n
  BY <1>2 DEF Leaves
<1> HIDE DEF m, n
<1>4. q \in Nat /\ n * q <= p
  BY <1>2, <1>3
<1>5. q < m
  <2>1. SUFFICES ASSUME q >= m PROVE FALSE
    BY <1>2, <1>4
  <2>2. n * q >= n * m
    BY <2>1, <1>2, <1>4
  <2> QED
    BY <2>2, <1>2, <1>3, <1>4
<1>6. q <= p
  <2>1. \A i \in Nat, j \in Nat \ {0} : i <= j * i
    OBVIOUS
  <2> QED
    BY <2>1, <1>2, <1>3, <1>4
<1>7. Tag(p, l) = <<l, q>>
  BY TreeAssumption DEF Tag, Offset, n
<1>8. q \in Leaves
  BY <1>2, <1>3, <1>4, <1>6 DEF Leaves
<1> QED
  BY <1>5, <1>7, <1>8 DEF Tags, m

\* The paths FillWithData samples for a bucket are paths of the tree, and they
\* cross that bucket.
LEMMA SpanCrossesBucket ==
    ASSUME NEW l \in Levels, NEW o \in Nat, o < 2^l,
           NEW p \in (o * 2^(tree_level - l))
                       ..(o * 2^(tree_level - l) + 2^(tree_level - l) - 1)
    PROVE  p \in Leaves /\ Tag(p, l) = <<l, o>>
<1> DEFINE m == 2^l
           n == 2^(tree_level - l)
<1>1. tree_level - l \in 0..tree_level
  BY TreeAssumption DEF Levels
<1>2. m \in Nat \ {0} /\ n \in Nat \ {0} /\ number_of_leafs = m * n
  BY <1>1, TreeAssumption DEF Levels, number_of_leafs
<1>3. p \in (o * n)..(o * n + n - 1) /\ o < m
  OBVIOUS
<1>4. Tag(p, l) = <<l, p \div n>>
  BY TreeAssumption DEF Tag, Offset, n
<1> HIDE DEF m, n
<1>5. o * n \in Nat /\ p \in Nat /\ o * n <= p /\ p < o * n + n
  BY <1>2, <1>3
<1>6. p \div n = o
  <2> DEFINE q == p \div n
             r == p % n
  <2>1. q \in Nat /\ r \in 0..(n - 1) /\ p = n * q + r
    BY <1>2, <1>5
  <2> HIDE DEF q, r
  <2>2. \A i, j \in Nat : i < j => n * i + n <= n * j
    BY <1>2
  <2>3. ~(q < o) /\ ~(o < q)
    BY <2>1, <2>2, <1>2, <1>5
  <2>4. q = o
    BY <2>1, <2>3
  <2> QED
    BY <2>4 DEF q
<1>7. o * n + n <= m * n
  BY <1>2, <1>3
<1> QED
  BY <1>2, <1>4, <1>5, <1>6, <1>7 DEF Leaves

\* The first leaf and the last level exist.
LEMMA TreeBounds ==
    /\ number_of_leafs \in Nat \ {0}
    /\ 0 \in Leaves
    /\ 0 \in Levels
    /\ tree_level \in Levels
    /\ \A l \in Levels : 2^l \in Nat \ {0} /\ 2^l <= number_of_leafs
<1>1. tree_level \in Nat
  BY TreeAssumption
<1>2. \A l \in Levels : 2^l \in Nat \ {0}
  BY TreeAssumption DEF Levels
<1>3. 0 \in Levels /\ tree_level \in Levels
  BY <1>1 DEF Levels
<1>4. number_of_leafs \in Nat \ {0}
  BY <1>2, <1>3 DEF number_of_leafs
<1>5. ASSUME NEW l \in Levels PROVE 2^l <= number_of_leafs
  <2> DEFINE m == 2^l
             n == 2^(tree_level - l)
  <2>1. tree_level - l \in Levels
    BY <1>1 DEF Levels
  <2>2. m \in Nat \ {0} /\ n \in Nat \ {0}
    BY <1>2, <2>1
  <2>3. number_of_leafs = m * n
    BY TreeAssumption DEF Levels, number_of_leafs
  <2> HIDE DEF m, n
  <2>4. m <= m * n
    BY <2>2
  <2> QED
    BY <2>3, <2>4 DEF m
<1> QED
  BY <1>2, <1>3, <1>4, <1>5 DEF Leaves

-------------------------------------------------------------------------------
(* Typing. *)

USE ConstantsAssumption

\* What is taken from the input are blocks.
LEMMA NextEntriesType ==
    ASSUME TypeOK PROVE NextEntries \in SUBSET Block
BY DEF TypeOK, NextEntries

LEMMA InitTyping ==
    ASSUME Init PROVE TypeOK
<1>1. (CHOOSE a \in Addr : TRUE) \in Addr
  OBVIOUS
<1>2. call \in Calls /\ call.op = "kRead"
  BY <1>1 DEF Init, Calls
<1>3. input \in Seq(Block \cup {Pad})
  BY DEF Init
<1>4. storage \in [Tags -> SUBSET Block] /\ position_map \in [Addr -> Leaves]
  BY TreeBounds DEF Init
<1>5. faults \in 0..MaxFaults /\ x \in 0..number_of_leafs
  BY TreeBounds DEF Init
<1> QED
  BY <1>2, <1>3, <1>4, <1>5, TreeBounds DEF Init, TypeOK, Statuses

\* A step of the set-up loop keeps the types; paths are sampled in the tree.
LEMMA FillTyping ==
    ASSUME TypeOK, NEW outcome \in Outcomes, AccurateWriteBucket(outcome)
    PROVE  TypeOK'
<1> USE DEF AccurateWriteBucket, Appended
<1>1. NextEntries \in SUBSET Block
  BY NextEntriesType
<1>2. <<level, offset>> \in Tags /\ level \in Levels /\ offset \in Nat
      /\ offset < 2^level
  BY DEF TypeOK, Tags
<1>3. Span \subseteq Leaves
  BY <1>2, SpanCrossesBucket DEF Span
<1>4. position_map' \in [Addr -> Leaves]
  BY <1>3 DEF TypeOK
<1>5. storage' \in [Tags -> SUBSET Block]
  BY <1>1, <1>2 DEF TypeOK
<1>6. faults' \in 0..MaxFaults
  BY DEF Rpc, TypeOK
<1>7. p_data' \in Nat
  BY DEF TypeOK, Min2
<1>8. /\ level' \in Levels
      /\ offset' \in Nat
      /\ pc' = "fill" => <<level', offset'>> \in Tags
      /\ pc' \in {"idle", "fill", "aborted"}
  <2>1. CASE registered /\ outcome = "answered" /\ offset + 1 < 2^level
    <3>1. offset' = offset + 1 /\ level' = level /\ pc' = pc /\ pc = "fill"
      BY <2>1, <1>2, TreeBounds
    <3>2. offset + 1 \in Leaves
      BY <2>1, <1>2, TreeBounds DEF Leaves
    <3> QED
      BY <2>1, <3>1, <3>2, <1>2 DEF Tags
  <2>2. CASE registered /\ outcome = "answered" /\ offset + 1 = 2^level
             /\ level > 0
    <3>1. offset' = 0 /\ level' = level - 1 /\ pc' = pc /\ pc = "fill"
      BY <2>2, <1>2, TreeBounds
    <3>2. level - 1 \in Levels
      BY <2>2, <1>2, TreeAssumption DEF Levels
    <3>3. 0 < 2^(level - 1)
      BY <3>2, TreeBounds
    <3> QED
      BY <3>1, <3>2, <3>3, TreeBounds DEF Tags
  <2>3. CASE registered /\ outcome = "answered" /\ offset + 1 = 2^level
             /\ level = 0
    BY <2>3, <1>2, TreeBounds
  <2>4. CASE ~(registered /\ outcome = "answered")
    BY <2>4, <1>2
  <2> QED
    BY <2>1, <2>2, <2>3, <2>4
<1>9. is_initialized' \in BOOLEAN /\ status' \in Statuses
  BY DEF TypeOK, Statuses
<1> QED
  BY <1>4, <1>5, <1>6, <1>7, <1>8, <1>9 DEF TypeOK

\* The stash a merged path gives, and what an eviction takes from it.
LEMMA StashType ==
    ASSUME TypeOK
    PROVE  /\ MergedStash \in SUBSET Block
           /\ \A S \in Subsets : S \in SUBSET stash /\ S \in SUBSET Block
BY DEF TypeOK, MergedStash, Subsets

LEMMA StepTyping ==
    ASSUME TypeOK, [Next]_vars PROVE TypeOK'
<1> USE TreeBounds
<1>1. ASSUME NEW outcome \in Outcomes, InitOram(outcome) PROVE TypeOK'
  BY <1>1 DEF InitOram, TypeOK, Rpc, Statuses, fill_vars, Executed
<1>2. ASSUME NEW d \in DataVectors, FillWithData(d) PROVE TypeOK'
  <2>1. d \in Seq(Block \cup {Pad})
    OBVIOUS
  <2>2. <<tree_level, 0>> \in Tags
    BY DEF Tags
  <2> QED
    BY <1>2, <2>1, <2>2 DEF FillWithData, TypeOK, Statuses, server_vars
<1>3. ASSUME NotInitialized PROVE TypeOK'
  BY <1>3 DEF NotInitialized, TypeOK, Statuses, server_vars, fill_vars
<1>4. ASSUME NEW op \in {"kRead", "kWrite"}, NEW a \in Addr,
             NEW v \in Arguments(op)
      PROVE  /\ \A p \in Leaves : Access(op, a, v, p) => TypeOK'
             /\ \A p \in 0..number_of_leafs : AccessDirect(op, a, v, p) => TypeOK'
             /\ \A p \in Leaves : DummyAccess(op, a, v, p) => TypeOK'
  <2>1. v \in Val \cup {NoVal}
    BY <1>4 DEF Arguments
  <2>2. ASSUME NEW dm \in BOOLEAN, NEW dr \in BOOLEAN,
               NEW p \in 0..number_of_leafs,
               BeginAccess([op |-> op, address |-> a, dummy |-> dm,
                            direct |-> dr], v, p),
               position_map' \in [Addr -> Leaves]
        PROVE  TypeOK'
    BY <1>4, <2>1, <2>2 
       DEF BeginAccess, TypeOK, Calls, Statuses, server_vars, fill_vars, Arguments
  <2>3. Leaves \subseteq 0..number_of_leafs
    BY DEF Leaves
  <2>4. ASSUME NEW p \in Leaves, Access(op, a, v, p) PROVE TypeOK'
    <3>1. position_map[a] \in 0..number_of_leafs
          /\ position_map' \in [Addr -> Leaves]
      BY <2>3, <2>4 DEF TypeOK, Access
    <3> QED
      BY <2>2, <2>4, <3>1 DEF Access
  <2>5. ASSUME NEW p \in 0..number_of_leafs, AccessDirect(op, a, v, p)
        PROVE  TypeOK'
    BY <2>2, <2>5 DEF AccessDirect, TypeOK
  <2>6. ASSUME NEW p \in Leaves, DummyAccess(op, a, v, p) PROVE TypeOK'
    BY <2>2, <2>3, <2>6 DEF DummyAccess, TypeOK
  <2> QED
    BY <2>4, <2>5, <2>6
<1>5. ASSUME NEW outcome \in Outcomes, AccurateWriteBucket(outcome) PROVE TypeOK'
  BY <1>5, FillTyping
<1>6. ASSUME ReadOutOfRange PROVE TypeOK'
  BY <1>6 DEF ReadOutOfRange, Return, TypeOK, Statuses, server_vars, fill_vars
<1>7. ASSUME pc = "read", x < number_of_leafs
      PROVE  x \in Leaves /\ storage[Tag(x, level)] \in SUBSET Block
  <2>1. x \in Leaves
    BY <1>7 DEF TypeOK, Leaves
  <2> QED
    BY <2>1, TagInTree DEF TypeOK
<1>8. ASSUME ReadBucket PROVE TypeOK'
  <2>1. storage[Tag(x, level)] \in SUBSET Block
    BY <1>7, <1>8 DEF ReadBucket, Cleared
  <2>2. level < tree_level => level + 1 \in Levels
    BY TreeAssumption DEF TypeOK, Levels
  <2>3. storage' \in [Tags -> SUBSET Block]
    BY <1>8 DEF ReadBucket, Cleared, TypeOK
  <2>4. /\ bucket_this_path' \in SUBSET Block
        /\ pc' \in {"read", "merge", "idle"}
        /\ level' \in Levels
        /\ x' \in 0..number_of_leafs
        /\ status' \in Statuses
    BY <1>8, <2>1, <2>2 DEF ReadBucket, Cleared, Return, TypeOK, Statuses
  <2> QED
    BY <1>8, <2>3, <2>4 DEF ReadBucket, Cleared, Rpc, TypeOK, fill_vars
<1>9. ASSUME NEW outcome \in Outcomes, ReadBucketFails(outcome) PROVE TypeOK'
  <2>1. storage' \in [Tags -> SUBSET Block]
    BY <1>9 DEF ReadBucketFails, Cleared, TypeOK
  <2>2. displaced' \in SUBSET Addr
    BY <1>9 DEF ReadBucketFails, Cleared, TypeOK, Calls
  <2>3. faults' \in 0..MaxFaults
    BY <1>9 DEF ReadBucketFails, Cleared, Rpc, TypeOK
  <2> QED
    BY <1>9, <2>1, <2>2, <2>3
       DEF ReadBucketFails, Cleared, Return, TypeOK, Statuses, fill_vars
<1>10. ASSUME BlockNotFound PROVE TypeOK'
  BY <1>10, StashType
     DEF BlockNotFound, Return, TypeOK, Statuses, server_vars, fill_vars
<1>11. ASSUME UpdateBlock PROVE TypeOK'
  <2>1. PICK b \in MergedStash :
          /\ b.id = call.address
          /\ \/ /\ call.op = "kWrite"
                /\ stash' = (MergedStash \ {b}) \cup {[b EXCEPT !.data = buffer]}
                /\ UNCHANGED <<buffer, position_map>>
             \/ /\ call.op = "kRead"
                /\ buffer' = b.data
                /\ stash' = IF Standalone THEN MergedStash ELSE MergedStash \ {b}
                /\ position_map' = IF Standalone THEN position_map
                                   ELSE [position_map EXCEPT ![b.id] = 0]
    BY <1>11 DEF UpdateBlock
  <2>2. b \in Block /\ MergedStash \in SUBSET Block
    BY StashType
  <2>3. position_map' \in [Addr -> Leaves]
    BY <2>1, <2>2 DEF TypeOK
  <2>4. buffer' \in Val \cup {NoVal}
    BY <2>1, <2>2 DEF TypeOK, Block
  <2>5. stash' \in SUBSET Block
    BY <2>1, <2>2 DEF TypeOK, Block
  <2> QED
    BY <1>11, <2>3, <2>4, <2>5 DEF UpdateBlock, TypeOK, server_vars, fill_vars
<1>12. ASSUME NEW S \in Subsets, WriteBucket(S) PROVE TypeOK'
  <2>1. level > 0 => level - 1 \in Levels
    BY TreeAssumption DEF TypeOK, Levels
  <2>2. storage' \in [Tags -> SUBSET Block] /\ stash' \in SUBSET Block
    BY <1>12, StashType DEF WriteBucket, Replaced, TypeOK
  <2>3. /\ pc' \in {"write", "idle"}
        /\ level' \in Levels
        /\ x' \in 0..number_of_leafs
        /\ status' \in Statuses
        /\ bucket_this_path' \in SUBSET Block
    BY <1>12, <2>1 DEF WriteBucket, Replaced, Return, TypeOK, Statuses
  <2> QED
    BY <1>12, <2>2, <2>3 DEF WriteBucket, Replaced, Rpc, TypeOK, fill_vars
<1>13. ASSUME NEW S \in Subsets, NEW outcome \in Outcomes,
              WriteBucketFails(S, outcome)
       PROVE  TypeOK'
  <2>1. storage' \in [Tags -> SUBSET Block] /\ stash' \in SUBSET Block
    BY <1>13, StashType DEF WriteBucketFails, Replaced, TypeOK
  <2>2. faults' \in 0..MaxFaults
    BY <1>13 DEF WriteBucketFails, Replaced, Rpc, TypeOK
  <2> QED
    BY <1>13, <2>1, <2>2
       DEF WriteBucketFails, Replaced, Return, TypeOK, Statuses, fill_vars
<1>14. ASSUME UNCHANGED vars PROVE TypeOK'
  BY <1>14 DEF vars, TypeOK
<1> QED
  BY <1>1, <1>2, <1>3, <1>4, <1>5, <1>6, <1>8, <1>9, <1>10, <1>11, <1>12,
     <1>13, <1>14 DEF Next, Call, Step

\* Every variable keeps its type in every behaviour: in particular the paths
\* and tags the controller computes stay inside the server's tree.
THEOREM Typing == Spec => []TypeOK
<1>1. Init => TypeOK
  BY InitTyping
<1>2. TypeOK /\ [Next]_vars => TypeOK'
  BY StepTyping
<1> QED
  BY <1>1, <1>2, PTL DEF Spec

-------------------------------------------------------------------------------
(* The inductive invariant, one lemma per part. *)

\* The control of a call stays consistent with its arguments.
LEMMA CallProgressStep ==
    ASSUME IInv, TypeOK', [Next]_vars PROVE CallProgress'
<1>1. ASSUME NEW outcome \in Outcomes, InitOram(outcome) PROVE CallProgress'
  BY <1>1, TreeBounds DEF InitOram, fill_vars, IInv, CallProgress, TypeOK
<1>2. ASSUME NEW d \in DataVectors, FillWithData(d) PROVE CallProgress'
  BY <1>2, TreeBounds DEF FillWithData, server_vars, IInv, CallProgress, TypeOK
<1>3. ASSUME NotInitialized PROVE CallProgress'
  BY <1>3, TreeBounds
     DEF NotInitialized, server_vars, fill_vars, IInv, CallProgress, TypeOK
<1>4. ASSUME NEW op \in {"kRead", "kWrite"}, NEW a \in Addr,
             NEW v \in Arguments(op), NEW p \in Leaves, Access(op, a, v, p)
      PROVE  CallProgress'
  <2>1. position_map[a] \in Leaves /\ position_map[a] # number_of_leafs
    BY TreeBounds DEF IInv, TypeOK, Leaves
  <2> QED
    BY <1>4, <2>1 DEF Access, BeginAccess, IInv, CallProgress
<1>5. ASSUME NEW op \in {"kRead", "kWrite"}, NEW a \in Addr,
             NEW v \in Arguments(op), NEW p \in 0..number_of_leafs,
             AccessDirect(op, a, v, p)
      PROVE  CallProgress'
  BY <1>5, TreeBounds
     DEF AccessDirect, BeginAccess, server_vars, fill_vars, IInv, CallProgress,
         TypeOK
<1>6. ASSUME NEW op \in {"kRead", "kWrite"}, NEW a \in Addr,
             NEW v \in Arguments(op), NEW p \in Leaves,
             DummyAccess(op, a, v, p)
      PROVE  CallProgress'
  <2>1. p # number_of_leafs
    BY TreeBounds DEF Leaves
  <2> QED
    BY <1>6, <2>1 DEF DummyAccess, BeginAccess, IInv, CallProgress
<1>7. ASSUME NEW outcome \in Outcomes, AccurateWriteBucket(outcome)
      PROVE  CallProgress'
  BY <1>7, TreeBounds DEF AccurateWriteBucket, Appended, IInv, CallProgress, TypeOK
<1>8. ASSUME ReadOutOfRange PROVE CallProgress'
  BY <1>8 DEF ReadOutOfRange, Return, IInv, CallProgress
<1>9. ASSUME ReadBucket PROVE CallProgress'
  <2>1. x \in Leaves /\ x # number_of_leafs
    BY <1>9, TreeBounds DEF ReadBucket, Cleared, IInv, TypeOK, Leaves
  <2>2. pc' = "read" => level' # 0
    BY <1>9 DEF ReadBucket, Cleared, Return, IInv, TypeOK, Levels
  <2> QED
    BY <1>9, <2>1, <2>2 DEF ReadBucket, Cleared, Return, IInv, CallProgress
<1>10. ASSUME NEW outcome \in Outcomes, ReadBucketFails(outcome)
       PROVE  CallProgress'
  BY <1>10, TreeBounds
     DEF ReadBucketFails, Cleared, Return, fill_vars, IInv, CallProgress, TypeOK
<1>11. ASSUME BlockNotFound PROVE CallProgress'
  BY <1>11, TreeBounds
     DEF BlockNotFound, Return, server_vars, fill_vars, IInv, CallProgress, TypeOK
<1>12. ASSUME UpdateBlock PROVE CallProgress'
  BY <1>12, TreeBounds
     DEF UpdateBlock, server_vars, fill_vars, IInv, CallProgress, TypeOK
<1>13. ASSUME NEW S \in Subsets, WriteBucket(S) PROVE CallProgress'
  BY <1>13, TreeBounds
     DEF WriteBucket, Replaced, Return, fill_vars, IInv, CallProgress, TypeOK
<1>14. ASSUME NEW S \in Subsets, NEW outcome \in Outcomes,
              WriteBucketFails(S, outcome)
       PROVE  CallProgress'
  BY <1>14, TreeBounds
     DEF WriteBucketFails, Replaced, Return, fill_vars, IInv, CallProgress, TypeOK
<1>15. ASSUME UNCHANGED vars PROVE CallProgress'
  BY <1>15, TreeBounds DEF vars, IInv, CallProgress, TypeOK
<1> QED
  BY <1>1, <1>2, <1>3, <1>4, <1>5, <1>6, <1>7, <1>8, <1>9, <1>10,
     <1>11, <1>12, <1>13, <1>14, <1>15
     DEF Next, Call, Step

\* What is in the tree during the fill comes from the part of the input that
\* has been taken.
LEMMA FillProgressStep ==
    ASSUME IInv, TypeOK', [Next]_vars PROVE FillProgress'
<1>1. ASSUME NEW outcome \in Outcomes, InitOram(outcome) PROVE FillProgress'
  BY <1>1 DEF InitOram, fill_vars, IInv, FillProgress, CallProgress, TypeOK
<1>2. ASSUME NEW d \in DataVectors, FillWithData(d) PROVE FillProgress'
  BY <1>2
     DEF FillWithData, server_vars, IInv, FillProgress, CallProgress, TypeOK
<1>3. ASSUME NotInitialized PROVE FillProgress'
  BY <1>3
     DEF NotInitialized, server_vars, fill_vars, IInv, FillProgress, CallProgress,
         TypeOK
<1>4. ASSUME NEW op \in {"kRead", "kWrite"}, NEW a \in Addr,
             NEW v \in Arguments(op), NEW p \in Leaves, Access(op, a, v, p)
      PROVE  FillProgress'
  BY <1>4
     DEF Access, BeginAccess, server_vars, fill_vars, IInv, FillProgress,
         CallProgress, TypeOK
<1>5. ASSUME NEW op \in {"kRead", "kWrite"}, NEW a \in Addr,
             NEW v \in Arguments(op), NEW p \in 0..number_of_leafs,
             AccessDirect(op, a, v, p)
      PROVE  FillProgress'
  BY <1>5
     DEF AccessDirect, BeginAccess, server_vars, fill_vars, IInv, FillProgress,
         CallProgress, TypeOK
<1>6. ASSUME NEW op \in {"kRead", "kWrite"}, NEW a \in Addr,
             NEW v \in Arguments(op), NEW p \in Leaves,
             DummyAccess(op, a, v, p)
      PROVE  FillProgress'
  BY <1>6
     DEF DummyAccess, BeginAccess, server_vars, fill_vars, IInv, FillProgress,
         CallProgress, TypeOK
<1>7. ASSUME NEW outcome \in Outcomes, AccurateWriteBucket(outcome)
      PROVE  FillProgress'
  <2>1. pc = "fill" /\ ~is_initialized /\ input \in DataVectors
    BY <1>7 DEF AccurateWriteBucket, Appended, IInv, FillProgress
  <2>2. input' = input /\ p_data' = Min2(p_data + bucket_size, Len(input))
        /\ input \in Seq(Block \cup {Pad}) /\ p_data \in Nat
    BY <1>7 DEF AccurateWriteBucket, Appended, IInv, TypeOK
  <2>3. \A k \in DOMAIN input : k <= p_data + bucket_size => k <= p_data'
    BY <2>2 DEF Min2
  <2>4. \A k \in DOMAIN input : k <= p_data => k <= p_data'
    BY <2>2, <2>3
  <2>5. ASSUME NEW t \in Tags, NEW b \in storage'[t]
        PROVE  \E k \in DOMAIN input : k <= p_data' /\ input[k] = b
    <3>1. b \in storage[t] \/ b \in NextEntries
      BY <1>7, <2>5 DEF AccurateWriteBucket, Appended, IInv, TypeOK
    <3>2. CASE b \in storage[t]
      BY <3>2, <2>1, <2>4 DEF IInv, FillProgress
    <3>3. CASE b \in NextEntries
      BY <3>3, <2>3 DEF NextEntries
    <3> QED
      BY <3>1, <3>2, <3>3
  <2>6. pc' \in {"fill", "aborted"} => ~is_initialized'
    BY <1>7, <2>1 DEF AccurateWriteBucket, Appended
  <2>7. pc' = "idle" => is_initialized'
    BY <1>7, <2>1 DEF AccurateWriteBucket, Appended
  <2>8. is_initialized' => registered'
    BY <1>7, <2>1 DEF AccurateWriteBucket, Appended
  <2>9. stash' = {} /\ bucket_this_path' = {}
    BY <1>7, <2>1 DEF AccurateWriteBucket, Appended, IInv, FillProgress
  <2> QED
    BY <2>1, <2>2, <2>5, <2>6, <2>7, <2>8, <2>9 DEF FillProgress
<1>8. ASSUME ReadOutOfRange PROVE FillProgress'
  BY <1>8
     DEF ReadOutOfRange, Return, server_vars, fill_vars, IInv, FillProgress,
         CallProgress, TypeOK
<1>9. ASSUME ReadBucket PROVE FillProgress'
  BY <1>9
     DEF ReadBucket, Cleared, Return, fill_vars, IInv, FillProgress, CallProgress,
         TypeOK
<1>10. ASSUME NEW outcome \in Outcomes, ReadBucketFails(outcome)
       PROVE  FillProgress'
  BY <1>10
     DEF ReadBucketFails, Cleared, Return, fill_vars, IInv, FillProgress,
         CallProgress, TypeOK
<1>11. ASSUME BlockNotFound PROVE FillProgress'
  BY <1>11
     DEF BlockNotFound, Return, server_vars, fill_vars, IInv, FillProgress,
         CallProgress, TypeOK
<1>12. ASSUME UpdateBlock PROVE FillProgress'
  BY <1>12
     DEF UpdateBlock, server_vars, fill_vars, IInv, FillProgress, CallProgress,
         TypeOK
<1>13. ASSUME NEW S \in Subsets, WriteBucket(S) PROVE FillProgress'
  BY <1>13
     DEF WriteBucket, Replaced, Return, fill_vars, IInv, FillProgress,
         CallProgress, TypeOK
<1>14. ASSUME NEW S \in Subsets, NEW outcome \in Outcomes,
              WriteBucketFails(S, outcome)
       PROVE  FillProgress'
  BY <1>14
     DEF WriteBucketFails, Replaced, Return, fill_vars, IInv, FillProgress,
         CallProgress, TypeOK
<1>15. ASSUME UNCHANGED vars PROVE FillProgress'
  BY <1>15 DEF vars, IInv, FillProgress, CallProgress, TypeOK
<1> QED
  BY <1>1, <1>2, <1>3, <1>4, <1>5, <1>6, <1>7, <1>8, <1>9, <1>10,
     <1>11, <1>12, <1>13, <1>14, <1>15
     DEF Next, Call, Step

\* With one copy of each id, the merge adds the whole path to the stash: the
\* test for an id that is already there never drops a block.
LEMMA MergeAll ==
    ASSUME OneCopy PROVE MergedStash = stash \cup bucket_this_path
<1>1. ASSUME NEW b \in bucket_this_path PROVE b.id \notin Ids(stash)
  BY <1>1 DEF OneCopy, Ids
<1> QED
  BY <1>1 DEF MergedStash

\* No step makes a second copy.
LEMMA OneCopyStep ==
    ASSUME IInv, TypeOK', [Next]_vars PROVE OneCopy'
<1>1. ASSUME NEW outcome \in Outcomes, InitOram(outcome) PROVE OneCopy'
  BY <1>1 DEF InitOram, fill_vars, IInv, OneCopy, TypeOK
<1>2. ASSUME NEW d \in DataVectors, FillWithData(d) PROVE OneCopy'
  BY <1>2 DEF FillWithData, server_vars, IInv, OneCopy, TypeOK
<1>3. ASSUME NotInitialized PROVE OneCopy'
  BY <1>3 DEF NotInitialized, server_vars, fill_vars, IInv, OneCopy, TypeOK
<1>4. ASSUME NEW op \in {"kRead", "kWrite"}, NEW a \in Addr,
             NEW v \in Arguments(op), NEW p \in Leaves, Access(op, a, v, p)
      PROVE  OneCopy'
  BY <1>4 DEF Access, BeginAccess, server_vars, fill_vars, IInv, OneCopy, TypeOK
<1>5. ASSUME NEW op \in {"kRead", "kWrite"}, NEW a \in Addr,
             NEW v \in Arguments(op), NEW p \in 0..number_of_leafs,
             AccessDirect(op, a, v, p)
      PROVE  OneCopy'
  BY <1>5
     DEF AccessDirect, BeginAccess, server_vars, fill_vars, IInv, OneCopy, TypeOK
<1>6. ASSUME NEW op \in {"kRead", "kWrite"}, NEW a \in Addr,
             NEW v \in Arguments(op), NEW p \in Leaves,
             DummyAccess(op, a, v, p)
      PROVE  OneCopy'
  BY <1>6
     DEF DummyAccess, BeginAccess, server_vars, fill_vars, IInv, OneCopy, TypeOK
<1>7. ASSUME NEW outcome \in Outcomes, AccurateWriteBucket(outcome)
      PROVE  OneCopy'
  <2>1. /\ pc = "fill" /\ input \in DataVectors /\ DistinctIds(input)
        /\ stash = {} /\ bucket_this_path = {}
        /\ stash' = {} /\ bucket_this_path' = {}
    BY <1>7 DEF AccurateWriteBucket, Appended, IInv, FillProgress
  <2>2. \A t \in Tags : /\ storage'[t] \subseteq storage[t] \cup NextEntries
                        /\ t # <<level, offset>> => storage'[t] = storage[t]
    BY <1>7 DEF AccurateWriteBucket, Appended, IInv, TypeOK
  <2>3. \A b, c \in NextEntries : b.id = c.id => b = c
    BY <2>1 DEF NextEntries, DistinctIds
  <2>4. ASSUME NEW t \in Tags, NEW b \in storage[t], NEW c \in NextEntries
        PROVE  b.id # c.id
    <3>1. PICK i \in DOMAIN input : i <= p_data /\ input[i] = b
      BY <2>1, <2>4 DEF IInv, FillProgress
    <3>2. PICK j \in DOMAIN input : p_data < j /\ input[j] # Pad /\ input[j] = c
      BY <2>4 DEF NextEntries
    <3>3. b # Pad
      BY <2>4 DEF IInv, TypeOK
    <3>4. i # j
      BY <3>1, <3>2 DEF IInv, TypeOK
    <3> QED
      BY <2>1, <3>1, <3>2, <3>3, <3>4 DEF DistinctIds
  <2>5. ASSUME NEW t \in Tags, NEW b \in storage'[t],
               NEW u \in Tags, NEW c \in storage'[u], b.id = c.id
        PROVE  t = u /\ b = c
    <3>1. CASE b \in storage[t] /\ c \in storage[u]
      BY <2>5, <3>1 DEF IInv, OneCopy
    <3>2. CASE b \notin storage[t] /\ c \notin storage[u]
      BY <2>2, <2>3, <2>5, <3>2
    <3>3. CASE b \in storage[t] /\ c \notin storage[u]
      BY <2>2, <2>4, <2>5, <3>3
    <3>4. CASE b \notin storage[t] /\ c \in storage[u]
      BY <2>2, <2>4, <2>5, <3>4
    <3> QED
      BY <3>1, <3>2, <3>3, <3>4
  <2> QED
    BY <2>1, <2>5 DEF OneCopy
<1>8. ASSUME ReadOutOfRange PROVE OneCopy'
  BY <1>8
     DEF ReadOutOfRange, Return, server_vars, fill_vars, IInv, OneCopy, TypeOK
<1>9. ASSUME ReadBucket PROVE OneCopy'
  BY <1>9 DEF ReadBucket, Cleared, Return, fill_vars, IInv, OneCopy, TypeOK
<1>10. ASSUME NEW outcome \in Outcomes, ReadBucketFails(outcome) PROVE OneCopy'
  BY <1>10 DEF ReadBucketFails, Cleared, Return, fill_vars, IInv, OneCopy, TypeOK
<1>11. ASSUME BlockNotFound PROVE OneCopy'
  <2>1. stash' = stash \cup bucket_this_path /\ bucket_this_path' = {}
    BY <1>11, MergeAll DEF BlockNotFound, Return, IInv
  <2>2. storage' = storage
    BY <1>11 DEF BlockNotFound, server_vars
  <2> QED
    BY <2>1, <2>2 DEF IInv, OneCopy
<1>12. ASSUME UpdateBlock PROVE OneCopy'
  <2>1. MergedStash = stash \cup bucket_this_path
    BY MergeAll DEF IInv
  <2>2. storage' = storage /\ bucket_this_path' = {}
    BY <1>12 DEF UpdateBlock, server_vars
  <2>3. \A b, c \in MergedStash : b.id = c.id => b = c
    BY <2>1 DEF IInv, OneCopy
  <2>4. PICK b \in MergedStash :
          \/ stash' = (MergedStash \ {b}) \cup {[b EXCEPT !.data = buffer]}
          \/ stash' \subseteq MergedStash
    BY <1>12 DEF UpdateBlock
  <2>5. [b EXCEPT !.data = buffer].id = b.id
    BY <2>4, StashType DEF IInv, Block
  <2>6. \A c \in stash' : \E e \in MergedStash : e.id = c.id
    BY <2>4, <2>5
  <2>7. \A c, e \in stash' : c.id = e.id => c = e
    BY <2>3, <2>4, <2>5
  <2>8. \A t \in Tags : \A c \in storage'[t] : \A e \in stash' : c.id # e.id
    BY <2>1, <2>2, <2>6 DEF IInv, OneCopy
  <2>9. \A t, u \in Tags : \A c \in storage'[t], e \in storage'[u] :
            c.id = e.id => t = u /\ c = e
    BY <2>2 DEF IInv, OneCopy
  <2> QED
    BY <2>2, <2>7, <2>8, <2>9 DEF OneCopy
<1>13. ASSUME NEW S \in Subsets, WriteBucket(S) PROVE OneCopy'
  <2>1. S \in SUBSET stash
    BY <1>13, StashType DEF IInv
  <2>2. /\ stash' = stash \ S
        /\ bucket_this_path' = {}
        /\ \A t \in Tags : \/ storage'[t] = storage[t]
                           \/ storage'[t] = S /\ t = Tag(x, level)
    <3>1. stash' = stash \ S /\ pc = "write"
      BY <1>13 DEF WriteBucket, Replaced
    <3>2. bucket_this_path' = {}
      BY <1>13, <3>1 DEF WriteBucket, Replaced, Return, IInv, CallProgress
    <3>3. storage' = storage \/ storage' = [storage EXCEPT ![Tag(x, level)] = S]
      BY <1>13 DEF WriteBucket, Replaced
    <3>4. storage \in [Tags -> SUBSET Block]
      BY DEF IInv, TypeOK
    <3> QED
      BY <3>1, <3>2, <3>3, <3>4
  <2>3. \A b, c \in stash : b.id = c.id => b = c
    BY DEF IInv, OneCopy
  <2>4. \A t \in Tags : \A b \in storage[t] : \A c \in stash : b.id # c.id
    BY DEF IInv, OneCopy
  <2>5. ASSUME NEW t \in Tags, NEW b \in storage'[t], NEW c \in stash'
        PROVE  b.id # c.id
    BY <2>1, <2>2, <2>3, <2>4, <2>5
  <2>6. ASSUME NEW t \in Tags, NEW b \in storage'[t],
               NEW u \in Tags, NEW c \in storage'[u], b.id = c.id
        PROVE  t = u /\ b = c
    <3>1. CASE storage'[t] = storage[t] /\ storage'[u] = storage[u]
      BY <2>6, <3>1 DEF IInv, OneCopy
    <3>2. CASE storage'[t] # storage[t] /\ storage'[u] # storage[u]
      BY <2>1, <2>2, <2>3, <2>6, <3>2
    <3>3. CASE storage'[t] = storage[t] /\ storage'[u] # storage[u]
      BY <2>1, <2>2, <2>4, <2>6, <3>3
    <3>4. CASE storage'[t] # storage[t] /\ storage'[u] = storage[u]
      BY <2>1, <2>2, <2>4, <2>6, <3>4
    <3> QED
      BY <3>1, <3>2, <3>3, <3>4
  <2> QED
    BY <2>2, <2>3, <2>5, <2>6 DEF OneCopy
<1>14. ASSUME NEW S \in Subsets, NEW outcome \in Outcomes,
              WriteBucketFails(S, outcome)
       PROVE  OneCopy'
  <2>1. S \in SUBSET stash
    BY <1>14, StashType DEF IInv
  <2>2. /\ stash' = stash \ S
        /\ bucket_this_path' = {}
        /\ \A t \in Tags : \/ storage'[t] = storage[t]
                           \/ storage'[t] = S /\ t = Tag(x, level)
    <3>1. stash' = stash \ S /\ pc = "write"
      BY <1>14 DEF WriteBucketFails, Replaced
    <3>2. bucket_this_path' = {}
      BY <1>14, <3>1 DEF WriteBucketFails, Replaced, Return, IInv, CallProgress
    <3>3. storage' = storage \/ storage' = [storage EXCEPT ![Tag(x, level)] = S]
      BY <1>14 DEF WriteBucketFails, Replaced
    <3>4. storage \in [Tags -> SUBSET Block]
      BY DEF IInv, TypeOK
    <3> QED
      BY <3>1, <3>2, <3>3, <3>4
  <2>3. \A b, c \in stash : b.id = c.id => b = c
    BY DEF IInv, OneCopy
  <2>4. \A t \in Tags : \A b \in storage[t] : \A c \in stash : b.id # c.id
    BY DEF IInv, OneCopy
  <2>5. ASSUME NEW t \in Tags, NEW b \in storage'[t], NEW c \in stash'
        PROVE  b.id # c.id
    BY <2>1, <2>2, <2>3, <2>4, <2>5
  <2>6. ASSUME NEW t \in Tags, NEW b \in storage'[t],
               NEW u \in Tags, NEW c \in storage'[u], b.id = c.id
        PROVE  t = u /\ b = c
    <3>1. CASE storage'[t] = storage[t] /\ storage'[u] = storage[u]
      BY <2>6, <3>1 DEF IInv, OneCopy
    <3>2. CASE storage'[t] # storage[t] /\ storage'[u] # storage[u]
      BY <2>1, <2>2, <2>3, <2>6, <3>2
    <3>3. CASE storage'[t] = storage[t] /\ storage'[u] # storage[u]
      BY <2>1, <2>2, <2>4, <2>6, <3>3
    <3>4. CASE storage'[t] # storage[t] /\ storage'[u] = storage[u]
      BY <2>1, <2>2, <2>4, <2>6, <3>4
    <3> QED
      BY <3>1, <3>2, <3>3, <3>4
  <2> QED
    BY <2>2, <2>3, <2>5, <2>6 DEF OneCopy
<1>15. ASSUME UNCHANGED vars PROVE OneCopy'
  BY <1>15 DEF vars, IInv, OneCopy, TypeOK
<1> QED
  BY <1>1, <1>2, <1>3, <1>4, <1>5, <1>6, <1>7, <1>8, <1>9, <1>10,
     <1>11, <1>12, <1>13, <1>14, <1>15
     DEF Next, Call, Step

\* The bucket being read is one of the tree, and reading it changes no other.
LEMMA ReadEffect ==
    ASSUME IInv, ReadBucket
    PROVE  /\ x \in Leaves /\ level \in Levels
           /\ storage'[Tag(x, level)] = {}
           /\ \A t \in Tags : t # Tag(x, level) => storage'[t] = storage[t]
           /\ \A l \in 0..level : storage'[Tag(x, l)] = {}
<1>1. x \in Leaves /\ level \in Levels /\ storage \in [Tags -> SUBSET Block]
  BY TreeBounds DEF ReadBucket, Cleared, IInv, TypeOK, Leaves
<1>2. Tag(x, level) \in Tags
  BY <1>1, TagInTree
<1>3. storage' = [storage EXCEPT ![Tag(x, level)] = {}]
  BY DEF ReadBucket, Cleared
<1>4. ASSUME NEW l \in 0..level PROVE storage'[Tag(x, l)] = {}
  <2>1. l \in Levels
    BY <1>1, TreeAssumption DEF Levels
  <2>2. Tag(x, l) \in Tags
    BY <1>1, <2>1, TagInTree
  <2>3. l # level => storage[Tag(x, l)] = {}
    BY <1>1 DEF ReadBucket, Cleared, IInv, WritesEmptyBuckets, Levels
  <2> QED
    BY <1>1, <1>2, <1>3, <2>2, <2>3
<1> QED
  BY <1>1, <1>2, <1>3, <1>4

\* The path being accessed stays drained until its buckets are written.
LEMMA WritesEmptyBucketsStep ==
    ASSUME IInv, TypeOK', [Next]_vars PROVE WritesEmptyBuckets'
<1>1. ASSUME NEW outcome \in Outcomes, InitOram(outcome)
      PROVE  WritesEmptyBuckets'
  BY <1>1
     DEF InitOram, fill_vars, IInv, WritesEmptyBuckets, TypeOK, CallProgress
<1>2. ASSUME NEW d \in DataVectors, FillWithData(d) PROVE WritesEmptyBuckets'
  BY <1>2
     DEF FillWithData, server_vars, IInv, WritesEmptyBuckets, TypeOK, CallProgress
<1>3. ASSUME NotInitialized PROVE WritesEmptyBuckets'
  BY <1>3
     DEF NotInitialized, server_vars, fill_vars, IInv, WritesEmptyBuckets, TypeOK,
         CallProgress
<1>4. ASSUME NEW op \in {"kRead", "kWrite"}, NEW a \in Addr,
             NEW v \in Arguments(op), NEW p \in Leaves, Access(op, a, v, p)
      PROVE  WritesEmptyBuckets'
  BY <1>4
     DEF Access, BeginAccess, server_vars, fill_vars, IInv, WritesEmptyBuckets,
         TypeOK, CallProgress
<1>5. ASSUME NEW op \in {"kRead", "kWrite"}, NEW a \in Addr,
             NEW v \in Arguments(op), NEW p \in 0..number_of_leafs,
             AccessDirect(op, a, v, p)
      PROVE  WritesEmptyBuckets'
  BY <1>5
     DEF AccessDirect, BeginAccess, server_vars, fill_vars, IInv,
         WritesEmptyBuckets, TypeOK, CallProgress
<1>6. ASSUME NEW op \in {"kRead", "kWrite"}, NEW a \in Addr,
             NEW v \in Arguments(op), NEW p \in Leaves,
             DummyAccess(op, a, v, p)
      PROVE  WritesEmptyBuckets'
  BY <1>6
     DEF DummyAccess, BeginAccess, server_vars, fill_vars, IInv,
         WritesEmptyBuckets, TypeOK, CallProgress
<1>7. ASSUME NEW outcome \in Outcomes, AccurateWriteBucket(outcome)
      PROVE  WritesEmptyBuckets'
  BY <1>7
     DEF AccurateWriteBucket, Appended, IInv, WritesEmptyBuckets, TypeOK,
         CallProgress
<1>8. ASSUME ReadOutOfRange PROVE WritesEmptyBuckets'
  BY <1>8
     DEF ReadOutOfRange, Return, server_vars, fill_vars, IInv, WritesEmptyBuckets,
         TypeOK, CallProgress
<1>9. ASSUME ReadBucket PROVE WritesEmptyBuckets'
  <2>1. level \in Levels /\ \A l \in 0..level : storage'[Tag(x, l)] = {}
    BY <1>9, ReadEffect
  <2>2. CASE pc' = "read"
    BY <1>9, <2>1, <2>2, TreeAssumption
       DEF ReadBucket, Cleared, Return, WritesEmptyBuckets, Levels
  <2>3. CASE pc' = "merge"
    BY <1>9, <2>1, <2>3 DEF ReadBucket, Cleared, Return, WritesEmptyBuckets, Levels
  <2>4. pc' # "write"
    BY <1>9 DEF ReadBucket, Cleared, Return
  <2> QED
    BY <2>2, <2>3, <2>4 DEF WritesEmptyBuckets
<1>10. ASSUME NEW outcome \in Outcomes, ReadBucketFails(outcome)
       PROVE  WritesEmptyBuckets'
  BY <1>10
     DEF ReadBucketFails, Cleared, Return, fill_vars, IInv, WritesEmptyBuckets,
         TypeOK, CallProgress
<1>11. ASSUME BlockNotFound PROVE WritesEmptyBuckets'
  BY <1>11
     DEF BlockNotFound, Return, server_vars, fill_vars, IInv, WritesEmptyBuckets,
         TypeOK, CallProgress
<1>12. ASSUME UpdateBlock PROVE WritesEmptyBuckets'
  <2>1. pc' = "write" /\ level' = tree_level /\ x' = x /\ storage' = storage
        /\ pc = "merge"
    BY <1>12 DEF UpdateBlock, server_vars
  <2> QED
    BY <2>1 DEF IInv, WritesEmptyBuckets, Levels
<1>13. ASSUME NEW S \in Subsets, WriteBucket(S) PROVE WritesEmptyBuckets'
  <2>1. CASE level > 0
    <3>1. pc = "write" /\ x' = x /\ level' = level - 1 /\ pc' = "write"
      BY <1>13, <2>1 DEF WriteBucket, Replaced, IInv, TypeOK, Levels
    <3>2. x \in Leaves /\ level \in Levels /\ storage \in [Tags -> SUBSET Block]
      BY <3>1 DEF IInv, CallProgress, TypeOK
    <3>3. ASSUME NEW l \in 0..(level - 1) PROVE storage'[Tag(x, l)] = {}
      <4>1. l \in Levels /\ l \in 0..level /\ l # level
        BY <3>2, TreeAssumption DEF Levels
      <4>2. Tag(x, l) \in Tags /\ storage[Tag(x, l)] = {}
        BY <3>1, <3>2, <4>1, TagInTree DEF IInv, WritesEmptyBuckets
      <4>3. Tag(x, l) # Tag(x, level)
        BY <4>1 DEF Tag
      <4> QED
        BY <1>13, <3>2, <4>2, <4>3 DEF WriteBucket, Replaced
    <3> QED
      BY <3>1, <3>3 DEF WritesEmptyBuckets
  <2>2. CASE level = 0
    BY <1>13, <2>2 DEF WriteBucket, Replaced, Return, WritesEmptyBuckets
  <2> QED
    BY <2>1, <2>2 DEF IInv, TypeOK, Levels
<1>14. ASSUME NEW S \in Subsets, NEW outcome \in Outcomes,
              WriteBucketFails(S, outcome)
       PROVE  WritesEmptyBuckets'
  BY <1>14
     DEF WriteBucketFails, Replaced, Return, fill_vars, IInv, WritesEmptyBuckets,
         TypeOK, CallProgress
<1>15. ASSUME UNCHANGED vars PROVE WritesEmptyBuckets'
  BY <1>15 DEF vars, IInv, WritesEmptyBuckets, TypeOK, CallProgress
<1> QED
  BY <1>1, <1>2, <1>3, <1>4, <1>5, <1>6, <1>7, <1>8, <1>9, <1>10,
     <1>11, <1>12, <1>13, <1>14, <1>15
     DEF Next, Call, Step

\* The search for a remapped block covers its whole old path.
LEMMA OldPathStep ==
    ASSUME IInv, TypeOK', [Next]_vars PROVE OldPath'
<1>1. ASSUME NEW outcome \in Outcomes, InitOram(outcome) PROVE OldPath'
  BY <1>1
     DEF InitOram, fill_vars, IInv, OldPath, OnPath, TypeOK, Searching, CallProgress
<1>2. ASSUME NEW d \in DataVectors, FillWithData(d) PROVE OldPath'
  BY <1>2
     DEF FillWithData, server_vars, IInv, OldPath, OnPath, TypeOK, Searching,
         CallProgress
<1>3. ASSUME NotInitialized PROVE OldPath'
  BY <1>3
     DEF NotInitialized, server_vars, fill_vars, IInv, OldPath, OnPath, TypeOK,
         Searching, CallProgress
<1>4. ASSUME NEW op \in {"kRead", "kWrite"}, NEW a \in Addr,
             NEW v \in Arguments(op), NEW p \in Leaves, Access(op, a, v, p)
      PROVE  OldPath'
  BY <1>4
     DEF Access, BeginAccess, server_vars, fill_vars, IInv, OldPath, OnPath,
         TypeOK, Searching, CallProgress
<1>5. ASSUME NEW op \in {"kRead", "kWrite"}, NEW a \in Addr,
             NEW v \in Arguments(op), NEW p \in 0..number_of_leafs,
             AccessDirect(op, a, v, p)
      PROVE  OldPath'
  BY <1>5
     DEF AccessDirect, BeginAccess, server_vars, fill_vars, IInv, OldPath, OnPath,
         TypeOK, Searching, CallProgress
<1>6. ASSUME NEW op \in {"kRead", "kWrite"}, NEW a \in Addr,
             NEW v \in Arguments(op), NEW p \in Leaves,
             DummyAccess(op, a, v, p)
      PROVE  OldPath'
  BY <1>6
     DEF DummyAccess, BeginAccess, server_vars, fill_vars, IInv, OldPath, OnPath,
         TypeOK, Searching, CallProgress
<1>7. ASSUME NEW outcome \in Outcomes, AccurateWriteBucket(outcome)
      PROVE  OldPath'
  BY <1>7
     DEF AccurateWriteBucket, Appended, IInv, OldPath, OnPath, TypeOK, Searching,
         CallProgress
<1>8. ASSUME ReadOutOfRange PROVE OldPath'
  BY <1>8
     DEF ReadOutOfRange, Return, server_vars, fill_vars, IInv, OldPath, OnPath,
         TypeOK, Searching, CallProgress
<1>9. ASSUME ReadBucket PROVE OldPath'
  <2>1. /\ level \in Levels /\ pc = "read"
        /\ \A t \in Tags : /\ t = Tag(x, level) => storage'[t] = {}
                           /\ t # Tag(x, level) => storage'[t] = storage[t]
        /\ \A l \in 0..level : storage'[Tag(x, l)] = {}
    BY <1>9, ReadEffect DEF ReadBucket, Cleared
  <2>2. /\ call' = call /\ displaced' = displaced /\ position_map' = position_map
        /\ pc' # "idle" => x' = x
    BY <1>9 DEF ReadBucket, Cleared, Return
  <2>3. CASE pc' = "merge"
    <3>1. level = tree_level /\ ~call.dummy
      BY <1>9, <2>1, <2>3 DEF ReadBucket, Cleared, Return
    <3>2. \A t \in Tags : t[1] \in 0..level
      BY <2>1, <3>1 DEF Tags, Levels
    <3>3. ASSUME NEW t \in Tags, NEW b \in storage'[t], b.id = call.address,
                 ~call.direct, b.id \notin displaced
          PROVE  FALSE
      <4>1. b \in storage[t]
        BY <2>1, <3>3
      <4>2. t = Tag(x, t[1])
        BY <2>1, <3>1, <3>3, <4>1 DEF IInv, OldPath, Searching
      <4> QED
        BY <2>1, <3>2, <3>3, <4>2
    <3> QED
      BY <2>2, <2>3, <3>3 DEF OldPath, Searching
  <2>4. CASE pc' = "read"
    BY <2>1, <2>2, <2>4 DEF IInv, OldPath, Searching
  <2>5. CASE pc' = "idle"
    BY <2>1, <2>2, <2>5 DEF IInv, OldPath, Searching
  <2> QED
    BY <1>9, <2>1, <2>3, <2>4, <2>5 DEF ReadBucket, Cleared, Return
<1>10. ASSUME NEW outcome \in Outcomes, ReadBucketFails(outcome) PROVE OldPath'
  BY <1>10
     DEF ReadBucketFails, Cleared, Return, fill_vars, IInv, OldPath, OnPath,
         TypeOK, Searching, CallProgress
<1>11. ASSUME BlockNotFound PROVE OldPath'
  BY <1>11
     DEF BlockNotFound, Return, server_vars, fill_vars, IInv, OldPath, OnPath,
         TypeOK, Searching, CallProgress
<1>12. ASSUME UpdateBlock PROVE OldPath'
  BY <1>12
     DEF UpdateBlock, server_vars, fill_vars, IInv, OldPath, OnPath, TypeOK,
         Searching, CallProgress
<1>13. ASSUME NEW S \in Subsets, WriteBucket(S) PROVE OldPath'
  BY <1>13
     DEF WriteBucket, Replaced, Return, fill_vars, IInv, OldPath, OnPath, TypeOK,
         Searching, CallProgress
<1>14. ASSUME NEW S \in Subsets, NEW outcome \in Outcomes,
              WriteBucketFails(S, outcome)
       PROVE  OldPath'
  BY <1>14
     DEF WriteBucketFails, Replaced, Return, fill_vars, IInv, OldPath, OnPath,
         TypeOK, Searching, CallProgress
<1>15. ASSUME UNCHANGED vars PROVE OldPath'
  BY <1>15 DEF vars, IInv, OldPath, OnPath, TypeOK, Searching, CallProgress
<1> QED
  BY <1>1, <1>2, <1>3, <1>4, <1>5, <1>6, <1>7, <1>8, <1>9, <1>10,
     <1>11, <1>12, <1>13, <1>14, <1>15
     DEF Next, Call, Step

\* Blocks are only put into, and left in, buckets of their own path.
LEMMA OnPathStep ==
    ASSUME IInv, TypeOK', [Next]_vars PROVE OnPath'
<1>1. ASSUME NEW outcome \in Outcomes, InitOram(outcome) PROVE OnPath'
  BY <1>1 DEF InitOram, fill_vars, IInv, OnPath, TypeOK, Searching, CallProgress
<1>2. ASSUME NEW d \in DataVectors, FillWithData(d) PROVE OnPath'
  BY <1>2
     DEF FillWithData, server_vars, IInv, OnPath, TypeOK, Searching, CallProgress
<1>3. ASSUME NotInitialized PROVE OnPath'
  BY <1>3
     DEF NotInitialized, server_vars, fill_vars, IInv, OnPath, TypeOK, Searching,
         CallProgress
<1>4. ASSUME NEW op \in {"kRead", "kWrite"}, NEW a \in Addr,
             NEW v \in Arguments(op), NEW p \in Leaves, Access(op, a, v, p)
      PROVE  OnPath'
  BY <1>4
     DEF Access, BeginAccess, server_vars, fill_vars, IInv, OnPath, TypeOK,
         Searching, CallProgress
<1>5. ASSUME NEW op \in {"kRead", "kWrite"}, NEW a \in Addr,
             NEW v \in Arguments(op), NEW p \in 0..number_of_leafs,
             AccessDirect(op, a, v, p)
      PROVE  OnPath'
  BY <1>5
     DEF AccessDirect, BeginAccess, server_vars, fill_vars, IInv, OnPath, TypeOK,
         Searching, CallProgress
<1>6. ASSUME NEW op \in {"kRead", "kWrite"}, NEW a \in Addr,
             NEW v \in Arguments(op), NEW p \in Leaves,
             DummyAccess(op, a, v, p)
      PROVE  OnPath'
  BY <1>6
     DEF DummyAccess, BeginAccess, server_vars, fill_vars, IInv, OnPath, TypeOK,
         Searching, CallProgress
<1>7. ASSUME NEW outcome \in Outcomes, AccurateWriteBucket(outcome)
      PROVE  OnPath'
  <2>1. /\ pc = "fill" /\ input \in DataVectors /\ DistinctIds(input)
        /\ <<level, offset>> \in Tags /\ level \in Levels /\ offset \in Nat
        /\ offset < 2^level
    BY <1>7 DEF AccurateWriteBucket, Appended, IInv, FillProgress, TypeOK, Tags
  <2>2. PICK path \in [{b.id : b \in NextEntries} -> Span] :
          position_map' = [a \in Addr |-> IF a \in DOMAIN path THEN path[a]
                                          ELSE position_map[a]]
    BY <1>7 DEF AccurateWriteBucket, Appended
  <2>3. NextEntries \in SUBSET Block
    BY NextEntriesType DEF IInv
  <2>4. ASSUME NEW t \in Tags, NEW b \in storage'[t]
        PROVE  t = Tag(position_map'[b.id], t[1]) \/ b.id \in displaced'
    <3>1. b \in storage[t] \/ (b \in NextEntries /\ t = <<level, offset>>)
      BY <1>7, <2>4 DEF AccurateWriteBucket, Appended, IInv, TypeOK
    <3>2. CASE b \in NextEntries /\ t = <<level, offset>>
      <4>1. position_map'[b.id] \in Span
        BY <2>2, <2>3, <3>2 DEF Block
      <4>2. Tag(position_map'[b.id], level) = <<level, offset>>
        BY <2>1, <4>1, SpanCrossesBucket DEF Span
      <4> QED
        BY <3>2, <4>2
    <3>3. CASE b \in storage[t]
      <4>1. ASSUME NEW c \in NextEntries PROVE b.id # c.id
        <5>1. PICK i \in DOMAIN input : i <= p_data /\ input[i] = b
          BY <2>1, <3>3 DEF IInv, FillProgress
        <5>2. PICK j \in DOMAIN input : p_data < j /\ input[j] # Pad
                                        /\ input[j] = c
          BY <4>1 DEF NextEntries
        <5>3. b # Pad
          BY <3>3 DEF IInv, TypeOK
        <5>4. i # j
          BY <5>1, <5>2 DEF IInv, TypeOK
        <5> QED
          BY <2>1, <5>1, <5>2, <5>3, <5>4 DEF DistinctIds
      <4>2. b.id \in Addr
        BY <3>3 DEF IInv, TypeOK, Block
      <4>3. position_map'[b.id] = position_map[b.id]
        BY <2>2, <4>1, <4>2
      <4> QED
        BY <1>7, <2>1, <3>3, <4>3
           DEF AccurateWriteBucket, Appended, IInv, OnPath, Searching
    <3> QED
      BY <3>1, <3>2, <3>3
  <2> QED
    BY <2>4 DEF OnPath
<1>8. ASSUME ReadOutOfRange PROVE OnPath'
  <2>1. ~Searching(call.address)
    BY <1>8, TreeBounds DEF ReadOutOfRange, IInv, CallProgress, Searching, TypeOK
  <2> QED
    BY <1>8, <2>1 DEF ReadOutOfRange, server_vars, IInv, OnPath, Searching
<1>9. ASSUME ReadBucket PROVE OnPath'
  <2>1. /\ level \in Levels /\ pc = "read"
        /\ \A t \in Tags : /\ t = Tag(x, level) => storage'[t] = {}
                           /\ t # Tag(x, level) => storage'[t] = storage[t]
        /\ \A l \in 0..level : storage'[Tag(x, l)] = {}
    BY <1>9, ReadEffect DEF ReadBucket, Cleared
  <2>2. /\ call' = call /\ displaced' = displaced /\ position_map' = position_map
        /\ pc' # "idle" => x' = x
    BY <1>9 DEF ReadBucket, Cleared, Return
  <2>3. CASE pc' = "merge"
    <3>1. level = tree_level /\ ~call.dummy
      BY <1>9, <2>1, <2>3 DEF ReadBucket, Cleared, Return
    <3>2. \A t \in Tags : t[1] \in 0..level
      BY <2>1, <3>1 DEF Tags, Levels
    <3>3. ASSUME NEW t \in Tags, NEW b \in storage'[t], b.id = call.address,
                 ~call.direct, b.id \notin displaced
          PROVE  FALSE
      <4>1. b \in storage[t]
        BY <2>1, <3>3
      <4>2. t = Tag(x, t[1])
        BY <2>1, <3>1, <3>3, <4>1 DEF IInv, OldPath, Searching
      <4> QED
        BY <2>1, <3>2, <3>3, <4>2
    <3> QED
      BY <2>1, <2>2, <3>1, <3>3 DEF IInv, OnPath, Searching
  <2>4. CASE pc' = "read"
    BY <2>1, <2>2, <2>4 DEF IInv, OnPath, Searching
  <2>5. CASE pc' = "idle"
    <3>1. call.dummy
      BY <1>9, <2>1, <2>5 DEF ReadBucket, Cleared
    <3> QED
      BY <2>1, <2>2, <2>5, <3>1 DEF IInv, OnPath, Searching
  <2> QED
    BY <1>9, <2>1, <2>3, <2>4, <2>5 DEF ReadBucket, Cleared, Return
<1>10. ASSUME NEW outcome \in Outcomes, ReadBucketFails(outcome) PROVE OnPath'
  BY <1>10
     DEF ReadBucketFails, Cleared, Return, fill_vars, IInv, OnPath, TypeOK,
         Searching, CallProgress
<1>11. ASSUME BlockNotFound PROVE OnPath'
  BY <1>11
     DEF BlockNotFound, Return, server_vars, fill_vars, IInv, OnPath, TypeOK,
         Searching, CallProgress
<1>12. ASSUME UpdateBlock PROVE OnPath'
  <2>1. PICK b \in MergedStash :
          position_map' \in {position_map, [position_map EXCEPT ![b.id] = 0]}
    BY <1>12 DEF UpdateBlock
  <2>2. b \in stash \cup bucket_this_path
    BY <2>1, MergeAll DEF IInv
  <2>3. storage' = storage /\ displaced' = displaced /\ pc = "merge"
    BY <1>12 DEF UpdateBlock, server_vars
  <2>4. ASSUME NEW t \in Tags, NEW c \in storage'[t]
        PROVE  position_map'[c.id] = position_map[c.id]
    <3>1. c.id # b.id
      BY <2>2, <2>3, <2>4 DEF IInv, OneCopy
    <3>2. c.id \in Addr /\ position_map \in [Addr -> Leaves]
      BY <2>3, <2>4 DEF IInv, TypeOK, Block
    <3> QED
      BY <2>1, <3>1, <3>2
  <2> QED
    BY <2>3, <2>4 DEF IInv, OnPath, Searching
<1>13. ASSUME NEW S \in Subsets, WriteBucket(S) PROVE OnPath'
  <2>1. storage' = storage \/ storage' = [storage EXCEPT ![Tag(x, level)] = S]
    BY <1>13 DEF WriteBucket, Replaced
  <2>2. position_map' = position_map /\ displaced' = displaced /\ pc = "write"
    BY <1>13 DEF WriteBucket, Replaced
  <2>3. \A b \in S : position_map[b.id] = x
    BY DEF Subsets
  <2>4. Tag(x, level)[1] = level
    BY DEF Tag
  <2>5. ASSUME NEW t \in Tags, NEW b \in storage'[t]
        PROVE  t = Tag(position_map'[b.id], t[1]) \/ b.id \in displaced'
    <3>1. b \in storage[t] \/ (b \in S /\ t = Tag(x, level))
      BY <2>1, <2>5 DEF IInv, TypeOK
    <3>2. CASE b \in storage[t]
      BY <2>2, <3>2 DEF IInv, OnPath, Searching
    <3>3. CASE b \in S /\ t = Tag(x, level)
      BY <2>2, <2>3, <2>4, <3>3
    <3> QED
      BY <3>1, <3>2, <3>3
  <2> QED
    BY <2>5 DEF OnPath
<1>14. ASSUME NEW S \in Subsets, NEW outcome \in Outcomes,
              WriteBucketFails(S, outcome)
       PROVE  OnPath'
  <2>1. storage' = storage \/ storage' = [storage EXCEPT ![Tag(x, level)] = S]
    BY <1>14 DEF WriteBucketFails, Replaced
  <2>2. position_map' = position_map /\ displaced' = displaced /\ pc = "write"
    BY <1>14 DEF WriteBucketFails, Replaced
  <2>3. \A b \in S : position_map[b.id] = x
    BY DEF Subsets
  <2>4. Tag(x, level)[1] = level
    BY DEF Tag
  <2>5. ASSUME NEW t \in Tags, NEW b \in storage'[t]
        PROVE  t = Tag(position_map'[b.id], t[1]) \/ b.id \in displaced'
    <3>1. b \in storage[t] \/ (b \in S /\ t = Tag(x, level))
      BY <2>1, <2>5 DEF IInv, TypeOK
    <3>2. CASE b \in storage[t]
      BY <2>2, <3>2 DEF IInv, OnPath, Searching
    <3>3. CASE b \in S /\ t = Tag(x, level)
      BY <2>2, <2>3, <2>4, <3>3
    <3> QED
      BY <3>1, <3>2, <3>3
  <2> QED
    BY <2>5 DEF OnPath
<1>15. ASSUME UNCHANGED vars PROVE OnPath'
  BY <1>15 DEF vars, IInv, OnPath, TypeOK, Searching, CallProgress
<1> QED
  BY <1>1, <1>2, <1>3, <1>4, <1>5, <1>6, <1>7, <1>8, <1>9, <1>10,
     <1>11, <1>12, <1>13, <1>14, <1>15
     DEF Next, Call, Step

\* When the whole old path has been read and merged and the block is not in
\* the stash, it is nowhere, or displaced.
LEMMA NotFoundStep ==
    ASSUME IInv, TypeOK', [Next]_vars PROVE NotFoundJustified'
<1>1. ASSUME NEW outcome \in Outcomes, InitOram(outcome)
      PROVE  NotFoundJustified'
  BY <1>1
     DEF InitOram, fill_vars, IInv, NotFoundJustified, TypeOK, CallProgress, OldPath
<1>2. ASSUME NEW d \in DataVectors, FillWithData(d) PROVE NotFoundJustified'
  BY <1>2
     DEF FillWithData, server_vars, IInv, NotFoundJustified, TypeOK, CallProgress,
         OldPath
<1>3. ASSUME NotInitialized PROVE NotFoundJustified'
  BY <1>3
     DEF NotInitialized, server_vars, fill_vars, IInv, NotFoundJustified, TypeOK,
         CallProgress, OldPath
<1>4. ASSUME NEW op \in {"kRead", "kWrite"}, NEW a \in Addr,
             NEW v \in Arguments(op), NEW p \in Leaves, Access(op, a, v, p)
      PROVE  NotFoundJustified'
  BY <1>4
     DEF Access, BeginAccess, server_vars, fill_vars, IInv, NotFoundJustified,
         TypeOK, CallProgress, OldPath
<1>5. ASSUME NEW op \in {"kRead", "kWrite"}, NEW a \in Addr,
             NEW v \in Arguments(op), NEW p \in 0..number_of_leafs,
             AccessDirect(op, a, v, p)
      PROVE  NotFoundJustified'
  BY <1>5
     DEF AccessDirect, BeginAccess, server_vars, fill_vars, IInv,
         NotFoundJustified, TypeOK, CallProgress, OldPath
<1>6. ASSUME NEW op \in {"kRead", "kWrite"}, NEW a \in Addr,
             NEW v \in Arguments(op), NEW p \in Leaves,
             DummyAccess(op, a, v, p)
      PROVE  NotFoundJustified'
  BY <1>6
     DEF DummyAccess, BeginAccess, server_vars, fill_vars, IInv,
         NotFoundJustified, TypeOK, CallProgress, OldPath
<1>7. ASSUME NEW outcome \in Outcomes, AccurateWriteBucket(outcome)
      PROVE  NotFoundJustified'
  BY <1>7
     DEF AccurateWriteBucket, Appended, IInv, NotFoundJustified, TypeOK,
         CallProgress, OldPath
<1>8. ASSUME ReadOutOfRange PROVE NotFoundJustified'
  BY <1>8
     DEF ReadOutOfRange, Return, server_vars, fill_vars, IInv, NotFoundJustified,
         TypeOK, CallProgress, OldPath
<1>9. ASSUME ReadBucket PROVE NotFoundJustified'
  BY <1>9
     DEF ReadBucket, Cleared, Return, fill_vars, IInv, NotFoundJustified, TypeOK,
         CallProgress, OldPath
<1>10. ASSUME NEW outcome \in Outcomes, ReadBucketFails(outcome)
       PROVE  NotFoundJustified'
  BY <1>10
     DEF ReadBucketFails, Cleared, Return, fill_vars, IInv, NotFoundJustified,
         TypeOK, CallProgress, OldPath
<1>11. ASSUME BlockNotFound PROVE NotFoundJustified'
  <2>1. /\ pc = "merge" /\ call.address \notin Ids(MergedStash)
        /\ stash' = MergedStash /\ bucket_this_path' = {}
        /\ storage' = storage /\ call' = call /\ displaced' = displaced
    BY <1>11 DEF BlockNotFound, Return, server_vars
  <2>2. ASSUME ~call.direct, call.address \notin displaced
        PROVE  \A t \in Tags : \A b \in storage[t] : b.id # call.address
    BY <2>1, <2>2 DEF IInv, OldPath
  <2> QED
    BY <2>1, <2>2 DEF NotFoundJustified, Held, InTree, Ids
<1>12. ASSUME UpdateBlock PROVE NotFoundJustified'
  BY <1>12
     DEF UpdateBlock, server_vars, fill_vars, IInv, NotFoundJustified, TypeOK,
         CallProgress, OldPath
<1>13. ASSUME NEW S \in Subsets, WriteBucket(S) PROVE NotFoundJustified'
  BY <1>13
     DEF WriteBucket, Replaced, Return, fill_vars, IInv, NotFoundJustified,
         TypeOK, CallProgress, OldPath
<1>14. ASSUME NEW S \in Subsets, NEW outcome \in Outcomes,
              WriteBucketFails(S, outcome)
       PROVE  NotFoundJustified'
  BY <1>14
     DEF WriteBucketFails, Replaced, Return, fill_vars, IInv, NotFoundJustified,
         TypeOK, CallProgress, OldPath
<1>15. ASSUME UNCHANGED vars PROVE NotFoundJustified'
  BY <1>15 DEF vars, IInv, NotFoundJustified, Held, InTree, Ids
<1> QED
  BY <1>1, <1>2, <1>3, <1>4, <1>5, <1>6, <1>7, <1>8, <1>9, <1>10,
     <1>11, <1>12, <1>13, <1>14, <1>15
     DEF Next, Call, Step

LEMMA InitIInv ==
    ASSUME Init PROVE IInv
<1>1. TypeOK
  BY InitTyping
<1>2. /\ pc = "idle" /\ stash = {} /\ bucket_this_path = {} /\ status = "none"
      /\ is_initialized = FALSE /\ \A t \in Tags : storage[t] = {}
  BY DEF Init
<1>3. OneCopy /\ OnPath /\ OldPath
  BY <1>2 DEF OneCopy, OnPath, OldPath
<1>4. WritesEmptyBuckets /\ NotFoundJustified /\ FillProgress /\ CallProgress
  BY <1>2 DEF WritesEmptyBuckets, NotFoundJustified, FillProgress, CallProgress
<1> QED
  BY <1>1, <1>3, <1>4 DEF IInv

LEMMA StepIInv ==
    ASSUME IInv, [Next]_vars PROVE IInv'
<1>1. TypeOK'
  BY StepTyping DEF IInv
<1> QED
  BY <1>1, CallProgressStep, FillProgressStep, OneCopyStep,
     WritesEmptyBucketsStep, OldPathStep, OnPathStep, NotFoundStep DEF IInv

\* The conjunction of the parts is an invariant of every behaviour.
THEOREM Invariance == Spec => []IInv
<1>1. Init => IInv
  BY InitIInv
<1>2. IInv /\ [Next]_vars => IInv'
  BY StepIInv
<1> QED
  BY <1>1, <1>2, PTL DEF Spec

-------------------------------------------------------------------------------
(* What follows from it. *)

\* Whatever RPC fails, and whatever the eviction takes, an id is never in two
\* places of the stash, the path buffer and the tree.
THEOREM OneCopySafe == Spec => []OneCopy
<1>1. IInv => OneCopy
  BY DEF IInv
<1> QED
  BY <1>1, Invariance, PTL

\* Every block of the tree is on the path of its position map entry, on the
\* old path of the access that is looking for it, or displaced by an access of
\* its own that failed.
THEOREM OnPathSafe == Spec => []OnPath
<1>1. IInv => OnPath
  BY DEF IInv
<1> QED
  BY <1>1, Invariance, PTL

\* The write loop never overwrites a block: the buckets it is about to write
\* have been emptied by the read loop of the same access.
THEOREM WritesEmptyBucketsSafe == Spec => []WritesEmptyBuckets
<1>1. IInv => WritesEmptyBuckets
  BY DEF IInv
<1> QED
  BY <1>1, Invariance, PTL

\* Access reports kObjectNotFound only for a block that is nowhere, or that an
\* earlier failed access of the same address displaced.
THEOREM NotFoundSafe == Spec => []NotFoundJustified
<1>1. IInv => NotFoundJustified
  BY DEF IInv
<1> QED
  BY <1>1, Invariance, PTL

-------------------------------------------------------------------------------
(***************************************************************************)
(* PathOram implements BlockStore: the sequence of RPCs an access makes    *)
(* looks to its caller like one access to a memory of blocks.  And what a  *)
(* step may lose: nothing as long as no RPC fails, and blocks of the path  *)
(* of the access in progress otherwise.                                    *)
(***************************************************************************)
USE ConstantsAssumption

-------------------------------------------------------------------------------
(* The contents of the memory. *)

\* The union of the buckets, spelled out.
LEMMA HeldMember ==
    ASSUME NEW b
    PROVE  b \in Held <=> \/ b \in stash
                          \/ b \in bucket_this_path
                          \/ \E t \in Tags : b \in storage[t]
BY DEF Held, InTree

\* Two copies of an id are one.
LEMMA HeldUnique ==
    ASSUME OneCopy, NEW b \in Held, NEW c \in Held, b.id = c.id
    PROVE  b = c
BY HeldMember DEF OneCopy

LEMMA HeldType ==
    ASSUME TypeOK PROVE Held \in SUBSET Block
BY HeldMember DEF TypeOK

\* Looking up an id that one block has gives that block's contents.
LEMMA LookupOne ==
    ASSUME NEW H, NEW b \in H, \A c \in H : c.id = b.id => c = b
    PROVE  Lookup(H, b.id) = b.data
<1> DEFINE c == CHOOSE e \in H : e.id = b.id
<1>1. c \in H /\ c.id = b.id
  OBVIOUS
<1> HIDE DEF c
<1>2. c = b
  BY <1>1
<1>3. b.id \in Ids(H)
  BY DEF Ids
<1> QED
  BY <1>2, <1>3 DEF Lookup, c

\* Looking up an id in a part of a set finds what the set has, or nothing.
LEMMA LookupPart ==
    ASSUME NEW H, NEW G \in SUBSET H, NEW a,
           \A b, c \in H : b.id = c.id => b = c
    PROVE  /\ Lookup(G, a) \in {Lookup(H, a), NoVal}
           /\ a \in Ids(G) => Lookup(G, a) = Lookup(H, a)
<1>1. CASE a \in Ids(G)
  <2>1. PICK b \in G : b.id = a
    BY <1>1 DEF Ids
  <2>2. Lookup(G, b.id) = b.data /\ Lookup(H, b.id) = b.data
    BY LookupOne
  <2> QED
    BY <2>1, <2>2
<1>2. CASE a \notin Ids(G)
  BY <1>2 DEF Lookup
<1> QED
  BY <1>1, <1>2

\* An id that is not in a set of blocks has no contents.
LEMMA LookupType ==
    ASSUME NEW H \in SUBSET Block, NEW a, \A b, c \in H : b.id = c.id => b = c
    PROVE  /\ Lookup(H, a) \in Val \cup {NoVal}
           /\ Lookup(H, a) # NoVal <=> a \in Ids(H)
<1>1. CASE a \in Ids(H)
  <2>1. PICK b \in H : b.id = a
    BY <1>1 DEF Ids
  <2>2. Lookup(H, a) = b.data
    BY <2>1, LookupOne
  <2> QED
    BY <1>1, <2>2 DEF Block
<1>2. CASE a \notin Ids(H)
  BY <1>2 DEF Lookup
<1> QED
  BY <1>1, <1>2

-------------------------------------------------------------------------------
(* What the steps do to the set of blocks. *)

\* A bucket that is read moves to the path buffer, or is dropped at the end.
LEMMA ReadHeld ==
    ASSUME IInv, ReadBucket
    PROVE  /\ Held' \subseteq Held
           /\ pc' # "idle" => Held' = Held
<1>1. /\ x \in Leaves /\ level \in Levels
      /\ storage'[Tag(x, level)] = {}
      /\ \A t \in Tags : t # Tag(x, level) => storage'[t] = storage[t]
  BY ReadEffect
<1>2. Tag(x, level) \in Tags
  BY <1>1, TagInTree
<1>3. /\ stash' = stash
      /\ bucket_this_path' \subseteq bucket_this_path \cup storage[Tag(x, level)]
      /\ pc' # "idle" =>
            bucket_this_path' = bucket_this_path \cup storage[Tag(x, level)]
  BY DEF ReadBucket, Cleared, Return
<1>4. \A b : b \in InTree <=> \E t \in Tags : b \in storage[t]
  BY DEF InTree
<1>5. \A b : b \in InTree' <=> \E t \in Tags : b \in storage'[t]
  BY DEF InTree
<1>6. InTree' \subseteq InTree
      /\ InTree \subseteq InTree' \cup storage[Tag(x, level)]
      /\ storage[Tag(x, level)] \subseteq InTree
  BY <1>1, <1>2, <1>4, <1>5
<1>7. Held' \subseteq Held
  BY <1>3, <1>6 DEF Held
<1>8. ASSUME pc' # "idle" PROVE Held' = Held
  <2>1. bucket_this_path' = bucket_this_path \cup storage[Tag(x, level)]
    BY <1>3, <1>8
  <2> QED
    BY <1>3, <1>6, <2>1 DEF Held
<1> QED
  BY <1>7, <1>8

\* What an eviction takes from the stash it puts into an empty bucket.
LEMMA WriteHeld ==
    ASSUME IInv, NEW S \in Subsets, WriteBucket(S)
    PROVE  Held' = Held
<1>1. /\ pc = "write" /\ stash' = stash \ S
      /\ storage' = [storage EXCEPT ![Tag(x, level)] = S]
  BY DEF WriteBucket, Replaced
<1>2. x \in Leaves /\ level \in Levels /\ storage \in [Tags -> SUBSET Block]
  BY <1>1 DEF IInv, CallProgress, TypeOK
<1>3. Tag(x, level) \in Tags /\ storage[Tag(x, level)] = {}
  BY <1>1, <1>2, TagInTree DEF IInv, WritesEmptyBuckets, Levels
<1>4. bucket_this_path = {} /\ bucket_this_path' = {}
  BY <1>1 DEF IInv, CallProgress, WriteBucket, Replaced, Return
<1>5. S \subseteq stash
  BY DEF Subsets
<1>6. \A b : b \in InTree <=> \E t \in Tags : b \in storage[t]
  BY DEF InTree
<1>7. \A b : b \in InTree' <=> \E t \in Tags : b \in storage'[t]
  BY DEF InTree
<1>8. InTree' = InTree \cup S
  BY <1>1, <1>2, <1>3, <1>6, <1>7
<1> QED
  BY <1>1, <1>4, <1>5, <1>8 DEF Held

\* A failed RPC brings no block into being.
LEMMA FailHeld ==
    ASSUME IInv, NEW outcome \in Outcomes,
           \/ ReadBucketFails(outcome)
           \/ \E S \in Subsets : WriteBucketFails(S, outcome)
    PROVE  Held' \subseteq Held
<1>1. \A b : b \in InTree <=> \E t \in Tags : b \in storage[t]
  BY DEF InTree
<1>2. \A b : b \in InTree' <=> \E t \in Tags : b \in storage'[t]
  BY DEF InTree
<1>3. storage \in [Tags -> SUBSET Block]
  BY DEF IInv, TypeOK
<1>4. CASE ReadBucketFails(outcome)
  <2>1. stash' = stash /\ bucket_this_path' = {}
    BY <1>4 DEF ReadBucketFails, Cleared, Return
  <2>2. storage' = storage \/ storage' = [storage EXCEPT ![Tag(x, level)] = {}]
    BY <1>4 DEF ReadBucketFails, Cleared
  <2>3. InTree' \subseteq InTree
    BY <2>2, <1>1, <1>2, <1>3
  <2> QED
    BY <2>1, <2>3 DEF Held
<1>5. ASSUME NEW S \in Subsets, WriteBucketFails(S, outcome)
      PROVE  Held' \subseteq Held
  <2>1. stash' = stash \ S /\ bucket_this_path' = {} /\ S \subseteq stash
    BY <1>5 DEF WriteBucketFails, Replaced, Return, Subsets
  <2>2. storage' = storage \/ storage' = [storage EXCEPT ![Tag(x, level)] = S]
    BY <1>5 DEF WriteBucketFails, Replaced
  <2>3. InTree' \subseteq InTree \cup S
    BY <2>2, <1>1, <1>2, <1>3
  <2> QED
    BY <2>1, <2>3 DEF Held
<1> QED
  BY <1>4, <1>5

\* The merge moves the path into the stash.
LEMMA MergeHeld ==
    ASSUME IInv PROVE MergedStash \cup InTree = Held
BY MergeAll DEF IInv, Held

-------------------------------------------------------------------------------
(* The refinement. *)

\* Nothing changed for the caller: the blocks are the same.
LEMMA SameMem ==
    ASSUME Held' = Held, is_initialized' = is_initialized
    PROVE  AbstractMem' = AbstractMem
BY DEF AbstractMem

\* Blocks may be gone, none has other contents.
LEMMA LessMem ==
    ASSUME IInv, is_initialized, is_initialized' = is_initialized,
           Held' \subseteq Held
    PROVE  Store!Shrunk(AbstractMem')
<1>1. \A b, c \in Held : b.id = c.id => b = c
  BY HeldUnique DEF IInv
<1>2. Held \in SUBSET Block
  BY HeldType DEF IInv
<1>3. ASSUME NEW a \in Addr
      PROVE  /\ AbstractMem'[a] \in {AbstractMem[a], NoVal}
             /\ AbstractMem'[a] \in Val \cup {NoVal}
  <2>1. AbstractMem[a] = Lookup(Held, a) /\ AbstractMem'[a] = Lookup(Held', a)
    BY DEF AbstractMem
  <2>2. Lookup(Held', a) \in {Lookup(Held, a), NoVal}
    BY <1>1, LookupPart
  <2>3. Lookup(Held, a) \in Val \cup {NoVal}
    BY <1>1, <1>2, LookupType
  <2> QED
    BY <2>1, <2>2, <2>3
<1>4. AbstractMem' \in [Addr -> Val \cup {NoVal}]
  BY <1>3 DEF AbstractMem
<1> QED
  BY <1>3, <1>4 DEF Store!Shrunk, Store!Contents

LEMMA InitRefines ==
    ASSUME Init PROVE Store!Init
<1>1. call \in Calls /\ buffer \in Val \cup {NoVal}
  BY InitTyping DEF TypeOK
<1> QED
  BY <1>1 DEF Init, Store!Init, AbstractMem, AbstractPhase, Calls

\* The step at which the controller has the block in its stash is the one at
\* which the call takes effect.
LEMMA UpdateRefines ==
    ASSUME IInv, IInv', UpdateBlock PROVE Store!Apply
<1>1. /\ pc = "merge" /\ pc' = "write" /\ is_initialized /\ ~call.dummy
      /\ is_initialized' = is_initialized /\ call' = call /\ status' = status
      /\ storage' = storage /\ bucket_this_path' = {}
  BY DEF UpdateBlock, IInv, CallProgress, server_vars
<1>2. AbstractPhase = "pending" /\ AbstractPhase' = "applied"
  BY <1>1 DEF AbstractPhase
<1>3. PICK b \in MergedStash :
        /\ b.id = call.address
        /\ \/ /\ call.op = "kWrite"
              /\ stash' = (MergedStash \ {b}) \cup {[b EXCEPT !.data = buffer]}
              /\ UNCHANGED <<buffer, position_map>>
           \/ /\ call.op = "kRead"
              /\ buffer' = b.data
              /\ stash' = IF Standalone THEN MergedStash ELSE MergedStash \ {b}
              /\ position_map' = IF Standalone THEN position_map
                                 ELSE [position_map EXCEPT ![b.id] = 0]
  BY DEF UpdateBlock
<1> DEFINE e == [b EXCEPT !.data = buffer]
<1>4. /\ Held = MergedStash \cup InTree
      /\ Held' = stash' \cup InTree
      /\ b \in Held
  BY <1>1, <1>3, MergeHeld DEF Held, InTree
<1>5. /\ Held \in SUBSET Block
      /\ \A c, d \in Held : c.id = d.id => c = d
  BY HeldType, HeldUnique DEF IInv
<1>6. b \notin InTree
  <2>1. b \in stash \cup bucket_this_path
    BY <1>3, MergeAll DEF IInv
  <2> QED
    BY <2>1 DEF IInv, OneCopy, InTree
<1>7. \A a \in Addr : AbstractMem[a] = Lookup(Held, a)
                      /\ AbstractMem'[a] = Lookup(Held', a)
  BY <1>1 DEF AbstractMem
<1>8. call.address \in Addr /\ b \in Block
  BY <1>4, <1>5 DEF IInv, TypeOK, Calls
<1>9. AbstractMem[call.address] = b.data /\ b.data # NoVal
  <2>1. Lookup(Held, b.id) = b.data
    BY <1>4, <1>5, LookupOne
  <2> QED
    BY <1>3, <1>7, <1>8, <2>1 DEF Block
<1>10. ASSUME NEW a \in Addr, a # call.address, Held' \ {e} \subseteq Held,
              Held \ {b} \subseteq Held', e.id = b.id
       PROVE  AbstractMem'[a] = AbstractMem[a]
  <2>1. CASE a \in Ids(Held)
    <3>1. PICK c \in Held : c.id = a
      BY <2>1 DEF Ids
    <3>2. c \in Held' /\ c # b
      BY <1>3, <1>10, <3>1
    <3>3. \A d \in Held' : d.id = c.id => d = c
      BY <1>3, <1>5, <1>10, <3>1, <3>2
    <3> QED
      BY <1>5, <1>7, <3>1, <3>2, <3>3, LookupOne
  <2>2. CASE a \notin Ids(Held)
    <3>1. a \notin Ids(Held')
      BY <1>3, <1>10, <2>2 DEF Ids
    <3> QED
      BY <1>7, <2>2, <3>1 DEF Lookup
  <2> QED
    BY <2>1, <2>2
<1>11. e.id = b.id
  BY <1>8 DEF Block
<1>12. DOMAIN AbstractMem = Addr /\ DOMAIN AbstractMem' = Addr
       /\ AbstractMem = [a \in Addr |-> AbstractMem[a]]
       /\ AbstractMem' = [a \in Addr |-> AbstractMem'[a]]
  BY DEF AbstractMem
<1>13. CASE call.op = "kWrite"
  <2>1. Held' = (Held \ {b}) \cup {e} /\ buffer' = buffer
    BY <1>3, <1>4, <1>6, <1>13
  <2>2. e.data = buffer
    BY <1>8 DEF Block
  <2>3. \A c \in Held' : c.id = e.id => c = e
    BY <1>4, <1>5, <1>11, <2>1
  <2>4. AbstractMem'[call.address] = buffer
    <3>1. Lookup(Held', e.id) = e.data
      BY <2>1, <2>3, LookupOne
    <3> QED
      BY <1>3, <1>7, <1>8, <1>11, <2>2, <3>1
  <2>5. \A a \in Addr : a # call.address => AbstractMem'[a] = AbstractMem[a]
    BY <1>10, <1>11, <2>1
  <2>6. AbstractMem' = [AbstractMem EXCEPT ![call.address] = buffer]
    BY <1>12, <2>4, <2>5
  <2> QED
    BY <1>1, <1>2, <1>9, <1>13, <2>1, <2>6 DEF Store!Apply, Store!Effect
<1>14. CASE call.op = "kRead" /\ Standalone
  <2>1. Held' = Held
    BY <1>3, <1>4, <1>14
  <2>2. AbstractMem' = AbstractMem
    BY <1>1, <2>1, SameMem
  <2> QED
    BY <1>1, <1>2, <1>3, <1>9, <1>14, <2>2 DEF Store!Apply, Store!Effect
<1>15. CASE call.op = "kRead" /\ ~Standalone
  <2>1. Held' = Held \ {b}
    BY <1>3, <1>4, <1>6, <1>15
  <2>2. call.address \notin Ids(Held')
    BY <1>3, <1>4, <1>5, <2>1 DEF Ids
  <2>3. AbstractMem'[call.address] = NoVal
    BY <1>7, <1>8, <2>2 DEF Lookup
  <2>4. \A a \in Addr : a # call.address => AbstractMem'[a] = AbstractMem[a]
    BY <1>10, <1>11, <2>1
  <2>5. AbstractMem' = [AbstractMem EXCEPT ![call.address] = NoVal]
    BY <1>12, <2>3, <2>4
  <2> QED
    BY <1>1, <1>2, <1>3, <1>9, <1>15, <2>5 DEF Store!Apply, Store!Effect
<1> QED
  BY <1>13, <1>14, <1>15 DEF IInv, TypeOK, Calls

\* The last bucket of the fill loop loads the memory, a failed one stops the
\* process, and the others are not seen.
LEMMA FillRefines ==
    ASSUME IInv, IInv', NEW outcome \in Outcomes, AccurateWriteBucket(outcome)
    PROVE  [Store!Next]_Store!vars
<1>1. pc = "fill" /\ ~is_initialized /\ call' = call /\ buffer' = buffer
  BY DEF AccurateWriteBucket, Appended, IInv, FillProgress
<1>2. AbstractPhase = "unloaded"
  BY <1>1 DEF AbstractPhase
<1>3. \/ pc' = "fill" /\ ~is_initialized' /\ status' = status
      \/ pc' = "idle" /\ is_initialized' /\ status' = "kOK"
      \/ pc' = "aborted" /\ ~is_initialized' /\ status' = status
  BY <1>1 DEF AccurateWriteBucket, Appended, IInv, TypeOK
<1>4. CASE pc' = "fill" /\ ~is_initialized' /\ status' = status
  <2>1. AbstractPhase' = "unloaded" /\ AbstractMem' = AbstractMem
    BY <1>1, <1>4 DEF AbstractPhase, AbstractMem
  <2> QED
    BY <1>1, <1>2, <1>4, <2>1 DEF Store!vars
<1>5. CASE pc' = "idle" /\ is_initialized' /\ status' = "kOK"
  <2>1. AbstractPhase' = "idle"
    BY <1>5 DEF AbstractPhase
  <2>2. Held' \in SUBSET Block /\ \A b, c \in Held' : b.id = c.id => b = c
    <3>1. TypeOK' /\ OneCopy'
      BY DEF IInv
    <3>2. \A b : b \in Held' <=> \/ b \in stash'
                                 \/ b \in bucket_this_path'
                                 \/ \E t \in Tags : b \in storage'[t]
      BY DEF Held, InTree
    <3>3. Held' \in SUBSET Block
      BY <3>1, <3>2 DEF TypeOK
    <3>4. \A b, c \in Held' : b.id = c.id => b = c
      BY <3>1, <3>2 DEF OneCopy
    <3> QED
      BY <3>3, <3>4
  <2>3. \A a \in Addr : Lookup(Held', a) \in Val \cup {NoVal}
    BY <2>2, LookupType
  <2>4. AbstractMem' \in Store!Contents
    BY <1>5, <2>3 DEF AbstractMem, Store!Contents
  <2>5. Store!Load
    BY <1>1, <1>2, <1>5, <2>1, <2>4 DEF Store!Load
  <2> QED
    BY <2>5 DEF Store!Next
<1>6. CASE pc' = "aborted" /\ ~is_initialized' /\ status' = status
  <2>1. AbstractPhase' = "halted" /\ AbstractMem' = AbstractMem
    BY <1>1, <1>6 DEF AbstractPhase, AbstractMem
  <2> QED
    BY <1>1, <1>2, <1>6, <2>1 DEF Store!Next, Store!Halt
<1> QED
  BY <1>3, <1>4, <1>5, <1>6

\* A call begins: the blocks stay where they are.
LEMMA InvokeRefines ==
    ASSUME IInv, NEW op \in {"kRead", "kWrite"}, NEW a \in Addr,
           NEW v \in Arguments(op), NEW dm \in BOOLEAN, NEW dr \in BOOLEAN, NEW p,
           BeginAccess([op |-> op, address |-> a, dummy |-> dm, direct |-> dr],
                       v, p)
    PROVE  Store!Next
<1>1. /\ pc = "idle" /\ is_initialized /\ pc' = "read" /\ is_initialized'
      /\ status' = "none" /\ buffer' = v
      /\ call' = [op |-> op, address |-> a, dummy |-> dm, direct |-> dr]
      /\ stash' = stash /\ bucket_this_path' = bucket_this_path
      /\ storage' = storage
  BY DEF BeginAccess, server_vars
<1>2. AbstractPhase = "idle" /\ AbstractPhase' = "pending"
  BY <1>1 DEF AbstractPhase
<1>3. Held' = Held
  BY <1>1 DEF Held, InTree
<1>4. AbstractMem' = AbstractMem
  BY <1>1, <1>3, SameMem DEF IInv, TypeOK
<1>5. call'.op = op
      /\ call' \in [op : {"kRead", "kWrite"}, address : Addr,
                    dummy : BOOLEAN, direct : BOOLEAN]
  BY <1>1
<1>6. buffer' \in IF call'.op = "kWrite" THEN Val ELSE {NoVal}
  BY <1>1, <1>5 DEF Arguments
<1> QED
  BY <1>1, <1>2, <1>4, <1>5, <1>6 DEF Store!Next, Store!Invoke

LEMMA StepRefines ==
    ASSUME IInv, IInv', [Next]_vars PROVE [Store!Next]_Store!vars
<1>1. ASSUME NEW outcome \in Outcomes, InitOram(outcome)
      PROVE  [Store!Next]_Store!vars
  <2>1. /\ pc = "idle" /\ pc' = pc /\ is_initialized' = is_initialized
        /\ call' = call /\ buffer' = buffer /\ stash' = stash
        /\ bucket_this_path' = bucket_this_path /\ storage' = storage
        /\ status' \in {"kOK", "kServerError"}
        /\ is_initialized => status' = "kServerError"
    BY <1>1 DEF InitOram, IInv, FillProgress
  <2>2. AbstractMem' = AbstractMem
    BY <2>1, SameMem DEF Held, InTree
  <2>3. AbstractPhase' = AbstractPhase
        /\ AbstractPhase = IF is_initialized THEN "idle" ELSE "unloaded"
    BY <2>1 DEF AbstractPhase
  <2>4. CASE is_initialized
    <3>1. Store!SetUpAgain
      BY <2>1, <2>2, <2>3, <2>4 DEF Store!SetUpAgain
    <3> QED
      BY <3>1 DEF Store!Next
  <2>5. CASE ~is_initialized
    BY <2>1, <2>2, <2>3, <2>5 DEF Store!Next, Store!NotLoaded
  <2> QED
    BY <2>4, <2>5
<1>2. ASSUME NEW d \in DataVectors, FillWithData(d)
      PROVE  [Store!Next]_Store!vars
  <2>1. /\ pc = "idle" /\ pc' = "fill" /\ ~is_initialized
        /\ is_initialized' = is_initialized
        /\ call' = call /\ buffer' = buffer /\ status' = "none"
    BY <1>2 DEF FillWithData
  <2>2. AbstractMem' = AbstractMem /\ AbstractPhase = "unloaded"
        /\ AbstractPhase' = AbstractPhase
    BY <2>1 DEF AbstractMem, AbstractPhase
  <2> QED
    BY <2>1, <2>2 DEF Store!Next, Store!NotLoaded
<1>3. ASSUME NotInitialized PROVE [Store!Next]_Store!vars
  <2>1. /\ pc = "idle" /\ pc' = pc /\ ~is_initialized
        /\ is_initialized' = is_initialized
        /\ call' = call /\ buffer' = buffer /\ status' = "kInvalidOperation"
    BY <1>3 DEF NotInitialized
  <2>2. AbstractMem' = AbstractMem /\ AbstractPhase = "unloaded"
        /\ AbstractPhase' = AbstractPhase
    BY <2>1 DEF AbstractMem, AbstractPhase
  <2> QED
    BY <2>1, <2>2 DEF Store!Next, Store!NotLoaded
<1>4. ASSUME NEW op \in {"kRead", "kWrite"}, NEW a \in Addr,
             NEW v \in Arguments(op), NEW p,
             \/ Access(op, a, v, p)
             \/ AccessDirect(op, a, v, p)
             \/ DummyAccess(op, a, v, p)
      PROVE  [Store!Next]_Store!vars
  BY <1>4, InvokeRefines DEF Access, AccessDirect, DummyAccess
<1>5. ASSUME NEW outcome \in Outcomes, AccurateWriteBucket(outcome)
      PROVE  [Store!Next]_Store!vars
  BY <1>5, FillRefines
<1>6. ASSUME ReadOutOfRange PROVE [Store!Next]_Store!vars
  <2>1. /\ pc = "read" /\ pc' = "idle" /\ is_initialized
        /\ is_initialized' = is_initialized
        /\ call' = call /\ buffer' = buffer /\ status' = "kInvalidArgument"
        /\ stash' = stash /\ storage' = storage /\ bucket_this_path' = {}
    BY <1>6 DEF ReadOutOfRange, Return, IInv, CallProgress, server_vars
  <2>2. bucket_this_path = {}
    <3>1. x = number_of_leafs
      BY <1>6, TreeBounds DEF ReadOutOfRange, IInv, TypeOK
    <3> QED
      BY <2>1, <3>1 DEF IInv, CallProgress
  <2>3. AbstractMem' = AbstractMem
    BY <2>1, <2>2, SameMem DEF Held, InTree
  <2>4. AbstractPhase = "pending" /\ AbstractPhase' = "idle"
    BY <2>1 DEF AbstractPhase
  <2> QED
    BY <2>1, <2>3, <2>4 DEF Store!Next, Store!Reject
<1>7. ASSUME ReadBucket PROVE [Store!Next]_Store!vars
  <2>1. /\ pc = "read" /\ is_initialized /\ is_initialized' = is_initialized
        /\ call' = call /\ buffer' = buffer
        /\ AbstractPhase = "pending"
    BY <1>7 DEF ReadBucket, Cleared, IInv, CallProgress, AbstractPhase
  <2>2. CASE pc' # "idle"
    <3>1. pc' \in {"read", "merge"} /\ status' = status
      BY <1>7, <2>1, <2>2 DEF ReadBucket, Cleared, Return
    <3>2. AbstractPhase' = "pending"
      BY <3>1 DEF AbstractPhase
    <3>3. AbstractMem' = AbstractMem
      BY <1>7, <2>1, <2>2, ReadHeld, SameMem
    <3> QED
      BY <2>1, <3>1, <3>2, <3>3 DEF Store!vars
  <2>3. CASE pc' = "idle"
    <3>1. call.dummy /\ status' = "kOK"
      BY <1>7, <2>1, <2>3 DEF ReadBucket, Cleared, Return
    <3>2. AbstractPhase' = "idle"
      BY <2>1, <2>3 DEF AbstractPhase
    <3>3. Store!Shrunk(AbstractMem')
      BY <1>7, <2>1, ReadHeld, LessMem
    <3> QED
      BY <2>1, <3>1, <3>2, <3>3 DEF Store!Next, Store!ReturnDummy
  <2> QED
    BY <2>2, <2>3
<1>8. ASSUME NEW outcome \in Outcomes,
             \/ ReadBucketFails(outcome)
             \/ \E S \in Subsets : WriteBucketFails(S, outcome)
      PROVE  [Store!Next]_Store!vars
  <2>1. /\ pc \in {"read", "write"} /\ is_initialized /\ pc' = "idle"
        /\ is_initialized' = is_initialized
        /\ call' = call /\ buffer' = buffer /\ status' = "kServerError"
    BY <1>8
       DEF ReadBucketFails, Cleared, WriteBucketFails, Replaced, Return, IInv,
           CallProgress
  <2>2. AbstractPhase \in {"pending", "applied"} /\ AbstractPhase' = "idle"
    BY <2>1 DEF AbstractPhase
  <2>3. Store!Shrunk(AbstractMem')
    BY <1>8, <2>1, FailHeld, LessMem
  <2> QED
    BY <2>1, <2>2, <2>3 DEF Store!Next, Store!Fail
<1>9. ASSUME BlockNotFound PROVE [Store!Next]_Store!vars
  <2>1. /\ pc = "merge" /\ is_initialized /\ pc' = "idle"
        /\ is_initialized' = is_initialized
        /\ call' = call /\ buffer' = buffer /\ status' = "kObjectNotFound"
        /\ stash' = MergedStash /\ bucket_this_path' = {} /\ storage' = storage
    BY <1>9 DEF BlockNotFound, Return, IInv, CallProgress, server_vars
  <2>2. Held' = Held
    BY <2>1, MergeHeld DEF Held, InTree
  <2>3. AbstractMem' = AbstractMem
    BY <2>1, <2>2, SameMem
  <2>4. AbstractPhase = "pending" /\ AbstractPhase' = "idle"
    BY <2>1 DEF AbstractPhase
  <2> QED
    BY <2>1, <2>3, <2>4 DEF Store!Next, Store!Reject
<1>10. ASSUME UpdateBlock PROVE [Store!Next]_Store!vars
  BY <1>10, UpdateRefines DEF Store!Next
<1>11. ASSUME NEW S \in Subsets, WriteBucket(S) PROVE [Store!Next]_Store!vars
  <2>1. /\ pc = "write" /\ is_initialized /\ is_initialized' = is_initialized
        /\ call' = call /\ buffer' = buffer
    BY <1>11 DEF WriteBucket, Replaced, IInv, CallProgress
  <2>2. AbstractMem' = AbstractMem
    BY <1>11, <2>1, WriteHeld, SameMem
  <2>3. \/ pc' = pc /\ status' = status
        \/ pc' = "idle" /\ status' = "kOK"
    BY <1>11 DEF WriteBucket, Replaced, Return
  <2>4. AbstractPhase = "applied"
        /\ AbstractPhase' = IF pc' = pc THEN "applied" ELSE "idle"
    BY <2>1, <2>3 DEF AbstractPhase
  <2> QED
    BY <2>1, <2>2, <2>3, <2>4 DEF Store!Next, Store!Return, Store!vars
<1>12. ASSUME UNCHANGED vars PROVE [Store!Next]_Store!vars
  <2>1. Held' = Held /\ is_initialized' = is_initialized /\ pc' = pc
        /\ call' = call /\ buffer' = buffer /\ status' = status
    BY <1>12 DEF vars, Held, InTree
  <2>2. AbstractMem' = AbstractMem /\ AbstractPhase' = AbstractPhase
    BY <2>1, SameMem DEF AbstractPhase
  <2> QED
    BY <2>1, <2>2 DEF Store!vars
<1> QED
  BY <1>1, <1>2, <1>3, <1>4, <1>5, <1>6, <1>7, <1>8, <1>9, <1>10, <1>11, <1>12
     DEF Next, Call, Step

\* Every behaviour of the controller and its server is, to the caller, one of
\* the abstract memory: kOK means the call had its effect, once, on the latest
\* contents, and blocks only disappear with an answer kServerError or a dummy
\* access.
THEOREM Refinement == Spec => ImplementsStore
<1>1. Init => Store!Init
  BY InitRefines
<1>2. IInv /\ IInv' /\ [Next]_vars => [Store!Next]_Store!vars
  BY StepRefines
<1> QED
  BY <1>1, <1>2, Invariance, PTL DEF Spec, ImplementsStore, Store!Spec

-------------------------------------------------------------------------------
(* Blocks that are lost, and blocks that are not. *)

\* What a step may do to the set of blocks: it keeps every id; or it drops blocks of
\* the path, after a failed RPC or in a dummy access; or it hands one out.
LEMMA HeldStep ==
    ASSUME IInv, [Next]_vars
    PROVE  \/ Ids(Held) \subseteq Ids(Held')
           \/ /\ pc = "read" /\ (call.dummy \/ faults' = faults + 1)
              /\ \A b \in Held : b \in Held' \/ b \in bucket_this_path \cup storage[Tag(x, level)]
           \/ /\ pc = "write" /\ faults' = faults + 1
              /\ \A b \in Held : b \in Held' \/ (b \in stash /\ position_map[b.id] = x)
           \/ /\ pc = "merge" /\ ~Standalone
              /\ \A b \in Held : b \in Held' \/ b.id = call.address
<1>1. \A b : b \in Held' <=> \/ b \in stash'
                             \/ b \in bucket_this_path'
                             \/ \E t \in Tags : b \in storage'[t]
  BY DEF Held, InTree
<1>2. ASSUME Held \subseteq Held' PROVE Ids(Held) \subseteq Ids(Held')
  BY <1>2 DEF Ids
<1>3. storage \in [Tags -> SUBSET Block]
  BY DEF IInv, TypeOK
<1>4. CASE UNCHANGED <<stash, bucket_this_path, storage>>
  BY <1>1, <1>2, <1>4, HeldMember
<1>5. ASSUME NEW outcome \in Outcomes, AccurateWriteBucket(outcome)
      PROVE  Held \subseteq Held'
  <2>1. /\ UNCHANGED <<stash, bucket_this_path>>
        /\ \A t \in Tags : storage[t] \subseteq storage'[t]
    BY <1>3, <1>5 DEF AccurateWriteBucket, Appended
  <2> QED
    BY <1>1, <2>1, HeldMember
<1>6. ASSUME ReadOutOfRange PROVE UNCHANGED <<stash, bucket_this_path, storage>>
  <2>1. x = number_of_leafs
    BY <1>6, TreeBounds DEF ReadOutOfRange, IInv, TypeOK
  <2> QED
    BY <1>6, <2>1 DEF ReadOutOfRange, Return, IInv, CallProgress, server_vars
<1>7. ASSUME ReadBucket
      PROVE  \/ Held \subseteq Held'
             \/ /\ pc = "read" /\ call.dummy
                /\ \A b \in Held : b \in Held' \/ b \in bucket_this_path \cup storage[Tag(x, level)]
  <2>1. CASE pc' # "idle"
    BY <1>7, <2>1, ReadHeld
  <2>2. CASE pc' = "idle"
    <3>1. pc = "read" /\ call.dummy /\ stash' = stash
      BY <1>7, <2>2 DEF ReadBucket, Return
    <3>2. \A t \in Tags : t # Tag(x, level) => storage'[t] = storage[t]
      BY <1>7, ReadEffect
    <3> QED
      BY <1>1, <3>1, <3>2, HeldMember
  <2> QED
    BY <2>1, <2>2
<1>8. ASSUME NEW outcome \in Outcomes, ReadBucketFails(outcome)
      PROVE  /\ pc = "read" /\ faults' = faults + 1
             /\ \A b \in Held : b \in Held' \/ b \in bucket_this_path \cup storage[Tag(x, level)]
  <2>1. /\ pc = "read" /\ faults' = faults + 1 /\ stash' = stash
        /\ storage' = storage \/ storage' = [storage EXCEPT ![Tag(x, level)] = {}]
    BY <1>8 DEF ReadBucketFails, Cleared, Rpc, Return
  <2> QED
    BY <1>1, <1>3, <2>1, HeldMember
<1>9. ASSUME BlockNotFound PROVE Held' = Held
  <2>1. stash' = MergedStash /\ bucket_this_path' = {} /\ storage' = storage
    BY <1>9 DEF BlockNotFound, Return, server_vars
  <2> QED
    BY <2>1, MergeHeld DEF Held, InTree
<1>10. ASSUME UpdateBlock
       PROVE  \/ Ids(Held) \subseteq Ids(Held')
              \/ /\ pc = "merge" /\ ~Standalone
                 /\ \A b \in Held : b \in Held' \/ b.id = call.address
  <2>1. PICK b \in MergedStash :
          /\ b.id = call.address
          /\ \/ /\ call.op = "kWrite"
                /\ stash' = (MergedStash \ {b}) \cup {[b EXCEPT !.data = buffer]}
             \/ stash' = IF Standalone THEN MergedStash ELSE MergedStash \ {b}
    BY <1>10 DEF UpdateBlock
  <2>2. pc = "merge" /\ bucket_this_path' = {} /\ storage' = storage
    BY <1>10 DEF UpdateBlock, server_vars
  <2>3. \A c : c \in Held <=> c \in MergedStash \/ \E t \in Tags : c \in storage[t]
    BY MergeHeld DEF InTree
  <2>4. CASE stash' = IF Standalone THEN MergedStash ELSE MergedStash \ {b}
    <3>1. CASE Standalone
      BY <1>1, <1>2, <2>2, <2>3, <2>4, <3>1
    <3>2. CASE ~Standalone
      BY <1>1, <2>1, <2>2, <2>3, <2>4, <3>2
    <3> QED
      BY <3>1, <3>2
  <2>5. CASE stash' = (MergedStash \ {b}) \cup {[b EXCEPT !.data = buffer]}
    <3> DEFINE e == [b EXCEPT !.data = buffer]
    <3>1. b \in Block
      BY <2>1, StashType DEF IInv
    <3>2. e.id = b.id
      BY <3>1 DEF Block
    <3>3. e \in Held' /\ \A c \in Held : c = b \/ c \in Held'
      BY <1>1, <2>2, <2>3, <2>5
    <3> HIDE DEF e
    <3> QED
      BY <3>2, <3>3 DEF Ids
  <2> QED
    BY <2>1, <2>4, <2>5
<1>11. ASSUME NEW S \in Subsets, WriteBucket(S) PROVE Held' = Held
  BY <1>11, WriteHeld
<1>12. ASSUME NEW S \in Subsets, NEW outcome \in Outcomes, WriteBucketFails(S, outcome)
       PROVE  /\ pc = "write" /\ faults' = faults + 1
              /\ \A b \in Held : b \in Held' \/ (b \in stash /\ position_map[b.id] = x)
  <2>1. /\ pc = "write" /\ faults' = faults + 1 /\ stash' = stash \ S
        /\ storage' = storage \/ storage' = [storage EXCEPT ![Tag(x, level)] = S]
    BY <1>12 DEF WriteBucketFails, Replaced, Rpc, Return
  <2>2. bucket_this_path = {} /\ x \in Leaves /\ level \in Levels
    BY <2>1 DEF IInv, CallProgress, TypeOK
  <2>3. storage[Tag(x, level)] = {}
    BY <2>1, <2>2 DEF IInv, WritesEmptyBuckets, Levels
  <2>4. \A b \in S : b \in stash /\ position_map[b.id] = x
    BY DEF Subsets
  <2> QED
    BY <1>1, <1>3, <2>1, <2>2, <2>3, <2>4, HeldMember
<1>13. ASSUME NEW op, NEW a, NEW v, NEW p,
              \/ Access(op, a, v, p) \/ AccessDirect(op, a, v, p) \/ DummyAccess(op, a, v, p)
       PROVE  UNCHANGED <<stash, bucket_this_path, storage>>
  BY <1>13 DEF Access, AccessDirect, DummyAccess, BeginAccess, server_vars
<1>14. ASSUME \/ \E outcome \in Outcomes : InitOram(outcome)
              \/ \E d \in DataVectors : FillWithData(d)
              \/ NotInitialized
              \/ UNCHANGED vars
       PROVE  UNCHANGED <<stash, bucket_this_path, storage>>
  BY <1>14 DEF InitOram, FillWithData, NotInitialized, vars, server_vars
<1> QED
  BY <1>2, <1>4, <1>5, <1>6, <1>7, <1>8, <1>9, <1>10, <1>11, <1>12, <1>13, <1>14
  DEF Next, Call, Step

\* When a block is lost, it was on the path of the access in progress.
THEOREM LossIsLocalSafe == Spec => LossIsLocal
<1> DEFINE Local ==
      \A b \in Held : b.id \notin Ids(Held)' =>
          \/ pc = "read" /\ b \in bucket_this_path \cup storage[Tag(x, level)]
          \/ pc = "write" /\ b \in stash /\ position_map[b.id] = x
          \/ pc = "merge" /\ ~Standalone /\ b.id = call.address
<1>1. IInv /\ [Next]_vars => Local
  <2> SUFFICES ASSUME IInv, [Next]_vars, NEW b \in Held, b.id \notin Ids(Held')
               PROVE  \/ pc = "read" /\ b \in bucket_this_path \cup storage[Tag(x, level)]
                      \/ pc = "write" /\ b \in stash /\ position_map[b.id] = x
                      \/ pc = "merge" /\ ~Standalone /\ b.id = call.address
    BY DEF Ids
  <2>1. b \notin Held' /\ b.id \in Ids(Held)
    BY DEF Ids
  <2> QED
    BY <2>1, HeldStep
<1>2. IInv /\ [Next]_vars => [Local]_vars
  BY <1>1
<1> QED
  BY <1>2, Invariance, PTL DEF Spec, LossIsLocal

\* Buckets that the fill loop has written when it is about to write bucket
\* <<level, offset>>, from the leaves to the root.
BucketsDone == 2^(tree_level + 1) - 2^(level + 1) + offset

\* How far the fill loop is in the input, and that what it has passed is in the
\* tree; only a controller of the Partition ORAM makes dummy accesses.
FillKeeps ==
    /\ pc = "fill" =>
          /\ p_data <= Len(input)
          /\ p_data = Len(input) \/ p_data = bucket_size * BucketsDone
          /\ faults = 0 =>
                \A k \in DOMAIN input :
                    k <= p_data /\ input[k] # Pad => input[k].id \in Ids(InTree)
    /\ call.dummy => ~Standalone

\* The loop over the levels is one over the buckets: when it goes from the last
\* bucket of a level to the next level, the count goes on by one.
LEMMA BucketCount ==
    ASSUME TypeOK, pc = "fill"
    PROVE  /\ BucketsDone \in Nat
           /\ level > 0 /\ offset + 1 = 2^level
                 => BucketsDone + 1 = 2^(tree_level + 1) - 2^(level - 1 + 1) + 0
           /\ level = 0 /\ offset + 1 = 2^level
                 => BucketsDone + 1 = 2^(tree_level + 1) - 1
<1>1. level \in 0..tree_level /\ offset \in Nat /\ tree_level \in Nat /\ tree_level \in 0..tree_level
  BY TreeAssumption DEF TypeOK, Levels
<1>2. /\ 2^level \in Nat /\ 2^(level + 1) = 2 * 2^level
      /\ 2^tree_level \in Nat /\ 2^(tree_level + 1) = 2 * 2^tree_level
      /\ 2^0 = 1
  BY <1>1, TreeAssumption
<1>3. 2^level <= 2^tree_level
  BY <1>1, TreeBounds DEF number_of_leafs, Levels
<1>4. level > 0 => level - 1 + 1 = level
  BY <1>1
<1> DEFINE n == 2^level
           m == 2^tree_level
<1>5. /\ n \in Nat /\ m \in Nat /\ n <= m
      /\ BucketsDone = 2 * m - 2 * n + offset
  BY <1>2, <1>3 DEF BucketsDone
<1>6. level = 0 => n = 1
  BY <1>2
<1>7. level > 0 => 2^(level - 1 + 1) = n
  BY <1>4
<1>8. 2^(tree_level + 1) = 2 * m
  BY <1>2
<1> HIDE DEF n, m
<1>9. BucketsDone \in Nat
  BY <1>1, <1>5
<1>10. ASSUME level > 0, offset + 1 = n
       PROVE  BucketsDone + 1 = 2 * m - n + 0
  BY <1>1, <1>5, <1>10
<1>11. ASSUME level = 0, offset + 1 = n
       PROVE  BucketsDone + 1 = 2 * m - 1
  BY <1>1, <1>5, <1>6, <1>11
<1> QED
  BY <1>7, <1>8, <1>9, <1>10, <1>11 DEF n

\* Arithmetic of the count, kept apart from the rest.
LEMMA OneMore ==
    ASSUME NEW m \in Nat, NEW n \in Nat
    PROVE  m * n \in Nat /\ m * (n + 1) = m * n + m /\ m * n = n * m
OBVIOUS

\* One bucket of the fill loop.
LEMMA FillKeepsBucket ==
    ASSUME IInv, FillKeeps, NEW outcome \in Outcomes, AccurateWriteBucket(outcome)
    PROVE  /\ FillKeeps'
           /\ is_initialized' /\ Len(input) <= Capacity => p_data' = Len(input)
           /\ is_initialized' /\ faults' = 0 =>
                 \A k \in DOMAIN input :
                    k <= p_data' /\ input[k] # Pad => input[k].id \in Ids(InTree')
<1>1. /\ pc = "fill" /\ ~is_initialized /\ input' = input /\ call' = call
      /\ p_data' = Min2(p_data + bucket_size, Len(input))
      /\ Rpc(outcome)
  BY DEF AccurateWriteBucket, IInv, FillProgress
<1>2. /\ p_data \in Nat /\ bucket_size \in Nat \ {0} /\ Len(input) \in Nat
      /\ DOMAIN input = 1..Len(input)
      /\ p_data <= Len(input)
      /\ level \in Levels /\ offset \in Nat
      /\ <<level, offset>> \in Tags
  BY <1>1, BucketCount DEF FillKeeps, IInv, TypeOK
<1> DEFINE done == bucket_size * BucketsDone
<1>c. BucketsDone \in Nat
  BY <1>1, BucketCount DEF IInv
<1>d. /\ done \in Nat /\ bucket_size * (BucketsDone + 1) = done + bucket_size
      /\ p_data = Len(input) \/ p_data = done
  BY <1>1, <1>2, <1>c, OneMore DEF FillKeeps
<1> HIDE DEF done
<1>3. /\ p_data' <= Len(input)
      /\ p_data' = Len(input) \/ p_data' = bucket_size * (BucketsDone + 1)
      /\ \A k \in DOMAIN input : k <= p_data' => k <= p_data + bucket_size
  <2> DEFINE n == Len(input)
  <2>1. /\ p_data' = Min2(p_data + bucket_size, n) /\ n \in Nat /\ p_data <= n
        /\ p_data = n \/ p_data = done
    BY <1>1, <1>2, <1>d
  <2>a. p_data \in Nat /\ bucket_size \in Nat \ {0} /\ done \in Nat
    BY <1>2, <1>d
  <2> HIDE DEF n
  <2>2. CASE p_data + bucket_size < n
    <3>1. p_data' = p_data + bucket_size
      BY <2>1, <2>2 DEF Min2
    <3>2. p_data = done
      BY <2>1, <2>2, <2>a
    <3>3. p_data' <= n
      BY <2>1, <2>2, <2>a, <3>1
    <3>4. p_data' = bucket_size * (BucketsDone + 1)
      BY <1>d, <3>1, <3>2, Zenon
    <3>5. \A k \in DOMAIN input : k <= p_data' => k <= p_data + bucket_size
      BY <3>1, Zenon
    <3> QED
      BY <3>3, <3>4, <3>5, Zenon DEF n
  <2>3. CASE ~(p_data + bucket_size < n)
    <3>1. p_data' = n
      BY <2>1, <2>3 DEF Min2
    <3>2. \A k \in 1..n : k <= p_data + bucket_size
      BY <2>1, <2>3, <2>a
    <3>3. p_data' <= n
      BY <2>1, <3>1
    <3>4. DOMAIN input = 1..n
      BY <1>2 DEF n
    <3> QED
      BY <3>1, <3>2, <3>3, <3>4, Zenon DEF n
  <2> QED
    BY <2>2, <2>3
<1>4. ASSUME pc' # "aborted", faults' = 0
      PROVE  \A k \in DOMAIN input :
                k <= p_data' /\ input[k] # Pad => input[k].id \in Ids(InTree')
  <2>1. registered /\ outcome = "answered" /\ faults = 0
    BY <1>1, <1>4 DEF AccurateWriteBucket, Rpc, IInv, TypeOK
  <2>2. storage' = [storage EXCEPT ![<<level, offset>>] = @ \cup NextEntries]
    BY <2>1 DEF AccurateWriteBucket, Appended, Executed
  <2>3. storage \in [Tags -> SUBSET Block]
    BY DEF IInv, TypeOK
  <2>4. \A b : b \in InTree <=> \E t \in Tags : b \in storage[t]
    BY DEF InTree
  <2>5. \A b : b \in InTree' <=> \E t \in Tags : b \in storage'[t]
    BY DEF InTree
  <2>6. InTree \subseteq InTree' /\ NextEntries \subseteq InTree'
    BY <1>2, <2>2, <2>3, <2>4, <2>5
  <2> SUFFICES ASSUME NEW k \in DOMAIN input, k <= p_data', input[k] # Pad
               PROVE  input[k].id \in Ids(InTree')
    OBVIOUS
  <2>7. CASE k <= p_data
    BY <1>1, <2>1, <2>6, <2>7 DEF FillKeeps, Ids
  <2>8. CASE ~(k <= p_data)
    <3>1. p_data < k /\ k <= p_data + bucket_size
      BY <1>2, <1>3, <2>8
    <3>2. input[k] \in NextEntries
      BY <3>1 DEF NextEntries
    <3> QED
      BY <2>6, <3>2 DEF Ids
  <2> QED
    BY <2>7, <2>8
<1>5. FillKeeps'
  <2>1. CASE pc' = "fill"
    <3>1. BucketsDone' = BucketsDone + 1
      <4>1. CASE offset + 1 < 2^level /\ offset' = offset + 1 /\ level' = level
        <5> DEFINE d == 2^(tree_level + 1) - 2^(level + 1)
        <5>1. d \in Int
          <6>1. /\ 2^level \in Nat /\ 2^(level + 1) = 2 * 2^level
                /\ 2^tree_level \in Nat /\ 2^(tree_level + 1) = 2 * 2^tree_level
            BY <1>2, TreeBounds, TreeAssumption DEF Levels
          <6> QED
            BY <6>1
        <5>2. BucketsDone = d + offset /\ BucketsDone' = d + (offset + 1)
          BY <4>1 DEF BucketsDone
        <5> HIDE DEF d
        <5>3. d + (offset + 1) = (d + offset) + 1
          BY <1>2, <5>1
        <5> QED
          BY <5>2, <5>3
      <4>2. CASE offset + 1 = 2^level /\ level > 0 /\ offset' = 0 /\ level' = level - 1
        <5>1. BucketsDone + 1 = 2^(tree_level + 1) - 2^(level - 1 + 1) + 0
          BY <1>1, <4>2, BucketCount DEF IInv
        <5>2. BucketsDone' = 2^(tree_level + 1) - 2^(level - 1 + 1) + 0
          BY <4>2 DEF BucketsDone
        <5> QED
          BY <5>1, <5>2
      <4> QED
        BY <1>1, <2>1, <4>1, <4>2 DEF AccurateWriteBucket
    <3> QED
      BY <1>1, <1>3, <1>4, <2>1, <3>1 DEF FillKeeps
  <2>2. CASE pc' # "fill"
    BY <1>1, <2>2 DEF FillKeeps
  <2> QED
    BY <2>1, <2>2
<1>6. ASSUME is_initialized', Len(input) <= Capacity PROVE p_data' = Len(input)
  <2>1. offset + 1 = 2^level /\ level = 0
    BY <1>1, <1>6 DEF AccurateWriteBucket
  <2>2. BucketsDone + 1 = 2^(tree_level + 1) - 1
    BY <1>1, <2>1, BucketCount DEF IInv
  <2>3. bucket_size * (BucketsDone + 1) = Capacity
    <3> DEFINE n == BucketsDone + 1
    <3>1. n \in Nat /\ Capacity = n * bucket_size
      BY <1>c, <2>2 DEF Capacity
    <3> HIDE DEF n
    <3>2. n * bucket_size = bucket_size * n
      BY <1>2, <3>1, OneMore
    <3> QED
      BY <3>1, <3>2 DEF n
  <2>4. p_data' <= Len(input) /\ (p_data' = Len(input) \/ p_data' = Capacity)
    BY <1>3, <2>3
  <2>5. p_data' \in Nat
    BY <1>1, <1>2 DEF Min2
  <2>6. Capacity \in Nat
    BY <1>2, <1>c, <2>3, OneMore
  <2> QED
    BY <1>2, <1>6, <2>4, <2>5, <2>6
<1>7. is_initialized' => pc' = "idle"
  BY <1>1 DEF AccurateWriteBucket
<1> QED
  BY <1>4, <1>5, <1>6, <1>7

\* The invariant for blocks that are not lost.
LossInv == FillKeeps /\ NoLoss

LEMMA InitLoss ==
    ASSUME Init PROVE LossInv
BY DEF Init, LossInv, FillKeeps, NoLoss

\* A step after the fill keeps every block of the input, as long as no RPC fails.
LEMMA LossStep ==
    ASSUME IInv, LossInv, [Next]_vars PROVE LossInv'
<1> USE DEF LossInv
<1>1. ASSUME NEW outcome \in Outcomes, AccurateWriteBucket(outcome) PROVE LossInv'
  <2>1. FillKeeps' /\ input' = input
    BY <1>1, FillKeepsBucket DEF AccurateWriteBucket
  <2>2. NoLoss'
    <3> SUFFICES ASSUME is_initialized', faults' = 0, Len(input) <= Capacity,
                        NEW a \in InputIds'
                 PROVE  a \in Ids(Held')
      BY <2>1 DEF NoLoss, Ids
    <3>1. PICK k \in DOMAIN input : input[k] # Pad /\ a = input[k].id
      BY <2>1 DEF InputIds
    <3>2. k <= p_data'
      BY <1>1, FillKeepsBucket DEF IInv, TypeOK
    <3>3. a \in Ids(InTree')
      BY <1>1, <3>1, <3>2, FillKeepsBucket
    <3> QED
      BY <3>3 DEF Ids, Held
  <2> QED
    BY <2>1, <2>2
<1>2. ASSUME NEW d \in DataVectors, FillWithData(d) PROVE LossInv'
  <2>1. /\ ~is_initialized' /\ pc' = "fill" /\ p_data' = 0 /\ input' = d
        /\ level' = tree_level /\ offset' = 0 /\ call' = call
    BY <1>2 DEF FillWithData
  <2>2. /\ d \in Seq(Block \cup {Pad}) /\ tree_level \in 0..tree_level
        /\ 2^tree_level \in Nat /\ 2^(tree_level + 1) = 2 * 2^tree_level
    BY ConstantsAssumption, TreeAssumption
  <2>3. BucketsDone' = 0
    BY <2>1, <2>2 DEF BucketsDone
  <2>4. bucket_size * 0 = 0
    BY ConstantsAssumption
  <2>5. Len(d) \in Nat /\ \A k \in DOMAIN d : ~(k <= 0)
    BY <2>2
  <2>6. FillKeeps'
    BY <2>1, <2>3, <2>4, <2>5 DEF FillKeeps
  <2> QED
    BY <2>1, <2>6 DEF NoLoss
<1>3. ASSUME Next, input' = input, is_initialized' = is_initialized,
             pc' = "fill" => UNCHANGED <<pc, p_data, level, offset, storage>>,
             faults' = 0 => faults = 0,
             call'.dummy => ~Standalone
      PROVE  LossInv'
  <2>1. FillKeeps'
    BY <1>3 DEF FillKeeps, BucketsDone, InTree, Ids
  <2>2. NoLoss'
    <3> SUFFICES ASSUME Standalone, is_initialized, faults' = 0, Len(input) <= Capacity
                 PROVE  InputIds' \subseteq Ids(Held')
      BY <1>3 DEF NoLoss, Ids
    <3>1. InputIds \subseteq Ids(Held) /\ InputIds' = InputIds /\ faults = 0
      BY <1>3 DEF NoLoss, InputIds
    <3>2. ~call.dummy
      BY DEF FillKeeps
    <3>3. Ids(Held) \subseteq Ids(Held')
      BY <1>3, <3>1, <3>2, HeldStep
    <3> QED
      BY <3>1, <3>3
  <2> QED
    BY <2>1, <2>2
<1>4. CASE UNCHANGED vars
  BY <1>4 DEF vars, FillKeeps, BucketsDone, NoLoss, InTree, Held, Ids, InputIds
<1>5. ASSUME NEW outcome \in Outcomes, InitOram(outcome) PROVE LossInv'
  <2>1. /\ input' = input /\ is_initialized' = is_initialized /\ pc' = "idle" /\ call' = call
        /\ faults' = 0 => faults = 0
    BY <1>5 DEF InitOram, fill_vars, Rpc, IInv, TypeOK
  <2> QED
    BY <1>3, <1>5, <2>1 DEF Next, Call, FillKeeps
<1>6. ASSUME NotInitialized PROVE LossInv'
  BY <1>3, <1>6 DEF Next, Call, NotInitialized, fill_vars, FillKeeps
<1>7. ASSUME NEW op \in {"kRead", "kWrite"}, NEW a \in Addr, NEW v \in Arguments(op),
             \/ \E p \in Leaves : Access(op, a, v, p)
             \/ \E p \in 0..number_of_leafs : AccessDirect(op, a, v, p)
             \/ \E p \in Leaves : DummyAccess(op, a, v, p)
      PROVE  LossInv'
  <2>1. /\ input' = input /\ is_initialized' = is_initialized /\ pc' = "read"
        /\ faults' = faults
        /\ call'.dummy => ~Standalone
    BY <1>7 DEF Access, AccessDirect, DummyAccess, BeginAccess, fill_vars
  <2> QED
    BY <1>3, <1>7, <2>1 DEF Next, Call
<1>8. ASSUME \/ ReadOutOfRange \/ ReadBucket \/ BlockNotFound \/ UpdateBlock
             \/ \E outcome \in Outcomes : ReadBucketFails(outcome)
             \/ \E S \in Subsets : WriteBucket(S)
             \/ \E outcome \in Outcomes : \E S \in Subsets : WriteBucketFails(S, outcome)
      PROVE  LossInv'
  <2>1. /\ input' = input /\ is_initialized' = is_initialized /\ call' = call
        /\ faults' = 0 => faults = 0
    BY <1>8 DEF ReadOutOfRange, ReadBucket, BlockNotFound, UpdateBlock, ReadBucketFails,
       WriteBucket, WriteBucketFails, fill_vars, Rpc, IInv, TypeOK
  <2>2. pc' # "fill"
    BY <1>8 DEF ReadOutOfRange, ReadBucket, BlockNotFound, UpdateBlock, ReadBucketFails,
       WriteBucket, WriteBucketFails, Return
  <2> QED
    BY <1>3, <1>8, <2>1, <2>2 DEF Next, Step, FillKeeps
<1> QED
  BY <1>1, <1>2, <1>4, <1>5, <1>6, <1>7, <1>8 DEF Next, Call, Step

\* A standalone controller that was given no more blocks than its tree has room for
\* has all of them, in the stash, the path buffer or the tree, as long as no RPC has
\* failed.
THEOREM NoLossSafe == Spec => []NoLoss
<1>1. Init => LossInv
  BY InitLoss
<1>2. IInv /\ LossInv /\ [Next]_vars => LossInv'
  BY LossStep
<1>3. LossInv => NoLoss
  BY DEF LossInv
<1> QED
  BY <1>1, <1>2, <1>3, Invariance, PTL DEF Spec
===============================================================================
