---------------------------- MODULE SqrtOramProofs ----------------------------
(***************************************************************************)
(* The position map and the server's memory agree, the shelter is drained  *)
(* by every scan, and the dummies last, for every size and every set of    *)
(* permutations.                                                           *)
(***************************************************************************)
EXTENDS SqrtOram, FiniteSetTheorems, TLAPS

-------------------------------------------------------------------------------
(* The inductive invariant. *)

\* Only the first slot is ever taken: a scan empties the slots the write-back
\* looks at, and it takes the first free one.
FirstTaken == shelter # <<>> /\ shelter[1] # FreeSlot

\* The scan of the access in progress has passed the first slot.
Scanned == pc \in {"fetch", "write"} \/ (pc = "scan" /\ slot > 0)

\* Once a fill has succeeded the server has the memory the map is about, and
\* exactly that unless a fill failed or was made again.
Sizes ==
    /\ pc # "idle" => is_initialized
    /\ is_initialized =>
          /\ position_map \in Permutations
          /\ Len(main_memory) >= block_num /\ Len(dummy) >= sqrt_m
          /\ Len(shelter) >= sqrt_m
    /\ is_initialized /\ ~diverged =>
          Len(main_memory) = block_num /\ Len(dummy) = sqrt_m
    /\ ~is_initialized /\ ~diverged =>
          /\ main_memory = <<>> /\ dummy = <<>> /\ shelter = <<>>
          /\ position_map = <<>>

Taken(s) == \E p \in Ids, b \in Block : s = [tag |-> p, content |-> {b}]

\* The slots of the shelter, and when the first one is free.
ShelterInv ==
    /\ \A i \in DOMAIN shelter :
          shelter[i] = FreeSlot \/ (i = 1 /\ Taken(shelter[i]))
    /\ Scanned => ~FirstTaken

\* How the server may have ended: two failures, or a memory filled again.
EndOfServer ==
    /\ pc \in {"idle", "scan"}
    /\ diverged \/ faults >= 2
    /\ faults = 0 => Len(main_memory) + Len(dummy) > N

\* A block in the shelter is a dummy that can still be used.  When the server is
\* gone no access gets past its first slot.
Dummies ==
    /\ next_dummy <= counter + faults
    /\ ~panicked /\ pc \in {"idle", "scan", "fetch"} /\ (in_shelter \/ FirstTaken) =>
          next_dummy < counter + faults
    /\ pc = "permute" => counter = 0 /\ next_dummy = 0
    /\ panicked => EndOfServer

\* The access in progress has the block it asked for.
Fetched ==
    /\ pc \in {"scan", "fetch", "write"} /\ call.op = "kWrite" => buffer \in Val
    /\ pc # "idle" /\ ~diverged => block.id = call.address
    /\ ~diverged => status # "kUnknownError"

IInv == TypeOK /\ Sizes /\ ShelterInv /\ Dummies /\ Fetched /\ PositionsAgree

-------------------------------------------------------------------------------
(* Sizes, sequences and permutations. *)

LEMMA Numbers ==
    /\ block_num \in Nat \ {0} /\ sqrt_m \in Nat \ {0} /\ N \in Nat \ {0}
    /\ MaxFaults \in Nat
    /\ DataSizes \subseteq 0..block_num
    /\ Nonsense \notin Val /\ Cipher \notin Val
    /\ 0 \in Ids
BY SqrtAssumption DEF N, Ids

\* The locals between two accesses.
LEMMA NoAccess ==
    /\ NoCall \in [op : {"kRead", "kWrite"}, address : Ids]
    /\ NoBlock \in Block /\ NoBlock.id = NoCall.address /\ NoCall.op = "kRead"
BY Numbers DEF NoCall, NoBlock, Block, Types

\* A permutation reaches every position.
LEMMA Onto ==
    ASSUME NEW perm \in Permutations, NEW p \in Ids
    PROVE  \E i \in Ids : perm[i] = p
<1>1. IsFiniteSet(Ids)
  <2>1. 0 \in Int /\ N - 1 \in Int
    BY Numbers
  <2> QED
    BY <2>1, FS_Interval, Zenon DEF Ids
<1>2. perm \in Injection(Ids, Ids)
  BY DEF Permutations, Injection, IsInjective
<1>3. perm \in Surjection(Ids, Ids)
  BY <1>1, <1>2, FS_Injection
<1> QED
  BY <1>3 DEF Surjection

\* PermuteBy moves every element, and fills every position with one.
LEMMA Permuted ==
    ASSUME NEW perm \in Permutations, NEW arr
    PROVE  /\ \A i \in Ids : PermuteBy(perm, arr)[perm[i]] = arr[i]
           /\ \A p \in Ids : \E i \in Ids :
                 perm[i] = p /\ PermuteBy(perm, arr)[p] = arr[i]
<1>1. \A p \in Ids : \E i \in Ids :
        perm[i] = p /\ PermuteBy(perm, arr)[p] = arr[i]
  <2> SUFFICES ASSUME NEW p \in Ids
               PROVE  \E i \in Ids : perm[i] = p /\ PermuteBy(perm, arr)[p] = arr[i]
    OBVIOUS
  <2> DEFINE i == CHOOSE j \in Ids : perm[j] = p
  <2>1. i \in Ids /\ perm[i] = p
    BY Onto
  <2>2. PermuteBy(perm, arr)[p] = arr[i]
    BY DEF PermuteBy
  <2> QED
    BY <2>1, <2>2
<1>2. \A i \in Ids : perm[i] \in Ids
  BY DEF Permutations
<1>3. \A i, j \in Ids : perm[i] = perm[j] => i = j
  BY DEF Permutations
<1> QED
  BY <1>1, <1>2, <1>3

\* UpdatePosition gives a permutation.
LEMMA Updated ==
    ASSUME NEW perm \in Permutations,
           position_map = <<>> \/ position_map \in Permutations
    PROVE  /\ UpdatePosition(perm) \in Permutations
           /\ position_map = <<>> => UpdatePosition(perm) = perm
           /\ position_map \in Permutations =>
                 \A a \in Ids : UpdatePosition(perm)[a] = perm[position_map[a]]
<1>1. CASE position_map = <<>>
  <2>1. DOMAIN position_map = {}
    BY <1>1
  <2>2. position_map \notin Permutations
    BY <2>1, Numbers DEF Permutations
  <2> QED
    BY <1>1, <2>1, <2>2 DEF UpdatePosition
<1>2. CASE position_map \in Permutations
  <2>1. DOMAIN position_map = Ids /\ Ids # {} /\ position_map # <<>>
    BY <1>2, Numbers DEF Permutations
  <2>2. UpdatePosition(perm) = [i \in Ids |-> perm[position_map[i]]]
    BY <2>1 DEF UpdatePosition
  <2> QED
    BY <1>2, <2>1, <2>2 DEF Permutations
<1> QED
  BY <1>1, <1>2

\* A sequence given by its elements.
LEMMA MakeSeq ==
    ASSUME NEW S, NEW n \in Nat, NEW f \in [1..n -> S]
    PROVE  f \in Seq(S) /\ Len(f) = n
OBVIOUS

\* A position of a memory that is large enough holds a block.
LEMMA Position ==
    ASSUME main_memory \in Seq(Block), dummy \in Seq(Block),
           Len(main_memory) + Len(dummy) >= N, NEW p \in Ids
    PROVE  BlockAt(p) \in Block
<1>1. Len(main_memory) \in Nat /\ Len(dummy) \in Nat /\ p \in Nat /\ p <= N - 1
      /\ N \in Nat
  BY Numbers DEF Ids
<1>2. CASE p < Len(main_memory)
  <2>1. p + 1 \in 1..Len(main_memory)
    BY <1>1, <1>2
  <2> QED
    BY <1>2, <2>1 DEF BlockAt
<1>3. CASE ~(p < Len(main_memory))
  <2>1. p - Len(main_memory) + 1 \in 1..Len(dummy)
    BY <1>1, <1>3
  <2> QED
    BY <1>3, <2>1 DEF BlockAt
<1> QED
  BY <1>2, <1>3

\* A slot is free or holds one block.
LEMMA SlotKinds ==
    /\ FreeSlot \in Slots
    /\ \A s : Taken(s) => s \in Slots /\ s # FreeSlot
<1>1. FreeSlot \in Slots
  BY DEF FreeSlot, Slots
<1>2. ASSUME NEW s, Taken(s) PROVE s \in Slots /\ s # FreeSlot
  <2>1. PICK p \in Ids, b \in Block : s = [tag |-> p, content |-> {b}]
    BY <1>2 DEF Taken
  <2>2. {b} # {} /\ s.content = {b} /\ FreeSlot.content = {}
    BY <2>1 DEF FreeSlot
  <2> QED
    BY <2>1, <2>2 DEF Slots
<1> QED
  BY <1>1, <1>2

-------------------------------------------------------------------------------
(* The steps. *)

LEMMA InitInv ==
    Init => IInv
<1> SUFFICES ASSUME Init PROVE IInv
  OBVIOUS
<1>1. TypeOK
  <2>1. block \in Block /\ call \in [op : {"kRead", "kWrite"}, address : Ids]
    BY NoAccess DEF Init
  <2>2. latest \in [Ids -> Val \cup {Nonsense}]
    BY DEF Init
  <2>3. slot \in 0..(sqrt_m - 1) /\ counter \in 0..(sqrt_m - 1)
        /\ faults \in 0..MaxFaults /\ next_dummy \in Nat
    BY Numbers DEF Init
  <2>4. main_memory \in Seq(Block) /\ dummy \in Seq(Block) /\ shelter \in Seq(Slots)
    BY DEF Init
  <2>5. /\ registered \in BOOLEAN /\ panicked \in BOOLEAN /\ is_initialized \in BOOLEAN
        /\ in_shelter \in BOOLEAN /\ diverged \in BOOLEAN /\ position_map = <<>>
        /\ pc = "idle" /\ buffer \in Val \cup {Nonsense, Cipher} /\ status = "none"
    BY DEF Init
  <2> QED
    BY <2>1, <2>2, <2>3, <2>4, <2>5 DEF TypeOK
<1>2. Sizes /\ ShelterInv /\ Dummies /\ Fetched /\ PositionsAgree
  BY Numbers DEF Init, Sizes, ShelterInv, Dummies, EndOfServer, Fetched,
     PositionsAgree, FirstTaken, Scanned
<1> QED
  BY <1>1, <1>2 DEF IInv

\* An RPC counts its failure, unless the server is gone.
LEMMA RpcCount ==
    ASSUME IInv, NEW outcome \in Outcomes, Rpc(outcome)
    PROVE  /\ faults' \in 0..MaxFaults /\ faults' >= faults
           /\ outcome = "answered" => faults' = faults /\ ~panicked
           /\ ~panicked /\ outcome # "answered" => faults' = faults + 1
           /\ panicked => outcome = "request_lost" /\ faults' = faults
BY Numbers DEF Rpc, IInv, TypeOK, Dummies

LEMMA InitOramStep ==
    ASSUME IInv, NEW outcome \in Outcomes, InitOram(outcome)
    PROVE  IInv'
<1>1. Rpc(outcome)
  BY DEF InitOram
<1>2. TypeOK'
  BY <1>1, RpcCount DEF InitOram, IInv, TypeOK, Executed
<1>3. Sizes' /\ ShelterInv' /\ PositionsAgree'
  BY <1>1, RpcCount DEF InitOram, IInv, TypeOK, Sizes, ShelterInv, PositionsAgree,
     FirstTaken, Scanned, BlockAt
<1>4. Dummies' /\ Fetched'
  BY <1>1, RpcCount, Numbers DEF InitOram, IInv, TypeOK, Dummies, EndOfServer,
     Fetched, FirstTaken
<1> QED
  BY <1>2, <1>3, <1>4 DEF IInv

LEMMA RefuseStep ==
    ASSUME IInv,
           NEW s \in {"kInvalidOperation", "kInvalidArgument"}, Refuse(s)
    PROVE  IInv'
<1>1. TypeOK'
  BY DEF Refuse, server_vars, IInv, TypeOK
<1>2. Sizes' /\ ShelterInv' /\ PositionsAgree' /\ Dummies' /\ Fetched'
  BY DEF Refuse, server_vars, IInv, Sizes, ShelterInv, PositionsAgree, Dummies,
     EndOfServer, Fetched, FirstTaken, Scanned, BlockAt
<1> QED
  BY <1>1, <1>2 DEF IInv

LEMMA AccessStep ==
    ASSUME IInv, NEW op \in {"kRead", "kWrite"}, NEW a \in Ids,
           NEW v \in Val \cup {Nonsense}, op = "kWrite" => v \in Val,
           Access(op, a, v)
    PROVE  IInv'
<1>1. TypeOK'
  <2>1. block' \in Block
    BY DEF Access, Block, Types
  <2>2. slot' \in 0..(sqrt_m - 1) /\ call' \in [op : {"kRead", "kWrite"}, address : Ids]
    BY Numbers DEF Access
  <2> QED
    BY <2>1, <2>2 DEF Access, server_vars, IInv, TypeOK
<1>2. Sizes' /\ ShelterInv' /\ PositionsAgree'
  BY DEF Access, server_vars, IInv, Sizes, ShelterInv, PositionsAgree,
     FirstTaken, Scanned, BlockAt
<1>3. Dummies' /\ Fetched'
  BY DEF Access, server_vars, IInv, Dummies, EndOfServer, Fetched, FirstTaken
<1> QED
  BY <1>1, <1>2, <1>3 DEF IInv

\* The padded blocks, permuted, have their ids.
LEMMA PermutedBlocks ==
    ASSUME NEW n, NEW v \in Val, NEW perm \in Permutations
    PROVE  /\ \A p \in Ids : PermuteBy(perm, Padded(n, v))[p] \in Block
           /\ \A a \in Ids : PermuteBy(perm, Padded(n, v))[perm[a]].id = a
<1>1. \A a \in Ids : Padded(n, v)[a] \in Block /\ Padded(n, v)[a].id = a
  BY DEF Padded, Block, Types
<1> QED
  BY <1>1, Permuted

\* An array laid out in the two memories is found where its indices say.
LEMMA Layout ==
    ASSUME NEW arr,
           main_memory' = [p \in 1..block_num |-> arr[p - 1]],
           dummy' = [p \in 1..sqrt_m |-> arr[block_num + p - 1]],
           NEW p \in Ids
    PROVE  BlockAt(p)' = arr[p]
<1>1. Len(main_memory') = block_num /\ p \in Nat /\ p <= block_num + sqrt_m - 1
  BY Numbers DEF Ids, N
<1>2. CASE p < block_num
  BY <1>1, <1>2, Numbers DEF BlockAt
<1>3. CASE ~(p < block_num)
  <2>1. p - block_num + 1 \in 1..sqrt_m /\ block_num + (p - block_num + 1) - 1 = p
    BY <1>1, <1>3, Numbers
  <2> QED
    BY <1>1, <1>3, <2>1, Numbers DEF BlockAt
<1> QED
  BY <1>2, <1>3

\* A sequence longer by the elements of another one.
LEMMA Longer ==
    ASSUME NEW S, NEW s \in Seq(S), NEW n \in Nat \ {0}, NEW f \in [1..n -> S]
    PROVE  /\ s \o f \in Seq(S) /\ Len(s \o f) = Len(s) + n
           /\ s = <<>> => s \o f = f
           /\ \A i \in DOMAIN (s \o f) :
                 \/ i \in DOMAIN s /\ (s \o f)[i] = s[i]
                 \/ i \notin DOMAIN s /\ (s \o f)[i] = f[i - Len(s)]
                    /\ i - Len(s) \in 1..n
           /\ 1 \in DOMAIN (s \o f)
<1>1. f \in Seq(S) /\ Len(f) = n
  BY MakeSeq
<1>2. s \o f \in Seq(S) /\ Len(s \o f) = Len(s) + n
  BY <1>1
<1>3. s = <<>> => s \o f = f
  BY <1>1
<1>4. DOMAIN (s \o f) = 1..(Len(s) + n) /\ DOMAIN s = 1..Len(s) /\ Len(s) \in Nat
  BY <1>2
<1>5. \A i \in 1..(Len(s) + n) :
        (s \o f)[i] = IF i <= Len(s) THEN s[i] ELSE f[i - Len(s)]
  BY <1>1
<1> QED
  BY <1>2, <1>3, <1>4, <1>5

\* More failed RPCs leave more room.
LEMMA Slack ==
    ASSUME NEW used \in Nat, NEW counted \in Nat, NEW f \in Nat, NEW g \in Nat, g >= f
    PROVE  /\ used <= counted + f => used <= counted + g
           /\ used < counted + f => used < counted + g
           /\ used < counted + f => used + 1 <= counted + g
           /\ used <= counted + f => /\ used < (counted + 1) + g
                                     /\ used <= (counted + 1) + g
OBVIOUS

LEMMA FillWithDataStep ==
    ASSUME IInv, NEW outcome \in Outcomes, NEW n \in DataSizes, NEW v \in Val,
           NEW perm \in Permutations, FillWithData(n, v, perm, outcome)
    PROVE  IInv'
<1> DEFINE arr == PermuteBy(perm, Padded(n, v))
           m == [p \in 1..block_num |-> arr[p - 1]]
           d == [p \in 1..sqrt_m |-> arr[block_num + p - 1]]
           f == [p \in 1..sqrt_m |-> FreeSlot]
<1>1. /\ Rpc(outcome) /\ pc = "idle"
      /\ position_map' = UpdatePosition(perm)
      /\ UNCHANGED <<registered, panicked, next_dummy, counter, pc, call, slot,
                     in_shelter, block, buffer>>
      /\ \/ /\ registered /\ outcome = "answered" /\ is_initialized' = TRUE
            /\ status' = "kOK" /\ diverged' = (diverged \/ is_initialized)
            /\ latest' = [a \in Ids |-> IF a < n THEN v ELSE Nonsense]
         \/ /\ ~(registered /\ outcome = "answered") /\ status' = "kServerError"
            /\ diverged' = TRUE /\ is_initialized' = is_initialized /\ latest' = latest
  BY DEF FillWithData
<1>2. \/ /\ registered /\ Executed(outcome)
         /\ main_memory' = main_memory \o m /\ dummy' = dummy \o d
         /\ shelter' = shelter \o f
      \/ /\ ~(registered /\ Executed(outcome))
         /\ UNCHANGED <<main_memory, dummy, shelter>>
  BY DEF FillWithData
<1>3. /\ \A p \in Ids : arr[p] \in Block
      /\ \A a \in Ids : arr[perm[a]].id = a
  BY PermutedBlocks
<1> HIDE DEF arr
<1>4. m \in [1..block_num -> Block] /\ d \in [1..sqrt_m -> Block]
      /\ f \in [1..sqrt_m -> Slots]
  <2>1. \A p \in 1..block_num : p - 1 \in Ids
    BY Numbers DEF Ids, N
  <2>2. \A p \in 1..sqrt_m : block_num + p - 1 \in Ids
    BY Numbers DEF Ids, N
  <2> QED
    BY <1>3, <2>1, <2>2, SlotKinds
<1>5. main_memory \in Seq(Block) /\ dummy \in Seq(Block) /\ shelter \in Seq(Slots)
      /\ block_num \in Nat \ {0} /\ sqrt_m \in Nat \ {0}
  BY Numbers DEF IInv, TypeOK
<1> HIDE DEF m, d, f
<1>6. /\ main_memory \o m \in Seq(Block) /\ Len(main_memory \o m) = Len(main_memory) + block_num
      /\ dummy \o d \in Seq(Block) /\ Len(dummy \o d) = Len(dummy) + sqrt_m
      /\ shelter \o f \in Seq(Slots) /\ Len(shelter \o f) = Len(shelter) + sqrt_m
      /\ main_memory = <<>> => main_memory \o m = m
      /\ dummy = <<>> => dummy \o d = d
      /\ 1 \in DOMAIN (shelter \o f)
      /\ Len(main_memory) \in Nat /\ Len(dummy) \in Nat /\ Len(shelter) \in Nat
  <2>1. /\ main_memory \o m \in Seq(Block)
        /\ Len(main_memory \o m) = Len(main_memory) + block_num
        /\ main_memory = <<>> => main_memory \o m = m
    <3>1. main_memory \in Seq(Block) /\ block_num \in Nat \ {0}
          /\ m \in [1..block_num -> Block]
      BY <1>4, <1>5
    <3> QED
      BY <3>1, Longer
  <2>2. /\ dummy \o d \in Seq(Block) /\ Len(dummy \o d) = Len(dummy) + sqrt_m
        /\ dummy = <<>> => dummy \o d = d
    <3>1. dummy \in Seq(Block) /\ sqrt_m \in Nat \ {0} /\ d \in [1..sqrt_m -> Block]
      BY <1>4, <1>5
    <3>2. d \in Seq(Block) /\ Len(d) = sqrt_m
      BY <3>1, MakeSeq
    <3> QED
      BY <3>1, <3>2
  <2>3. /\ shelter \o f \in Seq(Slots) /\ Len(shelter \o f) = Len(shelter) + sqrt_m
        /\ 1 \in DOMAIN (shelter \o f)
    BY <1>4, <1>5, Longer
  <2>6. Len(main_memory) \in Nat /\ Len(dummy) \in Nat /\ Len(shelter) \in Nat
    BY <1>5
  <2> QED
    BY <2>1, <2>2, <2>3, <2>6
<1>7. \A i \in DOMAIN (shelter \o f) :
        \/ i \in DOMAIN shelter /\ (shelter \o f)[i] = shelter[i]
        \/ i \notin DOMAIN shelter /\ (shelter \o f)[i] = FreeSlot
  BY <1>4, <1>5, Longer DEF f
<1>8. /\ position_map' \in Permutations
      /\ position_map = <<>> => position_map' = perm
  BY <1>1, Updated DEF IInv, TypeOK
<1>9. TypeOK'
  <2>1. latest' \in [Ids -> Val \cup {Nonsense}]
    BY <1>1 DEF IInv, TypeOK
  <2>2. main_memory' \in Seq(Block) /\ dummy' \in Seq(Block) /\ shelter' \in Seq(Slots)
    BY <1>2, <1>5, <1>6
  <2>3. /\ faults' \in 0..MaxFaults /\ is_initialized' \in BOOLEAN
        /\ diverged' \in BOOLEAN /\ status' \in {"kOK", "kServerError"}
    BY <1>1, RpcCount DEF IInv, TypeOK
  <2>4. /\ registered' \in BOOLEAN /\ panicked' \in BOOLEAN /\ in_shelter' \in BOOLEAN
        /\ next_dummy' \in Nat /\ counter' \in 0..(sqrt_m - 1)
        /\ pc' = "idle" /\ slot' \in 0..(sqrt_m - 1) /\ block' \in Block
        /\ call' \in [op : {"kRead", "kWrite"}, address : Ids]
        /\ buffer' \in Val \cup {Nonsense, Cipher}
    BY <1>1 DEF IInv, TypeOK
  <2> QED
    BY <1>8, <2>1, <2>2, <2>3, <2>4 DEF TypeOK
<1>10. Sizes'
  <2>1. CASE registered /\ Executed(outcome)
    <3>1. ~diverged' => ~diverged /\ ~is_initialized /\ is_initialized'
      BY <1>1 DEF IInv, TypeOK
    <3>2. ~diverged' => Len(main_memory) = 0 /\ Len(dummy) = 0
      BY <3>1 DEF IInv, Sizes
    <3>3. /\ main_memory' = main_memory \o m /\ dummy' = dummy \o d
          /\ shelter' = shelter \o f
      BY <1>2, <2>1
    <3>4. /\ Len(main_memory') = Len(main_memory) + block_num
          /\ Len(dummy') = Len(dummy) + sqrt_m /\ Len(shelter') = Len(shelter) + sqrt_m
      BY <1>6, <3>3
    <3>5. /\ Len(main_memory') >= block_num /\ Len(dummy') >= sqrt_m
          /\ Len(shelter') >= sqrt_m
      BY <1>5, <1>6, <3>4
    <3>6. ~diverged' => Len(main_memory') = block_num /\ Len(dummy') = sqrt_m
      BY <1>5, <3>2, <3>4
    <3>7. pc' = "idle"
      BY <1>1
    <3> QED
      BY <1>8, <3>1, <3>5, <3>6, <3>7 DEF Sizes
  <2>2. CASE ~(registered /\ Executed(outcome))
    <3>1. diverged' /\ is_initialized' = is_initialized
      BY <1>1, <2>2 DEF Executed
    <3> QED
      BY <1>1, <1>2, <1>8, <2>2, <3>1 DEF Sizes, IInv
  <2> QED
    BY <2>1, <2>2
<1>11. ShelterInv' /\ (FirstTaken' => FirstTaken)
  <2>1. \A i \in DOMAIN shelter' :
          shelter'[i] = FreeSlot \/ (i = 1 /\ Taken(shelter'[i]))
    BY <1>2, <1>7 DEF IInv, ShelterInv
  <2>2. FirstTaken' => FirstTaken
    <3>1. CASE shelter' = shelter \o f
      <4>1. 1 \in DOMAIN shelter => shelter # <<>>
        BY <1>5
      <4>2. shelter'[1] = FreeSlot \/ (1 \in DOMAIN shelter /\ shelter'[1] = shelter[1])
        BY <1>6, <1>7, <3>1
      <4> QED
        BY <4>1, <4>2 DEF FirstTaken
    <3> QED
      BY <1>2, <3>1 DEF FirstTaken
  <2> QED
    BY <1>1, <2>1, <2>2 DEF ShelterInv, Scanned
<1>12. Dummies'
  <2>1. /\ Len(main_memory') \in Nat /\ Len(dummy') \in Nat
        /\ Len(main_memory') >= Len(main_memory) /\ Len(dummy') >= Len(dummy)
    BY <1>2, <1>5, <1>6
  <2>2. EndOfServer => EndOfServer'
    <3>1. faults' \in Nat /\ faults \in Nat /\ faults' >= faults /\ N \in Nat
      BY <1>1, RpcCount, Numbers DEF IInv, TypeOK
    <3>2. (diverged => diverged') /\ pc' = pc
      BY <1>1
    <3> QED
      BY <1>6, <2>1, <3>1, <3>2 DEF EndOfServer
  <2>3. /\ next_dummy \in Nat /\ counter \in Nat /\ faults \in Nat /\ faults' \in Nat
        /\ faults' >= faults
    BY <1>1, RpcCount, Numbers DEF IInv, TypeOK
  <2>4. /\ next_dummy' = next_dummy /\ counter' = counter /\ pc' = "idle" /\ pc = "idle"
        /\ in_shelter' = in_shelter /\ panicked' = panicked
    BY <1>1
  <2>5. next_dummy' <= counter' + faults'
    BY <2>3, <2>4, Slack DEF IInv, Dummies
  <2>6. ~panicked' /\ (in_shelter' \/ FirstTaken') => next_dummy' < counter' + faults'
    BY <1>11, <2>3, <2>4, Slack DEF IInv, Dummies
  <2> QED
    BY <2>2, <2>4, <2>5, <2>6 DEF IInv, Dummies
<1>13. Fetched'
  BY <1>1 DEF IInv, Fetched
<1>14. PositionsAgree'
  <2> SUFFICES ASSUME is_initialized', ~diverged'
               PROVE  PositionsAgree'
    BY DEF PositionsAgree
  <2>1. registered /\ Executed(outcome) /\ ~diverged /\ ~is_initialized
    <3>1. diverged' # TRUE /\ diverged \in BOOLEAN /\ is_initialized \in BOOLEAN
      BY DEF IInv, TypeOK
    <3> QED
      BY <1>1, <3>1 DEF Executed
  <2>2. main_memory = <<>> /\ dummy = <<>> /\ shelter = <<>> /\ position_map = <<>>
    BY <1>1, <2>1 DEF IInv, Sizes
  <2>3. main_memory' = m /\ dummy' = d /\ position_map' = perm
    BY <1>2, <1>6, <1>8, <2>1, <2>2
  <2>4. \A a \in Ids : perm[a] \in Ids
    BY DEF Permutations
  <2>5. \A a \in Ids : BlockAt(perm[a])' = arr[perm[a]]
    BY <2>3, <2>4, Layout DEF m, d
  <2>6. \A i \in DOMAIN shelter' : shelter'[i].content = {}
    BY <1>2, <1>7, <2>1, <2>2 DEF FreeSlot
  <2> QED
    BY <1>3, <2>3, <2>5, <2>6 DEF PositionsAgree
<1> QED
  BY <1>9, <1>10, <1>11, <1>12, <1>13, <1>14 DEF IInv

LEMMA NoneUsed ==
    ASSUME NEW f \in Nat
    PROVE  0 <= 0 + f /\ (f >= 1 => 0 < 0 + f)
OBVIOUS

\* What a slot that is handed out may hold.
LEMMA SlotContent ==
    ASSUME IInv, pc # "idle", NEW i \in 1..sqrt_m
    PROVE  /\ i \in DOMAIN shelter /\ i \in 1..Len(shelter)
           /\ shelter[i].content \subseteq Block
           /\ shelter[i].content # {} => i = 1 /\ FirstTaken
           /\ 1 \in DOMAIN shelter /\ shelter # <<>>
<1>1. Len(shelter) \in Nat /\ Len(shelter) >= sqrt_m /\ sqrt_m \in Nat \ {0}
      /\ DOMAIN shelter = 1..Len(shelter)
  BY Numbers DEF IInv, Sizes, TypeOK
<1>2. i \in DOMAIN shelter /\ 1 \in DOMAIN shelter /\ shelter # <<>>
  BY <1>1
<1>3. shelter[i] = FreeSlot \/ (i = 1 /\ Taken(shelter[i]))
  BY <1>2 DEF IInv, ShelterInv
<1>4. shelter[i] = FreeSlot => shelter[i].content = {}
  BY DEF FreeSlot
<1>5. Taken(shelter[i]) => shelter[i].content \subseteq Block
  BY DEF Taken
<1> QED
  BY <1>1, <1>2, <1>3, <1>4, <1>5, SlotKinds DEF FirstTaken

LEMMA ReadShelterStep ==
    ASSUME IInv, NEW outcome \in Outcomes, ReadShelter(outcome)
    PROVE  IInv'
<1> DEFINE content == shelter[slot + 1].content
           match == {b \in content : b.type = "kNormal" /\ b.id = call.address}
<1>1. /\ pc = "scan" /\ Rpc(outcome)
      /\ shelter' = IF Executed(outcome) THEN [shelter EXCEPT ![slot + 1] = FreeSlot]
                    ELSE shelter
      /\ UNCHANGED <<registered, main_memory, dummy, panicked, is_initialized,
                     position_map, next_dummy, counter, buffer, latest, diverged>>
  BY DEF ReadShelter, Released
<1>2. \/ /\ outcome = "answered" /\ status' = status /\ call' = call
         /\ in_shelter' = (in_shelter \/ match # {})
         /\ block' = IF match = {} THEN block ELSE CHOOSE b \in match : TRUE
         /\ slot' = IF slot + 1 < sqrt_m THEN slot + 1 ELSE 0
         /\ pc' = IF slot + 1 < sqrt_m THEN "scan" ELSE "fetch"
      \/ /\ outcome # "answered" /\ block' = NoBlock /\ call' = NoCall
         /\ pc' = "idle" /\ status' = "kServerError" /\ slot' = 0 /\ in_shelter' = FALSE
  BY DEF ReadShelter, ScanFailed, Return, Finished
<1>3. slot + 1 \in 1..sqrt_m /\ sqrt_m \in Nat \ {0} /\ slot \in Nat
  BY Numbers DEF IInv, TypeOK
<1>4. /\ slot + 1 \in DOMAIN shelter /\ content \subseteq Block
      /\ content # {} => slot = 0 /\ FirstTaken
      /\ 1 \in DOMAIN shelter /\ shelter # <<>>
  <2>1. content # {} => slot + 1 = 1 /\ FirstTaken
    BY <1>1, <1>3, SlotContent
  <2> QED
    BY <1>1, <1>3, <2>1, SlotContent
<1>5. match # {} => /\ (CHOOSE b \in match : TRUE) \in Block
                    /\ (CHOOSE b \in match : TRUE).id = call.address
                    /\ FirstTaken
  <2> SUFFICES ASSUME match # {}
               PROVE  /\ (CHOOSE b \in match : TRUE) \in Block
                      /\ (CHOOSE b \in match : TRUE).id = call.address
                      /\ FirstTaken
    OBVIOUS
  <2> DEFINE c == CHOOSE b \in match : TRUE
  <2>1. c \in match
    OBVIOUS
  <2> HIDE DEF c
  <2>2. c \in content /\ c.id = call.address
    BY <2>1
  <2> HIDE DEF match, content
  <2> QED
    BY <1>4, <2>2 DEF c
<1> HIDE DEF match, content
<1>6. /\ block' \in Block /\ ((block' = block /\ call' = call) \/ block'.id = call'.address)
      /\ call' \in [op : {"kRead", "kWrite"}, address : Ids]
      /\ call' = call \/ pc' = "idle"
  BY <1>2, <1>5, NoAccess DEF IInv, TypeOK
<1>a. shelter' \in Seq(Slots) /\ Len(shelter') = Len(shelter)
  BY <1>1, <1>4, SlotKinds DEF IInv, TypeOK
<1>7. /\ DOMAIN shelter' = DOMAIN shelter
      /\ \A i \in DOMAIN shelter' : shelter'[i] = FreeSlot \/ shelter'[i] = shelter[i]
      /\ Executed(outcome) => shelter'[slot + 1] = FreeSlot
  <2>1. CASE Executed(outcome)
    BY <1>1, <1>4, <2>1 DEF IInv, TypeOK
  <2>2. CASE ~Executed(outcome)
    BY <1>1, <2>2
  <2> QED
    BY <2>1, <2>2
<1>8. FirstTaken' => FirstTaken
  BY <1>4, <1>7, Zenon DEF FirstTaken
<1>9. TypeOK'
  <2>1. slot' \in 0..(sqrt_m - 1) /\ pc' \in {"idle", "scan", "fetch"}
    BY <1>2, <1>3
  <2>4. in_shelter' \in BOOLEAN
    BY <1>2, Zenon
  <2>2. faults' \in 0..MaxFaults
    BY <1>1, RpcCount
  <2>3. status' \in {"none", "kOK", "kServerError", "kInvalidOperation",
                     "kInvalidArgument", "kUnknownError"}
    BY <1>2 DEF IInv, TypeOK
  <2> QED
    BY <1>1, <1>6, <1>a, <2>1, <2>2, <2>3, <2>4 DEF IInv, TypeOK
<1>10. Sizes'
  BY <1>1, <1>a, <1>7 DEF IInv, Sizes
<1>11. ShelterInv'
  <2>1. \A i \in DOMAIN shelter' :
          shelter'[i] = FreeSlot \/ (i = 1 /\ Taken(shelter'[i]))
    BY <1>7, Zenon DEF IInv, ShelterInv
  <2>2. ASSUME Scanned' PROVE ~FirstTaken'
    <3>1. outcome = "answered" /\ Executed(outcome)
      BY <1>2, <2>2 DEF Scanned, Executed
    <3>2. CASE slot = 0
      <4>1. slot + 1 = 1
        BY <3>2
      <4> QED
        BY <1>7, <3>1, <4>1, Zenon DEF FirstTaken
    <3>3. CASE slot # 0
      BY <1>1, <1>3, <1>8, <3>3 DEF IInv, ShelterInv, Scanned
    <3> QED
      BY <3>2, <3>3
  <2> QED
    BY <2>1, <2>2 DEF ShelterInv
<1>12. Dummies'
  <2>1. CASE outcome = "answered"
    <3>1. in_shelter' \/ FirstTaken' => in_shelter \/ FirstTaken
      BY <1>2, <1>5, <1>8, <2>1
    <3>2. faults' = faults /\ pc' # "permute" /\ ~panicked /\ ~panicked'
      BY <1>1, <1>2, <2>1, RpcCount
    <3> QED
      BY <1>1, <3>1, <3>2 DEF IInv, Dummies
  <2>2. CASE outcome # "answered"
    <3>1. ~in_shelter' /\ pc' = "idle" /\ faults' >= faults
          /\ faults' \in Nat /\ faults \in Nat /\ next_dummy \in Nat /\ counter \in Nat
      BY <1>1, <1>2, <2>2, RpcCount, Numbers DEF IInv, TypeOK
    <3>2. /\ next_dummy' = next_dummy /\ counter' = counter
          /\ panicked' = panicked /\ diverged' = diverged
      BY <1>1
    <3>3. /\ next_dummy <= counter + faults
          /\ ~panicked /\ FirstTaken => next_dummy < counter + faults
          /\ panicked => EndOfServer
      BY <1>1 DEF IInv, Dummies
    <3>4. /\ next_dummy' <= counter' + faults'
          /\ ~panicked' /\ FirstTaken => next_dummy' < counter' + faults'
      BY <3>1, <3>2, <3>3, Slack
    <3>5. panicked' => EndOfServer'
      BY <1>1, <3>1, <3>2, <3>3 DEF EndOfServer
    <3> QED
      BY <1>8, <3>1, <3>4, <3>5 DEF Dummies
  <2> QED
    BY <2>1, <2>2
<1>13. Fetched'
  BY <1>1, <1>2, <1>6 DEF IInv, Fetched
<1>14. PositionsAgree'
  <2>1. \A p \in Int : BlockAt(p)' = BlockAt(p)
    BY <1>1 DEF BlockAt
  <2> SUFFICES ASSUME is_initialized, ~diverged PROVE PositionsAgree'
    BY <1>1 DEF PositionsAgree
  <2>2. \A a \in Ids : BlockAt(position_map[a])' = BlockAt(position_map[a])
    BY <1>1 DEF BlockAt
  <2>3. \A i \in DOMAIN shelter' : \A b \in shelter'[i].content :
          shelter'[i].tag = position_map[b.id]
    <3>1. FreeSlot.content = {}
      BY DEF FreeSlot
    <3>2. \A i \in DOMAIN shelter : \A b \in shelter[i].content :
            shelter[i].tag = position_map[b.id]
      BY DEF IInv, PositionsAgree
    <3> QED
      BY <1>7, <3>1, <3>2, Zenon
  <2> QED
    BY <1>1, <2>2, <2>3 DEF IInv, PositionsAgree
<1> QED
  BY <1>9, <1>10, <1>11, <1>12, <1>13, <1>14 DEF IInv

LEMMA ReadDummyStep ==
    ASSUME IInv, NEW outcome \in Outcomes, ReadDummy(outcome)
    PROVE  IInv'
<1>1. /\ pc = "fetch" /\ in_shelter /\ Rpc(outcome)
      /\ next_dummy' = next_dummy + 1
      /\ registered' = registered /\ main_memory' = main_memory /\ dummy' = dummy
      /\ shelter' = shelter /\ is_initialized' = is_initialized
      /\ position_map' = position_map /\ counter' = counter
      /\ buffer' = buffer /\ latest' = latest /\ diverged' = diverged
  BY DEF ReadDummy
<1>2. \/ panicked' = panicked
      \/ Executed(outcome) /\ next_dummy >= Len(dummy) /\ panicked' = TRUE
  BY DEF ReadDummy
<1>3. \/ /\ outcome = "answered" /\ ~panicked'
         /\ pc' = "write" /\ status' = status /\ slot' = slot /\ in_shelter' = in_shelter
         /\ call' = call /\ block' = block
      \/ /\ outcome # "answered" \/ panicked'
         /\ pc' = "idle" /\ status' = "kServerError" /\ slot' = 0 /\ in_shelter' = FALSE
         /\ call' = NoCall /\ block' = NoBlock
  BY DEF ReadDummy, Return, Finished
<1>4. ~FirstTaken /\ ~panicked /\ next_dummy < counter + faults
  BY <1>1 DEF IInv, ShelterInv, Dummies, EndOfServer, Scanned
<1>5. /\ next_dummy \in Nat /\ counter \in Nat /\ faults \in Nat /\ sqrt_m \in Nat
      /\ faults' \in Nat /\ counter <= sqrt_m - 1 /\ faults' >= faults
      /\ Len(dummy) >= sqrt_m /\ Len(dummy) \in Nat
  BY <1>1, RpcCount, Numbers DEF IInv, TypeOK, Sizes
<1>6. TypeOK'
  <2>1. next_dummy' \in Nat /\ faults' \in 0..MaxFaults
    BY <1>1, <1>5, RpcCount
  <2>4. panicked' \in BOOLEAN
    BY <1>2 DEF IInv, TypeOK
  <2>2. /\ pc' \in {"idle", "write"} /\ slot' \in 0..(sqrt_m - 1)
        /\ status' \in {"none", "kOK", "kServerError", "kInvalidOperation",
                        "kInvalidArgument", "kUnknownError"}
    BY <1>3, Numbers DEF IInv, TypeOK
  <2>3. in_shelter' \in BOOLEAN
    BY <1>3 DEF IInv, TypeOK
  <2>5. call' \in [op : {"kRead", "kWrite"}, address : Ids] /\ block' \in Block
    BY <1>3, NoAccess DEF IInv, TypeOK
  <2> QED
    BY <1>1, <2>1, <2>2, <2>3, <2>4, <2>5 DEF IInv, TypeOK
<1>7. Sizes' /\ ShelterInv' /\ PositionsAgree'
  <2>1. ~FirstTaken'
    BY <1>1, <1>4 DEF FirstTaken
  <2>2. Sizes'
    BY <1>1 DEF IInv, Sizes
  <2>3. ShelterInv'
    BY <1>1, <2>1 DEF IInv, ShelterInv
  <2>4. PositionsAgree'
    BY <1>1 DEF IInv, PositionsAgree, BlockAt
  <2> QED
    BY <2>2, <2>3, <2>4
<1>8. Dummies'
  <2>1. next_dummy' <= counter' + faults'
    <3>1. next_dummy + 1 <= counter + faults'
      BY <1>4, <1>5, Slack
    <3> QED
      BY <1>1, <3>1
  <2>2. ~FirstTaken' /\ (pc' = "write" \/ ~in_shelter') /\ pc' # "permute"
    BY <1>1, <1>3, <1>4 DEF FirstTaken
  <2>3. ASSUME panicked' PROVE EndOfServer'
    <3>1. next_dummy >= Len(dummy)
      BY <1>2, <1>4, <2>3
    <3>2. faults >= 2
      BY <1>4, <1>5, <3>1
    <3> QED
      BY <1>3, <1>5, <2>3, <3>2 DEF EndOfServer
  <2> QED
    BY <2>1, <2>2, <2>3 DEF Dummies
<1>9. Fetched'
  BY <1>1, <1>3, NoAccess DEF IInv, Fetched
<1> QED
  BY <1>6, <1>7, <1>8, <1>9 DEF IInv

\* The position of the access in progress is one of the memory.
LEMMA AtPosition ==
    ASSUME IInv, pc # "idle"
    PROVE  /\ position \in Ids /\ call.address \in Ids
           /\ BlockAt(position) \in Block
           /\ ~diverged => BlockAt(position).id = call.address
<1>1. call.address \in Ids /\ is_initialized
  BY DEF IInv, TypeOK, Sizes
<1>2. position \in Ids
  BY <1>1 DEF position, IInv, Sizes, Permutations
<1>3. Len(main_memory) + Len(dummy) >= N
  <2>1. Len(main_memory) \in Nat /\ Len(dummy) \in Nat
    BY DEF IInv, TypeOK
  <2>2. Len(main_memory) >= block_num /\ Len(dummy) >= sqrt_m
    BY <1>1 DEF IInv, Sizes
  <2> QED
    BY <2>1, <2>2, Numbers DEF N
<1>4. BlockAt(position) \in Block
  BY <1>2, <1>3, Position DEF IInv, TypeOK
<1>5. ~diverged => BlockAt(position).id = call.address
  BY <1>1 DEF IInv, PositionsAgree, position
<1> QED
  BY <1>1, <1>2, <1>4, <1>5

LEMMA ReadMainStep ==
    ASSUME IInv, NEW outcome \in Outcomes, ReadMain(outcome)
    PROVE  IInv'
<1>1. /\ pc = "fetch" /\ ~in_shelter /\ Rpc(outcome)
      /\ registered' = registered /\ main_memory' = main_memory /\ dummy' = dummy
      /\ shelter' = shelter /\ panicked' = panicked /\ is_initialized' = is_initialized
      /\ position_map' = position_map /\ next_dummy' = next_dummy
      /\ counter' = counter
      /\ buffer' = buffer /\ latest' = latest /\ diverged' = diverged
  BY DEF ReadMain, server_vars
<1>2. \/ /\ outcome = "answered" /\ block' = BlockAt(position) /\ call' = call
         /\ pc' = "write" /\ status' = status /\ slot' = slot /\ in_shelter' = in_shelter
      \/ /\ pc' = "idle" /\ slot' = 0 /\ in_shelter' = FALSE
         /\ block' = NoBlock /\ call' = NoCall
         /\ \/ status' = "kServerError"
            \/ status' = "kUnknownError" /\ BlockAt(position).id # call.address
  BY DEF ReadMain, Return, Finished
<1>3. /\ block' \in Block /\ call' \in [op : {"kRead", "kWrite"}, address : Ids]
      /\ ~diverged => block'.id = call'.address
      /\ ~diverged => status' # "kUnknownError"
  <2>1. /\ call \in [op : {"kRead", "kWrite"}, address : Ids]
        /\ ~diverged => status # "kUnknownError"
    BY <1>1 DEF IInv, TypeOK, Fetched
  <2>2. BlockAt(position) \in Block /\ (~diverged => BlockAt(position).id = call.address)
    BY <1>1, AtPosition
  <2> QED
    BY <1>2, <2>1, <2>2, NoAccess
<1>4. /\ faults' \in 0..MaxFaults /\ faults' >= faults /\ faults \in Nat /\ faults' \in Nat
      /\ next_dummy \in Nat /\ counter \in Nat
  BY <1>1, RpcCount, Numbers DEF IInv, TypeOK
<1>5. TypeOK'
  <2>1. /\ pc' \in {"idle", "write"} /\ slot' \in 0..(sqrt_m - 1)
        /\ status' \in {"none", "kOK", "kServerError", "kInvalidOperation",
                        "kInvalidArgument", "kUnknownError"}
    BY <1>2, Numbers DEF IInv, TypeOK
  <2>2. in_shelter' \in BOOLEAN
    BY <1>2 DEF IInv, TypeOK
  <2> QED
    BY <1>1, <1>3, <1>4, <2>1, <2>2 DEF IInv, TypeOK
<1>6. ~FirstTaken'
  BY <1>1 DEF FirstTaken, IInv, ShelterInv, Scanned
<1>7. Sizes'
  BY <1>1 DEF IInv, Sizes
<1>8. ShelterInv'
  BY <1>1, <1>6 DEF IInv, ShelterInv
<1>9. Dummies'
  <2>1. next_dummy' <= counter' + faults'
    BY <1>1, <1>4, Slack DEF IInv, Dummies
  <2>2. ~panicked'
    BY <1>1 DEF IInv, Dummies, EndOfServer
  <2>3. pc' \in {"idle", "write"} /\ ~in_shelter'
    BY <1>1, <1>2
  <2> QED
    BY <1>6, <2>1, <2>2, <2>3 DEF Dummies
<1>10. Fetched'
  BY <1>1, <1>2, <1>3 DEF IInv, Fetched
<1>11. PositionsAgree'
  BY <1>1 DEF IInv, PositionsAgree, BlockAt
<1> QED
  BY <1>5, <1>7, <1>8, <1>9, <1>10, <1>11 DEF IInv

\* The write-back finds the first slot free.
LEMMA FirstIsFree ==
    ASSUME IInv, pc = "write"
    PROVE  FirstFree = {1} /\ 1 \in DOMAIN shelter
<1>1. 1 \in DOMAIN shelter /\ shelter # <<>>
  <2>1. 1 \in 1..sqrt_m
    BY Numbers
  <2> QED
    BY <2>1, SlotContent
<1>2. shelter[1] = FreeSlot
  BY <1>1 DEF IInv, ShelterInv, Scanned, FirstTaken
<1>3. DOMAIN shelter \subseteq Nat \ {0}
  BY DEF IInv, TypeOK
<1>4. \A j : j \in 1..(1 - 1) => FALSE
  OBVIOUS
<1>5. 1 \in FirstFree
  BY <1>1, <1>2, <1>4 DEF FirstFree
<1>6. ASSUME NEW i \in FirstFree PROVE i = 1
  <2>1. i \in DOMAIN shelter /\ \A j \in 1..(i - 1) : shelter[j] # FreeSlot
    BY DEF FirstFree
  <2>2. i # 1 => 1 \in 1..(i - 1)
    BY <1>3, <2>1
  <2> QED
    BY <1>2, <2>1, <2>2
<1> QED
  BY <1>1, <1>5, <1>6

LEMMA WriteBlockStep ==
    ASSUME IInv, NEW outcome \in Outcomes, WriteBlock(outcome)
    PROVE  IInv'
<1> DEFINE Written == [tag |-> position, content |-> {Outgoing}]
           ok == outcome = "answered" /\ ~panicked'
<1>1. /\ pc = "write" /\ Rpc(outcome) /\ buffer' = Cipher
      /\ registered' = registered /\ main_memory' = main_memory /\ dummy' = dummy
      /\ is_initialized' = is_initialized /\ position_map' = position_map
      /\ diverged' = diverged
  BY DEF WriteBlock
<1>2. /\ panicked' = panicked
      /\ shelter' = IF Executed(outcome) THEN [shelter EXCEPT ![1] = Written] ELSE shelter
  BY <1>1, FirstIsFree DEF WriteBlock
<1>3. \/ /\ outcome # "answered" /\ call.op = "kWrite" /\ Finished
         /\ pc' = "idle" /\ status' = "kServerError"
         /\ counter' = counter /\ next_dummy' = next_dummy /\ latest' = latest
      \/ /\ latest' = IF call.op = "kRead" THEN latest
                      ELSE [latest EXCEPT ![call.address] = buffer]
         /\ PermuteOnFull
  <2>1. outcome = "answered" => ~panicked
    BY <1>1, RpcCount
  <2> QED
    BY <1>2, <2>1 DEF WriteBlock, Return
<1>4. PermuteOnFull =>
        \/ /\ pc' = "permute" /\ counter' = 0 /\ next_dummy' = 0
           /\ status' = status /\ Finished
        \/ /\ counter + 1 # sqrt_m /\ counter' = counter + 1 /\ next_dummy' = next_dummy
           /\ pc' = "idle" /\ status' = "kOK" /\ Finished
  BY DEF PermuteOnFull, Return
<1>b. /\ slot' = 0 /\ in_shelter' = FALSE /\ call' = NoCall /\ block' = NoBlock
      /\ ~panicked
  BY <1>1, <1>3, <1>4 DEF Finished, IInv, Dummies, EndOfServer
<1>5. /\ counter \in Nat /\ counter <= sqrt_m - 1 /\ sqrt_m \in Nat \ {0}
      /\ next_dummy \in Nat /\ faults \in Nat /\ faults' \in Nat /\ faults' >= faults
      /\ faults' \in 0..MaxFaults
  BY <1>1, RpcCount, Numbers DEF IInv, TypeOK
<1>6. /\ Outgoing \in Block /\ (~diverged => Outgoing.id = call.address)
      /\ position \in Ids /\ call.address \in Ids
      /\ call.op \in {"kRead", "kWrite"} /\ (call.op = "kWrite" => buffer \in Val)
  <2>1. position \in Ids /\ call.address \in Ids
    BY <1>1, AtPosition
  <2>2. /\ block \in Block /\ (~diverged => block.id = call.address)
        /\ call.op \in {"kRead", "kWrite"} /\ (call.op = "kWrite" => buffer \in Val)
        /\ buffer \in Val \cup {Nonsense, Cipher}
    BY <1>1 DEF IInv, TypeOK, Fetched
  <2>3. CASE call.op = "kRead"
    BY <2>1, <2>2, <2>3 DEF Outgoing
  <2>4. CASE call.op # "kRead"
    <3>1. Outgoing = [id |-> call.address, type |-> "kNormal", data |-> buffer]
      BY <2>4 DEF Outgoing
    <3> QED
      BY <2>1, <2>2, <3>1 DEF Block, Types
  <2> QED
    BY <2>1, <2>2, <2>3, <2>4
<1>7. Taken(Written) /\ Written \in Slots /\ Written # FreeSlot
  BY <1>6, SlotKinds DEF Taken
<1>8. 1 \in DOMAIN shelter
  BY <1>1, FirstIsFree
<1>9. shelter' \in Seq(Slots) /\ Len(shelter') = Len(shelter)
  BY <1>2, <1>7, <1>8 DEF IInv, TypeOK
<1>10. /\ DOMAIN shelter' = DOMAIN shelter
       /\ \A i \in DOMAIN shelter' : shelter'[i] = shelter[i] \/ (i = 1 /\ shelter'[i] = Written)
       /\ shelter' = shelter \/ Executed(outcome)
  <2>1. CASE Executed(outcome)
    BY <1>2, <1>8, <2>1 DEF IInv, TypeOK
  <2>2. CASE ~Executed(outcome)
    BY <1>2, <2>2
  <2> QED
    BY <2>1, <2>2
<1> HIDE DEF Written, ok
<1>11. ~FirstTaken
  BY <1>1 DEF IInv, ShelterInv, Scanned
<1>12. TypeOK'
  <2>1. counter' \in 0..(sqrt_m - 1) /\ next_dummy' \in Nat
    <3>1. counter + 1 # sqrt_m => counter + 1 \in 0..(sqrt_m - 1)
      BY <1>5
    <3>2. counter \in 0..(sqrt_m - 1) /\ 0 \in 0..(sqrt_m - 1)
      BY <1>5
    <3> QED
      BY <1>3, <1>4, <1>5, <3>1, <3>2
  <2>2. /\ pc' \in {"idle", "permute"} /\ slot' \in 0..(sqrt_m - 1)
        /\ status' \in {"none", "kOK", "kServerError", "kInvalidOperation",
                        "kInvalidArgument", "kUnknownError"}
    BY <1>3, <1>4, <1>b, Numbers DEF IInv, TypeOK
  <2>3. /\ in_shelter' \in BOOLEAN /\ block' \in Block
        /\ call' \in [op : {"kRead", "kWrite"}, address : Ids]
    BY <1>b, NoAccess
  <2>4. latest' \in [Ids -> Val \cup {Nonsense}]
    <3>1. latest \in [Ids -> Val \cup {Nonsense}]
      BY DEF IInv, TypeOK
    <3>2. call.op # "kRead" => buffer \in Val \cup {Nonsense}
      BY <1>6
    <3> QED
      BY <1>3, <1>6, <3>1, <3>2
  <2> QED
    BY <1>1, <1>2, <1>5, <1>9, <2>1, <2>2, <2>3, <2>4 DEF IInv, TypeOK
<1>13. Sizes'
  <2>1. is_initialized
    BY <1>1 DEF IInv, Sizes
  <2> QED
    BY <1>1, <1>9, <2>1 DEF IInv, Sizes
<1>14. ShelterInv'
  <2>1. \A i \in DOMAIN shelter' :
          shelter'[i] = FreeSlot \/ (i = 1 /\ Taken(shelter'[i]))
    BY <1>7, <1>10, Zenon DEF IInv, ShelterInv
  <2>2. ~Scanned'
    BY <1>3, <1>4 DEF Scanned
  <2> QED
    BY <2>1, <2>2 DEF ShelterInv
<1>15. Dummies'
  <2>1. FirstTaken' => Executed(outcome)
    BY <1>10, <1>11 DEF FirstTaken
  <2>2. ~panicked'
    BY <1>2, <1>b
  <2>3. next_dummy <= counter + faults
    BY DEF IInv, Dummies
  <2>4. CASE outcome # "answered" /\ counter' = counter /\ next_dummy' = next_dummy
             /\ pc' = "idle"
    <3>1. next_dummy <= counter + faults'
      BY <1>5, <2>3, Slack
    <3>2. FirstTaken' => faults' = faults + 1
      BY <1>1, <2>1, <2>4, RpcCount DEF Executed
    <3>3. FirstTaken' => next_dummy < counter + faults'
      BY <1>5, <2>3, <3>2
    <3> QED
      BY <1>b, <2>2, <2>4, <3>1, <3>3 DEF Dummies
  <2>5. CASE pc' = "permute" /\ counter' = 0 /\ next_dummy' = 0
    <3>1. 0 <= 0 + faults'
      BY <1>5, NoneUsed
    <3> QED
      BY <2>2, <2>5, <3>1 DEF Dummies
  <2>6. CASE counter' = counter + 1 /\ next_dummy' = next_dummy /\ pc' = "idle"
    <3>1. next_dummy < (counter + 1) + faults'
      BY <1>5, <2>3, Slack
    <3>2. next_dummy <= (counter + 1) + faults'
      BY <1>5, <2>3, Slack
    <3> QED
      BY <2>2, <2>6, <3>1, <3>2 DEF Dummies
  <2> QED
    BY <1>3, <1>4, <2>4, <2>5, <2>6
<1>16. Fetched'
  BY <1>1, <1>3, <1>4, <1>b, NoAccess DEF IInv, Fetched
<1>17. PositionsAgree'
  <2> SUFFICES ASSUME is_initialized, ~diverged PROVE PositionsAgree'
    BY <1>1 DEF PositionsAgree
  <2>1. \A a \in Ids : BlockAt(position_map[a])' = BlockAt(position_map[a])
    BY <1>1 DEF BlockAt
  <2>2. \A b \in Written.content : Written.tag = position_map[b.id]
    BY <1>6 DEF Written, position
  <2>3. \A i \in DOMAIN shelter : \A b \in shelter[i].content :
          shelter[i].tag = position_map[b.id]
    BY DEF IInv, PositionsAgree
  <2>4. \A i \in DOMAIN shelter' : \A b \in shelter'[i].content :
          shelter'[i].tag = position_map[b.id]
    BY <1>10, <2>2, <2>3, Zenon
  <2> QED
    BY <1>1, <2>1, <2>4 DEF IInv, PositionsAgree
<1> QED
  BY <1>12, <1>13, <1>14, <1>15, <1>16, <1>17 DEF IInv

\* The slot that carries a position is the first one, and what the server writes
\* back there is its block.
LEMMA FlushedAt ==
    ASSUME IInv, pc = "permute", Len(main_memory) + Len(dummy) = N, NEW p \in Ids
    PROVE  /\ Flushed[p] \in Block
           /\ \/ Flushed[p] = BlockAt(p)
              \/ \E i \in DOMAIN shelter :
                    shelter[i].tag = p /\ Flushed[p] \in shelter[i].content
<1> DEFINE updates == {i \in DOMAIN shelter : shelter[i].tag = p}
           first == CHOOSE i \in updates : \A j \in updates : j <= i
           found == CHOOSE b \in shelter[first].content : TRUE
<1>1. Flushed[p] = IF updates = {} THEN BlockAt(p) ELSE found
  <2>1. p \in 0..(Len(main_memory) + Len(dummy) - 1)
    BY DEF Ids
  <2> QED
    BY <2>1 DEF Flushed
<1>2. BlockAt(p) \in Block
  <2>1. Len(main_memory) + Len(dummy) >= N
    BY Numbers
  <2> QED
    BY <2>1, Position DEF IInv, TypeOK
<1>3. ASSUME updates # {}
      PROVE  found \in Block /\ first \in updates /\ found \in shelter[first].content
  <2>1. p # -1 /\ FreeSlot.tag = -1
    BY DEF Ids, FreeSlot
  <2>2. \A i \in updates : i = 1 /\ Taken(shelter[i])
    BY <2>1 DEF IInv, ShelterInv
  <2>3. 1 \in updates /\ \A j \in updates : j <= 1
    BY <1>3, <2>2
  <2>4. first \in updates
    BY <2>3
  <2>5. PICK q \in Ids, b \in Block : shelter[first] = [tag |-> q, content |-> {b}]
    BY <2>2, <2>4, Zenon DEF Taken
  <2>6. shelter[first].content = {b}
    BY <2>5
  <2>7. found = b
    BY <2>6
  <2> QED
    BY <2>4, <2>6, <2>7
<1> HIDE DEF found, first
<1> QED
  BY <1>1, <1>2, <1>3

LEMMA DoPermuteStep ==
    ASSUME IInv, NEW outcome \in Outcomes, NEW perm \in Permutations,
           DoPermute(perm, outcome)
    PROVE  IInv'
<1> DEFINE arr == PermuteBy(perm, Flushed)
<1>1. /\ pc = "permute" /\ Rpc(outcome) /\ registered' = registered
      /\ is_initialized' = is_initialized /\ next_dummy' = next_dummy
      /\ counter' = counter /\ call' = NoCall /\ block' = NoBlock
      /\ buffer' = buffer /\ latest' = latest
      /\ pc' = "idle" /\ slot' = 0 /\ in_shelter' = FALSE /\ ~panicked
  BY DEF DoPermute, Return, Finished, IInv, Dummies, EndOfServer
<1>2. \/ /\ ~Executed(outcome)
         /\ main_memory' = main_memory /\ dummy' = dummy /\ shelter' = shelter
         /\ panicked' = panicked
      \/ /\ Executed(outcome) /\ Len(main_memory) + Len(dummy) # N
         /\ panicked' = TRUE
         /\ main_memory' = main_memory /\ dummy' = dummy /\ shelter' = shelter
      \/ /\ Executed(outcome) /\ Len(main_memory) + Len(dummy) = N
         /\ panicked' = panicked
         /\ main_memory' = [p \in DOMAIN main_memory |-> arr[p - 1]]
         /\ dummy' = [p \in DOMAIN dummy |-> arr[Len(main_memory) + p - 1]]
         /\ shelter' = [i \in DOMAIN shelter |-> FreeSlot]
  BY DEF DoPermute
<1>3. \/ /\ outcome = "answered" /\ ~panicked' /\ status' = "kOK"
         /\ position_map' = UpdatePosition(perm) /\ diverged' = diverged
      \/ /\ outcome # "answered" \/ panicked'
         /\ status' = "kServerError" /\ position_map' = position_map
         /\ diverged' = (diverged \/ Executed(outcome))
  BY DEF DoPermute, Return
<1> HIDE DEF arr
<1>4. /\ is_initialized /\ position_map \in Permutations
      /\ Len(main_memory) >= block_num /\ Len(dummy) >= sqrt_m /\ Len(shelter) >= sqrt_m
      /\ ~diverged => Len(main_memory) = block_num /\ Len(dummy) = sqrt_m
  BY <1>1 DEF IInv, Sizes
<1>5. /\ main_memory \in Seq(Block) /\ dummy \in Seq(Block) /\ shelter \in Seq(Slots)
      /\ Len(main_memory) \in Nat /\ Len(dummy) \in Nat /\ Len(shelter) \in Nat
      /\ faults \in Nat /\ faults' \in Nat /\ faults' \in 0..MaxFaults /\ faults' >= faults
      /\ diverged \in BOOLEAN /\ panicked \in BOOLEAN
  BY <1>1, RpcCount DEF IInv, TypeOK
<1>6. /\ UpdatePosition(perm) \in Permutations
      /\ \A a \in Ids : UpdatePosition(perm)[a] = perm[position_map[a]]
  BY <1>4, Updated
<1>7. ASSUME Executed(outcome), Len(main_memory) + Len(dummy) = N
      PROVE  /\ Len(main_memory) = block_num /\ Len(dummy) = sqrt_m
             /\ main_memory' = [p \in 1..block_num |-> arr[p - 1]]
             /\ dummy' = [p \in 1..sqrt_m |-> arr[block_num + p - 1]]
             /\ main_memory' \in Seq(Block) /\ dummy' \in Seq(Block)
             /\ Len(main_memory') = block_num /\ Len(dummy') = sqrt_m
             /\ shelter' \in Seq(Slots) /\ Len(shelter') = Len(shelter)
             /\ \A i \in DOMAIN shelter' : shelter'[i] = FreeSlot
             /\ \A p \in Ids : \E i \in Ids : perm[i] = p /\ arr[p] = Flushed[i]
  <2>1. Len(main_memory) = block_num /\ Len(dummy) = sqrt_m
    BY <1>4, <1>5, <1>7, Numbers DEF N
  <2>2. DOMAIN main_memory = 1..block_num /\ DOMAIN dummy = 1..sqrt_m
        /\ DOMAIN shelter = 1..Len(shelter)
    BY <1>5, <2>1
  <2>3. /\ main_memory' = [p \in 1..block_num |-> arr[p - 1]]
        /\ dummy' = [p \in 1..sqrt_m |-> arr[block_num + p - 1]]
        /\ shelter' = [i \in 1..Len(shelter) |-> FreeSlot]
    BY <1>2, <1>7, <2>1, <2>2
  <2>4. \A p \in Ids : \E i \in Ids : perm[i] = p /\ arr[p] = Flushed[i]
    BY Permuted DEF arr
  <2>5. \A p \in Ids : arr[p] \in Block
    BY <1>1, <1>7, <2>4, FlushedAt
  <2>6. \A p \in 1..block_num : p - 1 \in Ids
    BY Numbers DEF Ids, N
  <2>7. \A p \in 1..sqrt_m : block_num + p - 1 \in Ids
    BY Numbers DEF Ids, N
  <2>8. main_memory' \in [1..block_num -> Block]
    BY <2>3, <2>5, <2>6
  <2>9. dummy' \in [1..sqrt_m -> Block]
    BY <2>3, <2>5, <2>7
  <2>10. shelter' \in [1..Len(shelter) -> Slots] /\ \A i \in DOMAIN shelter' : shelter'[i] = FreeSlot
    BY <2>3, SlotKinds
  <2>11. main_memory' \in Seq(Block) /\ Len(main_memory') = block_num
    BY <2>8, MakeSeq, Numbers
  <2>12. dummy' \in Seq(Block) /\ Len(dummy') = sqrt_m
    BY <2>9, MakeSeq, Numbers
  <2>13. shelter' \in Seq(Slots) /\ Len(shelter') = Len(shelter)
    BY <1>5, <2>10, MakeSeq
  <2> QED
    BY <2>1, <2>3, <2>4, <2>10, <2>11, <2>12, <2>13
<1>8. /\ main_memory' \in Seq(Block) /\ dummy' \in Seq(Block) /\ shelter' \in Seq(Slots)
      /\ Len(main_memory') = Len(main_memory) /\ Len(dummy') = Len(dummy)
      /\ Len(shelter') = Len(shelter)
      /\ shelter' = shelter \/ \A i \in DOMAIN shelter' : shelter'[i] = FreeSlot
  <2>1. CASE Executed(outcome) /\ Len(main_memory) + Len(dummy) = N
    BY <1>7, <2>1
  <2>2. CASE ~(Executed(outcome) /\ Len(main_memory) + Len(dummy) = N)
    BY <1>2, <1>5, <2>2
  <2> QED
    BY <2>1, <2>2
<1>9. /\ diverged' \in BOOLEAN /\ panicked' \in BOOLEAN
      /\ diverged' \/ ~diverged
      /\ position_map' \in Permutations
  BY <1>2, <1>3, <1>4, <1>5, <1>6
<1>10. TypeOK'
  <2>1. slot' \in 0..(sqrt_m - 1)
    BY <1>1, Numbers
  <2>2. status' \in {"kOK", "kServerError"}
    BY <1>3
  <2>3. /\ pc' \in {"idle"} /\ in_shelter' \in BOOLEAN /\ block' \in Block
        /\ call' \in [op : {"kRead", "kWrite"}, address : Ids]
    BY <1>1, NoAccess
  <2> QED
    BY <1>1, <1>5, <1>8, <1>9, <2>1, <2>2, <2>3 DEF IInv, TypeOK
<1>11. Sizes'
  BY <1>1, <1>4, <1>8, <1>9 DEF Sizes
<1>12. ShelterInv'
  <2>1. \A i \in DOMAIN shelter' :
          shelter'[i] = FreeSlot \/ (i = 1 /\ Taken(shelter'[i]))
    BY <1>8 DEF IInv, ShelterInv
  <2>2. ~Scanned'
    BY <1>1 DEF Scanned
  <2> QED
    BY <2>1, <2>2 DEF ShelterInv
<1>13. Dummies'
  <2>1. next_dummy' = 0 /\ counter' = 0
    BY <1>1 DEF IInv, Dummies
  <2>2. ASSUME panicked' PROVE EndOfServer'
    <3>1. Executed(outcome) /\ Len(main_memory) + Len(dummy) # N
      BY <1>1, <1>2, <2>2
    <3>2. diverged' = TRUE
      BY <1>3, <2>2, <3>1
    <3>3. Len(main_memory) + Len(dummy) > N
      BY <1>4, <1>5, <3>1, Numbers DEF N
    <3>4. Len(main_memory') + Len(dummy') > N
      BY <1>8, <3>3
    <3> QED
      BY <1>1, <3>2, <3>4 DEF EndOfServer
  <2>3. ~panicked' /\ FirstTaken' => faults' >= 1
    <3>1. CASE Executed(outcome) /\ Len(main_memory) + Len(dummy) = N
      <4>1. 1 \in DOMAIN shelter'
        BY <1>4, <1>5, <1>8, Numbers
      <4> QED
        BY <1>7, <3>1, <4>1 DEF FirstTaken
    <3>2. CASE ~Executed(outcome)
      <4>1. faults' = faults + 1
        BY <1>1, <3>2, RpcCount DEF Executed
      <4> QED
        BY <1>5, <4>1
    <3>3. CASE Executed(outcome) /\ Len(main_memory) + Len(dummy) # N
      BY <1>2, <3>3
    <3> QED
      BY <3>1, <3>2, <3>3
  <2>4. 0 <= 0 + faults' /\ (faults' >= 1 => 0 < 0 + faults')
    BY <1>5, NoneUsed
  <2> QED
    BY <1>1, <2>1, <2>2, <2>3, <2>4 DEF Dummies
<1>14. Fetched'
  BY <1>1, <1>3, NoAccess DEF IInv, Fetched
<1>15. PositionsAgree'
  <2> SUFFICES ASSUME ~diverged' PROVE PositionsAgree'
    BY DEF PositionsAgree
  <2>1. ~diverged
    BY <1>9
  <2>2. /\ \A a \in Ids : BlockAt(position_map[a]).id = a
        /\ \A i \in DOMAIN shelter : \A b \in shelter[i].content :
              shelter[i].tag = position_map[b.id]
    BY <1>4, <2>1 DEF IInv, PositionsAgree
  <2>3. CASE ~Executed(outcome)
    <3>1. /\ main_memory' = main_memory /\ dummy' = dummy /\ shelter' = shelter
          /\ position_map' = position_map
      BY <1>2, <1>3, <2>3 DEF Executed
    <3> QED
      BY <2>2, <3>1 DEF PositionsAgree, BlockAt
  <2>4. CASE Executed(outcome)
    <3>1. Len(main_memory) + Len(dummy) = N
      BY <1>4, <2>1 DEF N
    <3>2. position_map' = UpdatePosition(perm)
      BY <1>3, <2>4
    <3>3. ASSUME NEW a \in Ids PROVE Flushed[position_map[a]].id = a
      <4>1. position_map[a] \in Ids
        BY <1>4 DEF Permutations
      <4>2. CASE Flushed[position_map[a]] = BlockAt(position_map[a])
        BY <2>2, <4>2
      <4>3. ASSUME NEW i \in DOMAIN shelter, shelter[i].tag = position_map[a],
                   Flushed[position_map[a]] \in shelter[i].content
            PROVE  Flushed[position_map[a]].id = a
        <5> DEFINE b == Flushed[position_map[a]]
        <5>1. b \in Block
          BY <1>1, <3>1, <4>1, FlushedAt
        <5>2. position_map[a] = position_map[b.id]
          BY <2>2, <4>3
        <5>3. b.id \in Ids
          BY <5>1 DEF Block
        <5> HIDE DEF b
        <5>4. b.id = a
          BY <1>4, <5>2, <5>3 DEF Permutations
        <5> QED
          BY <5>4 DEF b
      <4> QED
        BY <1>1, <3>1, <4>1, <4>2, <4>3, FlushedAt
    <3>4. \A a \in Ids : position_map[a] \in Ids /\ perm[position_map[a]] \in Ids
      BY <1>4 DEF Permutations
    <3>5. \A i \in Ids : arr[perm[i]] = Flushed[i]
      BY Permuted DEF arr
    <3>6. \A p \in Ids : BlockAt(p)' = arr[p]
      BY <1>7, <2>4, <3>1, Layout
    <3>7. \A a \in Ids : BlockAt(position_map[a])' = Flushed[position_map[a]]
      <4> SUFFICES ASSUME NEW a \in Ids
                   PROVE  BlockAt(position_map[a])' = Flushed[position_map[a]]
        OBVIOUS
      <4>1. position_map'[a] = perm[position_map[a]] /\ position_map'[a] \in Ids
        BY <1>6, <3>2, <3>4
      <4>2. BlockAt(position_map[a])' = arr[position_map'[a]]
        BY <3>6, <4>1 DEF BlockAt
      <4> QED
        BY <3>4, <3>5, <4>1, <4>2
    <3>8. \A i \in DOMAIN shelter' : shelter'[i].content = {}
      BY <1>7, <2>4, <3>1 DEF FreeSlot
    <3> QED
      BY <3>3, <3>7, <3>8 DEF PositionsAgree
  <2> QED
    BY <2>3, <2>4
<1> QED
  BY <1>10, <1>11, <1>12, <1>13, <1>14, <1>15 DEF IInv

-------------------------------------------------------------------------------
(* The theorems. *)

LEMMA NextStep ==
    ASSUME IInv, [Next]_vars
    PROVE  IInv'
<1>1. CASE UNCHANGED vars
  BY <1>1 DEF vars, IInv, TypeOK, Sizes, ShelterInv, Dummies, EndOfServer,
     Fetched, PositionsAgree, FirstTaken, Scanned, BlockAt
<1>2. ASSUME NEW outcome \in Outcomes, NEW n \in DataSizes, NEW v \in Val,
             NEW perm \in Shuffles, FillWithData(n, v, perm, outcome)
      PROVE  IInv'
  <2>1. perm \in Permutations
    BY ShuffleAssumption
  <2> QED
    BY <1>2, <2>1, FillWithDataStep
<1>3. ASSUME NEW outcome \in Outcomes, NEW perm \in Shuffles, DoPermute(perm, outcome)
      PROVE  IInv'
  <2>1. perm \in Permutations
    BY ShuffleAssumption
  <2> QED
    BY <1>3, <2>1, DoPermuteStep
<1>4. CASE AccessNotInitialized \/ AccessUnknownAddress(N)
  BY <1>4, RefuseStep DEF AccessNotInitialized, AccessUnknownAddress
<1>5. ASSUME NEW a \in Ids, Access("kRead", a, Nonsense) PROVE IInv'
  BY <1>5, AccessStep
<1>6. ASSUME NEW a \in Ids, NEW v \in Val, Access("kWrite", a, v) PROVE IInv'
  BY <1>6, AccessStep
<1> QED
  BY <1>1, <1>2, <1>3, <1>4, <1>5, <1>6, InitOramStep, ReadShelterStep,
     ReadDummyStep, ReadMainStep, WriteBlockStep
  DEF Next, Call, Step

\* The invariant holds in every state that can be reached.
THEOREM Invariance == Spec => []IInv
<1>1. Init => IInv
  BY InitInv
<1>2. IInv /\ [Next]_vars => IInv'
  BY NextStep
<1> QED
  BY <1>1, <1>2, PTL DEF Spec

\* Every variable keeps its type.
THEOREM TypeCorrect == Spec => []TypeOK
<1>1. IInv => TypeOK
  BY DEF IInv
<1> QED
  BY <1>1, Invariance, PTL

\* UpdatePosition composes the permutations the way the server applies them, and
\* a block that is written back is found again by the next permutation.
THEOREM PositionsAgreeSafe == Spec => []PositionsAgree
<1>1. IInv => PositionsAgree
  BY DEF IInv
<1> QED
  BY <1>1, Invariance, PTL

\* When the write-back of an access looks for a slot the scan has emptied every
\* one it looks at, and no two slots are taken at the same time.
THEOREM ShelterDrainedSafe == Spec => []ShelterDrained
<1>1. IInv => ShelterDrained
  <2> SUFFICES ASSUME IInv PROVE ShelterDrained
    OBVIOUS
  <2>1. ASSUME pc \in {"fetch", "write"}, NEW i \in 1..sqrt_m
        PROVE  shelter[i] = FreeSlot
    <3>1. i \in DOMAIN shelter /\ shelter # <<>>
      BY <2>1, SlotContent
    <3>2. ~FirstTaken
      BY <2>1 DEF IInv, ShelterInv, Scanned
    <3> QED
      BY <3>1, <3>2 DEF IInv, ShelterInv, FirstTaken
  <2> DEFINE taken == {i \in DOMAIN shelter : shelter[i] # FreeSlot}
  <2>2. taken \in SUBSET {1}
    BY DEF IInv, ShelterInv
  <2>3. IsFiniteSet({1}) /\ Cardinality({1}) = 1
    BY FS_Singleton
  <2> HIDE DEF taken
  <2>4. Cardinality(taken) <= 1
    BY <2>2, <2>3, FS_Subset
  <2> QED
    BY <2>1, <2>4 DEF ShelterDrained, taken
<1> QED
  BY <1>1, Invariance, PTL

\* The checks of both sides hold: the id of a block that is fetched, the dummy
\* that is read; with at most one failed RPC the server stays up unless the two
\* sides have diverged, and with none it ends only after a memory filled again.
THEOREM NoPanicSafe == Spec => []NoPanic
<1>1. IInv => NoPanic
  <2> SUFFICES ASSUME IInv PROVE NoPanic
    OBVIOUS
  <2>1. /\ next_dummy \in Nat /\ counter \in Nat /\ faults \in Nat
        /\ sqrt_m \in Nat
    BY Numbers DEF IInv, TypeOK
  <2>2. ASSUME ~diverged, pc = "fetch", in_shelter, counter + faults <= sqrt_m
        PROVE  next_dummy < Len(dummy)
    <3>1. Len(dummy) = sqrt_m
      BY <2>2 DEF IInv, Sizes
    <3>2. next_dummy < counter + faults
      BY <2>2 DEF IInv, Dummies, EndOfServer
    <3> QED
      BY <2>1, <2>2, <3>1, <3>2
  <2>3. ASSUME ~diverged, faults <= 1 PROVE ~panicked
    BY <2>1, <2>3 DEF IInv, Dummies, EndOfServer
  <2>4. ASSUME panicked, faults = 0 PROVE Len(main_memory) + Len(dummy) > N
    BY <2>4 DEF IInv, Dummies, EndOfServer
  <2> QED
    BY <2>2, <2>3, <2>4 DEF NoPanic, IInv, Dummies, Fetched
<1> QED
  BY <1>1, Invariance, PTL
===============================================================================
