------------------------------- MODULE PathOram -------------------------------
(***************************************************************************)
(* The Path ORAM controller (core/path_oram_controller) and the tree it    *)
(* keeps on the server (server/tree_oram_storage).  The controller is a    *)
(* synchronous client: one step of this module is one RPC of it, with the  *)
(* handler the server runs for it, or the work between two RPCs.  An RPC   *)
(* may fail before the handler runs or after it ran (the reply is lost);   *)
(* the controller cannot tell which.                                       *)
(*                                                                         *)
(* A block is its id and its contents.  The padding of a bucket is left    *)
(* out: it is read and thrown away.  The order of a bucket and of the      *)
(* stash is left out, so which blocks FindSubsetOf takes when more than    *)
(* bucket_size fit is a choice.                                            *)
(***************************************************************************)
EXTENDS Integers, Sequences, FiniteSets

CONSTANTS
    Addr,         \* block ids
    Val,          \* block contents
    NoVal,        \* a buffer that was not filled
    Pad,          \* an entry of the input that is not of type kNormal
    block_num,    \* blocks the controller is built for
    bucket_size,  \* blocks per bucket
    Standalone,   \* FALSE: a building block of the Partition ORAM
    DataVectors,  \* the inputs FillWithData may be given
    MaxFaults     \* bound: RPCs that fail

Block == [id : Addr, data : Val]

DistinctIds(d) ==
    \A i, j \in DOMAIN d :
        d[i] # Pad /\ d[j] # Pad /\ d[i].id = d[j].id => i = j

ASSUME ConstantsAssumption ==
    /\ Addr # {}
    /\ NoVal \notin Val
    /\ Pad \notin Block
    /\ block_num \in Nat \ {0}
    /\ bucket_size \in Nat \ {0}
    /\ Standalone \in BOOLEAN
    /\ MaxFaults \in Nat
    /\ \A d \in DataVectors : d \in Seq(Block \cup {Pad}) /\ DistinctIds(d)

-------------------------------------------------------------------------------
(* The shape of the tree. *)

\* ceil(log2(n + 1)) - 1, the height of the smallest full tree of n nodes.
TreeHeight(n) ==
    CHOOSE k \in 0..n : 2^(k+1) >= n + 1 /\ \A j \in 0..(k-1) : 2^(j+1) < n + 1

bucket_num == (block_num + bucket_size - 1) \div bucket_size
tree_level == TreeHeight(bucket_num)
number_of_leafs == 2^tree_level

\* The server builds its tree from the number of leaves InitOram sends.
server_level == TreeHeight(number_of_leafs)

\* The powers of two in a tree of this height, and the server's height.
ASSUME TreeAssumption ==
    /\ tree_level \in Nat
    /\ server_level = tree_level
    /\ 2^0 = 1
    /\ \A l \in 0..tree_level :
          /\ 2^l \in Nat \ {0} /\ 2^(l + 1) = 2 * 2^l
          /\ 2^tree_level = 2^l * 2^(tree_level - l)

Levels == 0..tree_level
Leaves == 0..(number_of_leafs - 1)
Tags == {t \in Levels \X Leaves : t[2] < 2^t[1]}
Capacity == (2^(tree_level + 1) - 1) * bucket_size

\* The bucket of a path at a level, as ReadPath and WritePath compute it.
Offset(path, l) == path \div 2^(server_level - l)
Tag(path, l) == <<l, Offset(path, l)>>

-------------------------------------------------------------------------------
VARIABLES
    registered,       \* server: storages_ has this ORAM's id
    storage,          \* server: the buckets, by level and offset
    is_initialized,   \* controller
    position_map,     \* controller; an absent entry reads as 0
    stash,            \* controller
    pc,               \* where the controller is
    call,             \* arguments of the access in progress, or of the last
    buffer,           \* the caller's data block
    x,                \* the path being read and written
    level,            \* loop variable of all the loops over levels
    offset,           \* loop variable of FillWithData
    p_data,           \* loop variable of FillWithData
    bucket_this_path, \* the blocks read so far
    input,            \* argument of FillWithData
    status,           \* answer to the last call, "none" during one
    faults,           \* how many RPCs failed
    displaced         \* ghost: addresses remapped by an access whose read failed

server_vars == <<registered, storage>>
fill_vars == <<offset, p_data, input>>
vars == <<registered, storage, is_initialized, position_map, stash, pc, call,
          buffer, x, level, offset, p_data, bucket_this_path, input, status,
          faults, displaced>>

Calls == [op : {"kRead", "kWrite"}, address : Addr,
          dummy : BOOLEAN, direct : BOOLEAN]

Init ==
    /\ registered = FALSE
    /\ storage = [t \in Tags |-> {}]
    /\ is_initialized = FALSE
    /\ position_map = [a \in Addr |-> 0]
    /\ stash = {}
    /\ pc = "idle"
    /\ call = [op |-> "kRead", address |-> CHOOSE a \in Addr : TRUE,
               dummy |-> FALSE, direct |-> FALSE]
    /\ buffer = NoVal
    /\ x = 0
    /\ level = 0
    /\ offset = 0
    /\ p_data = 0
    /\ bucket_this_path = {}
    /\ input = <<>>
    /\ status = "none"
    /\ faults = 0
    /\ displaced = {}

-------------------------------------------------------------------------------
(* RPCs. *)

Outcomes == {"answered", "request_lost", "reply_lost"}

\* How an RPC goes; a failure counts against the bound.
Rpc(outcome) ==
    \/ outcome = "answered" /\ UNCHANGED faults
    \/ /\ outcome # "answered"
       /\ faults < MaxFaults
       /\ faults' = faults + 1

\* The handler of the RPC ran, whether or not the controller learns of it.
Executed(outcome) == outcome # "request_lost"

\* The end of a call: its local variables are gone.
Return(s) ==
    /\ pc' = "idle"
    /\ status' = s
    /\ x' = 0
    /\ level' = 0
    /\ bucket_this_path' = {}

-------------------------------------------------------------------------------
(* Setting up. *)

\* CheckInitRequest turns the id down when it is already registered.
InitOram(outcome) ==
    /\ pc = "idle"
    /\ Rpc(outcome)
    /\ registered' = (registered \/ Executed(outcome))
    /\ status' = IF outcome = "answered" /\ ~registered THEN "kOK"
                 ELSE "kServerError"
    /\ UNCHANGED <<storage, is_initialized, position_map, stash, pc, call,
                   buffer, x, level, bucket_this_path, displaced>>
    /\ UNCHANGED fill_vars

\* A controller is filled once, by its owner, before it is used.
FillWithData(d) ==
    /\ pc = "idle"
    /\ ~is_initialized
    /\ input' = d
    /\ p_data' = 0
    /\ level' = tree_level
    /\ offset' = 0
    /\ pc' = "fill"
    /\ status' = "none"
    /\ UNCHANGED <<is_initialized, position_map, stash, call, buffer, x,
                   bucket_this_path, faults, displaced>>
    /\ UNCHANGED server_vars

\* The kNormal entries among the next bucket_size ones of the input.
NextEntries ==
    {input[i] : i \in {k \in DOMAIN input :
                          /\ p_data < k /\ k <= p_data + bucket_size
                          /\ input[k] # Pad}}

\* Mutants of Span: the last path of the next bucket included; any path.
SpanOffByOne == LET span == 2^(tree_level - level)
                IN  (offset * span)..(offset * span + span)
SpanAnyLeaf == Leaves

\* The paths that cross bucket <<level, offset>>.
Span == LET span == 2^(tree_level - level)
        IN  (offset * span)..(offset * span + span - 1)

\* Mutant of Min2: the input starts over when it is exhausted.
Min2Wraps(m, n) == IF m < n THEN m ELSE 0

\* Where the fill loop is in the input after a bucket.
Min2(m, n) == IF m < n THEN m ELSE n

\* AccurateWritePath with type kInit: nothing is cleared first.
Appended(t, S) == [storage EXCEPT ![t] = @ \cup S]

\* One iteration of the loops of FillWithData: the bucket is appended to what
\* the server has for it (type kInit).  A failed RPC aborts the process.
AccurateWriteBucket(outcome) ==
    /\ pc = "fill"
    /\ Rpc(outcome)
    /\ \E path \in [{b.id : b \in NextEntries} -> Span] :
          position_map' = [a \in Addr |-> IF a \in DOMAIN path THEN path[a]
                                          ELSE position_map[a]]
    /\ p_data' = Min2(p_data + bucket_size, Len(input))
    /\ storage' = IF registered /\ Executed(outcome)
                  THEN Appended(<<level, offset>>, NextEntries)
                  ELSE storage
    /\ \/ /\ registered /\ outcome = "answered"
          /\ \/ /\ offset + 1 < 2^level
                /\ offset' = offset + 1
                /\ UNCHANGED <<level, pc, is_initialized, status>>
             \/ /\ offset + 1 = 2^level /\ level > 0
                /\ offset' = 0
                /\ level' = level - 1
                /\ UNCHANGED <<pc, is_initialized, status>>
             \/ /\ offset + 1 = 2^level /\ level = 0
                /\ is_initialized' = TRUE
                /\ pc' = "idle"
                /\ status' = "kOK"
                /\ offset' = 0
                /\ UNCHANGED level
       \/ /\ ~(registered /\ outcome = "answered")
          /\ pc' = "aborted"
          /\ UNCHANGED <<level, offset, is_initialized, status>>
    /\ UNCHANGED <<registered, stash, call, buffer, x, bucket_this_path, input,
                   displaced>>

-------------------------------------------------------------------------------
(* An access. *)

\* Both entry points turn a call down until the ORAM has been filled.
NotInitialized ==
    /\ pc = "idle"
    /\ ~is_initialized
    /\ status' = "kInvalidOperation"
    /\ UNCHANGED <<is_initialized, position_map, stash, pc, call, buffer, x,
                   level, bucket_this_path, faults, displaced>>
    /\ UNCHANGED <<server_vars, fill_vars>>

\* InternalAccessDirect begins to read path p into a fresh path buffer.
BeginAccess(c, v, p) ==
    /\ pc = "idle"
    /\ is_initialized
    /\ call' = c
    /\ buffer' = v
    /\ x' = p
    /\ level' = 0
    /\ pc' = "read"
    /\ status' = "none"
    /\ UNCHANGED <<is_initialized, stash, bucket_this_path, faults, displaced>>
    /\ UNCHANGED <<server_vars, fill_vars>>

\* What a caller passes in its data block.
Arguments(op) == IF op = "kWrite" THEN Val ELSE {NoVal}

\* The address is remapped before anything is read.
Access(op, a, v, p) ==
    /\ BeginAccess([op |-> op, address |-> a, dummy |-> FALSE, direct |-> FALSE],
                   v, position_map[a])
    /\ position_map' = [position_map EXCEPT ![a] = p]

\* The caller names the path; it need not be one of the tree.
AccessDirect(op, a, v, p) ==
    /\ BeginAccess([op |-> op, address |-> a, dummy |-> FALSE, direct |-> TRUE],
                   v, p)
    /\ UNCHANGED position_map

\* Only the Partition ORAM makes dummy accesses.
DummyAccess(op, a, v, p) ==
    /\ ~Standalone
    /\ BeginAccess([op |-> op, address |-> a, dummy |-> TRUE, direct |-> FALSE],
                   v, p)
    /\ UNCHANGED position_map

\* Mutant of ReadOutOfRange: the loop goes round again.
ReadOutOfRangeRetried ==
    /\ pc = "read"
    /\ x >= number_of_leafs
    /\ UNCHANGED vars

\* ReadBucket checks its arguments before it calls the server.
ReadOutOfRange ==
    /\ pc = "read"
    /\ x >= number_of_leafs
    /\ Return("kInvalidArgument")
    /\ UNCHANGED <<is_initialized, position_map, stash, call, buffer, faults,
                   displaced>>
    /\ UNCHANGED <<server_vars, fill_vars>>

\* Mutant of Cleared: the server keeps the bucket.
KeptOnServer(t) == storage

\* The server has handed bucket t out and cleared it.
Cleared(t) == [storage EXCEPT ![t] = {}]

\* One iteration of the read loop.  The last bucket of a dummy access ends the
\* call, and the blocks that were read are dropped.
ReadBucket ==
    /\ pc = "read"
    /\ x < number_of_leafs
    /\ Rpc("answered")
    /\ storage' = Cleared(Tag(x, level))
    /\ \/ /\ level < tree_level
          /\ level' = level + 1
          /\ bucket_this_path' = bucket_this_path \cup storage[Tag(x, level)]
          /\ UNCHANGED <<pc, status, x>>
       \/ /\ level = tree_level /\ ~call.dummy
          /\ pc' = "merge"
          /\ bucket_this_path' = bucket_this_path \cup storage[Tag(x, level)]
          /\ UNCHANGED <<level, status, x>>
       \/ /\ level = tree_level /\ call.dummy
          /\ Return("kOK")
    /\ UNCHANGED <<registered, is_initialized, position_map, stash, call,
                   buffer, displaced>>
    /\ UNCHANGED fill_vars

\* The blocks read so far are dropped with the path buffer.
ReadBucketFails(outcome) ==
    /\ pc = "read"
    /\ x < number_of_leafs
    /\ outcome # "answered"
    /\ Rpc(outcome)
    /\ storage' = IF Executed(outcome)
                  THEN Cleared(Tag(x, level)) ELSE storage
    /\ Return("kServerError")
    /\ displaced' = IF call.dummy \/ call.direct THEN displaced
                    ELSE displaced \cup {call.address}
    /\ UNCHANGED <<registered, is_initialized, position_map, stash, call, buffer>>
    /\ UNCHANGED fill_vars

Ids(blocks) == {b.id : b \in blocks}

\* Mutant of MergedStash: what was in the stash is overwritten.
PathOnly == bucket_this_path

\* The stash with the blocks of the path whose ids it does not have yet.
MergedStash == stash \cup {b \in bucket_this_path : b.id \notin Ids(stash)}

\* The path joins the stash and the block is looked up there.
BlockNotFound ==
    /\ pc = "merge"
    /\ call.address \notin Ids(MergedStash)
    /\ stash' = MergedStash
    /\ Return("kObjectNotFound")
    /\ UNCHANGED <<is_initialized, position_map, call, buffer, faults, displaced>>
    /\ UNCHANGED <<server_vars, fill_vars>>

\* The block is updated, or copied out and, for the Partition ORAM, removed.
UpdateBlock ==
    /\ pc = "merge"
    /\ \E b \in MergedStash :
          /\ b.id = call.address
          /\ \/ /\ call.op = "kWrite"
                /\ stash' = (MergedStash \ {b}) \cup {[b EXCEPT !.data = buffer]}
                /\ UNCHANGED <<buffer, position_map>>
             \/ /\ call.op = "kRead"
                /\ buffer' = b.data
                /\ stash' = IF Standalone THEN MergedStash ELSE MergedStash \ {b}
                /\ position_map' = IF Standalone THEN position_map
                                   ELSE [position_map EXCEPT ![b.id] = 0]
    /\ pc' = "write"
    /\ level' = tree_level
    /\ bucket_this_path' = {}
    /\ UNCHANGED <<is_initialized, call, x, status, faults, displaced>>
    /\ UNCHANGED <<server_vars, fill_vars>>

\* Mutant of Subsets: blocks of other paths too.
SubsetsAnyPath == {S \in SUBSET stash : Cardinality(S) <= bucket_size}

\* The blocks FindSubsetOf(x) may take from the stash: as many as fit of the
\* ones mapped to this very path.
Subsets ==
    LET here == {b \in stash : position_map[b.id] = x}
    IN  {S \in SUBSET here :
            /\ Cardinality(S) <= bucket_size
            /\ S = here \/ Cardinality(S) = bucket_size}

\* AccurateWritePath with type kNormal: the bucket is replaced.
Replaced(t, S) == [storage EXCEPT ![t] = S]

\* One iteration of the write loop, from the leaf to the root.
WriteBucket(S) ==
    /\ pc = "write"
    /\ Rpc("answered")
    /\ stash' = stash \ S
    /\ storage' = Replaced(Tag(x, level), S)
    /\ \/ /\ level > 0
          /\ level' = level - 1
          /\ UNCHANGED <<pc, status, x, bucket_this_path>>
       \/ /\ level = 0
          /\ Return("kOK")
    /\ UNCHANGED <<registered, is_initialized, position_map, call, buffer,
                   displaced>>
    /\ UNCHANGED fill_vars

\* The subset has left the stash whatever became of the RPC.
WriteBucketFails(S, outcome) ==
    /\ pc = "write"
    /\ outcome # "answered"
    /\ Rpc(outcome)
    /\ stash' = stash \ S
    /\ storage' = IF Executed(outcome)
                  THEN Replaced(Tag(x, level), S) ELSE storage
    /\ Return("kServerError")
    /\ UNCHANGED <<registered, is_initialized, position_map, call, buffer,
                   displaced>>
    /\ UNCHANGED fill_vars

-------------------------------------------------------------------------------
Call ==
    \/ \E outcome \in Outcomes : InitOram(outcome)
    \/ \E d \in DataVectors : FillWithData(d)
    \/ NotInitialized
    \/ \E op \in {"kRead", "kWrite"}, a \in Addr : \E v \in Arguments(op) :
          \/ \E p \in Leaves : Access(op, a, v, p)
          \/ \E p \in 0..number_of_leafs : AccessDirect(op, a, v, p)
          \/ \E p \in Leaves : DummyAccess(op, a, v, p)

Step ==
    \/ \E outcome \in Outcomes :
          \/ AccurateWriteBucket(outcome)
          \/ ReadBucketFails(outcome)
          \/ \E S \in Subsets : WriteBucketFails(S, outcome)
    \/ ReadOutOfRange
    \/ ReadBucket
    \/ BlockNotFound
    \/ UpdateBlock
    \/ \E S \in Subsets : WriteBucket(S)

Next == Call \/ Step

Spec == Init /\ [][Next]_vars

\* A controller that is in the middle of a call goes on with it: its thread is
\* scheduled and an RPC ends, answered or with an error.
FairSpec == Spec /\ WF_vars(Step)

-------------------------------------------------------------------------------
(* Properties. *)

Statuses == {"none", "kOK", "kInvalidOperation", "kInvalidArgument",
             "kServerError", "kObjectNotFound"}

\* Every variable has its type; loop variables are in range where they are used.
TypeOK ==
    /\ registered \in BOOLEAN
    /\ storage \in [Tags -> SUBSET Block]
    /\ is_initialized \in BOOLEAN
    /\ position_map \in [Addr -> Leaves]
    /\ stash \in SUBSET Block
    /\ pc \in {"idle", "fill", "read", "merge", "write", "aborted"}
    /\ call \in Calls
    /\ buffer \in Val \cup {NoVal}
    /\ call.op = "kWrite" => buffer \in Val
    /\ x \in 0..number_of_leafs
    /\ level \in Levels
    /\ offset \in Nat
    /\ pc = "fill" => <<level, offset>> \in Tags
    /\ p_data \in Nat
    /\ bucket_this_path \in SUBSET Block
    /\ input \in Seq(Block \cup {Pad})
    /\ status \in Statuses
    /\ faults \in 0..MaxFaults
    /\ displaced \in SUBSET Addr

\* The places a block can be in.
InTree == UNION {storage[t] : t \in Tags}
Held == stash \cup bucket_this_path \cup InTree

\* No id is ever in two places or has two values: the destructive reads, the
\* merge and the eviction never leave a stale second copy behind, whatever
\* RPC fails.
OneCopy ==
    /\ \A b, c \in stash \cup bucket_this_path : b.id = c.id => b = c
    /\ stash \cap bucket_this_path = {}
    /\ \A t \in Tags : \A b \in storage[t] :
          /\ \A c \in stash \cup bucket_this_path : b.id # c.id
          /\ \A u \in Tags : \A c \in storage[u] : b.id = c.id => t = u /\ b = c

\* The access in progress has remapped its block and not yet found it.
Searching(a) == pc = "read" /\ ~call.direct /\ ~call.dummy /\ call.address = a

\* A block in the tree lies on the path its position map entry names, unless
\* it is being looked for on its old path, or was remapped by an access that
\* failed.
OnPath ==
    \A t \in Tags : \A b \in storage[t] :
        \/ t = Tag(position_map[b.id], t[1])
        \/ Searching(b.id) /\ t = Tag(x, t[1])
        \/ b.id \in displaced

\* What was read is not on the server any more, and the write loop only finds
\* buckets that the read loop emptied: it overwrites nothing.
WritesEmptyBuckets ==
    /\ pc = "read" => \A l \in 0..(level - 1) : storage[Tag(x, l)] = {}
    /\ pc = "merge" => \A l \in Levels : storage[Tag(x, l)] = {}
    /\ pc = "write" => \A l \in 0..level : storage[Tag(x, l)] = {}

\* The ids an input asks the controller to store.
InputIds == {input[i].id : i \in {k \in DOMAIN input : input[k] # Pad}}

\* As long as no RPC fails, a standalone controller that was given no more
\* blocks than its tree has room for never loses one.
NoLoss ==
    Standalone /\ is_initialized /\ faults = 0 /\ Len(input) <= Capacity
        => InputIds \subseteq Ids(Held)

\* Access answers kObjectNotFound only for a block that is not there, or that
\* an earlier failed access of the same address has displaced.
NotFoundJustified ==
    status = "kObjectNotFound" /\ ~call.direct
        => call.address \in displaced \/ call.address \notin Ids(Held)

\* When a block is lost (an RPC failed, or the access was a dummy one) it was
\* on the path of that access: in a bucket that had been read and not merged,
\* or in the one bucket being read or written.  The rest of the tree, and the
\* stash blocks of other paths, are out of a failure's reach.
LossIsLocal ==
    [][\A b \in Held : b.id \notin Ids(Held)' =>
          \/ pc = "read" /\ b \in bucket_this_path \cup storage[Tag(x, level)]
          \/ pc = "write" /\ b \in stash /\ position_map[b.id] = x
          \/ pc = "merge" /\ ~Standalone /\ b.id = call.address]_vars

\* Every call that starts comes to an end.
EveryCallEnds == pc # "idle" ~> pc \in {"idle", "aborted"}

-------------------------------------------------------------------------------
(* The inductive invariant. *)

\* The tree holds what the fill loop has taken from the input so far.
FillProgress ==
    /\ is_initialized => registered
    /\ ~is_initialized => stash = {} /\ bucket_this_path = {}
    /\ pc = "idle" /\ ~is_initialized => \A t \in Tags : storage[t] = {}
    /\ pc = "fill" =>
          /\ ~is_initialized
          /\ input \in DataVectors
          /\ \A t \in Tags : \A b \in storage[t] :
                \E k \in DOMAIN input : k <= p_data /\ input[k] = b

\* Where the controller can be in a call, and with which arguments.
CallProgress ==
    /\ pc \in {"read", "merge", "write"} => is_initialized
    /\ pc # "idle" => status = "none"
    /\ pc = "read" /\ x = number_of_leafs => call.direct /\ level = 0
    /\ pc \in {"merge", "write"} => ~call.dummy /\ x \in Leaves
    /\ pc \notin {"read", "merge"} => bucket_this_path = {}
    /\ pc = "read" /\ level = 0 => bucket_this_path = {}

\* While it is looked for, a remapped block is on its old path or nowhere on
\* the server.
OldPath ==
    \A t \in Tags : \A b \in storage[t] :
        b.id = call.address /\ ~call.direct /\ b.id \notin displaced =>
            /\ Searching(b.id) => t = Tag(x, t[1])
            /\ pc # "merge"

IInv == /\ TypeOK /\ OneCopy /\ OnPath /\ WritesEmptyBuckets /\ NotFoundJustified
        /\ FillProgress /\ CallProgress /\ OldPath

-------------------------------------------------------------------------------
(* The abstract memory this controller implements. *)

\* The contents of an id in a set of blocks.
Lookup(blocks, a) ==
    IF a \in Ids(blocks) THEN (CHOOSE b \in blocks : b.id = a).data ELSE NoVal

\* The fill loop is one step of the abstract memory: its last one.
AbstractMem == [a \in Addr |-> IF is_initialized THEN Lookup(Held, a) ELSE NoVal]

AbstractPhase ==
    CASE pc = "aborted" -> "halted"
      [] pc \in {"idle", "fill"} -> IF is_initialized THEN "idle" ELSE "unloaded"
      [] pc \in {"read", "merge"} -> "pending"
      [] pc = "write" -> "applied"

Store == INSTANCE BlockStore WITH
    ReadRemoves <- ~Standalone, Lenient <- FALSE, SilentMiss <- FALSE,
    mem <- AbstractMem, phase <- AbstractPhase

\* The controller is a memory: see BlockStore for what that promises.
ImplementsStore == Store!Spec
===============================================================================
