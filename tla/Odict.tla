--------------------------------- MODULE Odict ---------------------------------
(***************************************************************************)
(* The oblivious dictionary (core/odict_controller): an AVL tree whose     *)
(* nodes are blocks of a Path ORAM, worked on in a cache with least        *)
(* recently used eviction (core/ods_cache).  An operation clears the       *)
(* cache, walks down from the root, on an insertion rotates on the way     *)
(* back, pads its reads, writes the cache to the ORAM and pads its writes. *)
(*                                                                         *)
(* The recursion of the code is a stack here, one step per level.  The     *)
(* ORAM is the memory that BlockStore promises; a call of it that fails    *)
(* may have had its effect and may lose blocks.  Cached nodes are values:  *)
(* the code shares nodes between cache and caller by pointer, but writes   *)
(* a node it has changed before it lets anyone look it up.                 *)
(***************************************************************************)
EXTENDS Integers, Sequences, FiniteSets, SequencesExt

CONSTANTS
    Key,
    None,            \* the answer to a key that is not there (nullptr)
    Blank,           \* a block of the ORAM that was filled and never a node
    Gone,            \* a block that the ORAM does not have
    Setups,          \* client_cache_max_size, and blocks the ORAM was filled with
    MaxInserts,      \* bound: insertions
    MaxDepth,        \* bound: calls the stack of the thread has room for
    MaxFaults,       \* bound: accesses of the ORAM that fail
    MaxLost          \* bound: blocks that such an access loses, those of a path

invalid_mask == 0
Ids == 0..MaxInserts

\* Nothing looks at values: each insertion has one of its own, its number.
Val == 1..MaxInserts

Sides == {"left", "right"}
Other(side) == IF side = "left" THEN "right" ELSE "left"

Node == [id : Ids, key : Key, val : Val,
         child : [Sides -> Ids], height : [Sides -> Nat]]

\* A cache has room for a node and one of its children: with a smaller one the code
\* may read an older root before a double rotation, where Balance passes it on.
ASSUME OdictAssumption ==
    /\ Key \subseteq Nat /\ None \notin Val
    /\ Blank \notin Node /\ Gone \notin Node /\ Blank # Gone
    /\ MaxInserts \in Nat \ {0} /\ MaxFaults \in Nat
    /\ MaxDepth \in Nat /\ Setups \subseteq [cache : Nat \ {0, 1}, oram : Nat \ {0}]

\* The stack has room for a call per node.
ASSUME DepthAssumption == MaxInserts <= MaxDepth

\* ceil(3 * 1.44 * log(x)) for x = 1, 2, ...; nothing is said of x above 13.
ComputePadVal(x) == <<0, 3, 5, 6, 7, 8, 9, 9, 10, 10, 11, 11, 12>>[x]

HEIGHT(n) == 1 + IF n.height["left"] >= n.height["right"] THEN n.height["left"]
                 ELSE n.height["right"]

TreeNode(id, k, v) == [id |-> id, key |-> k, val |-> v,
                       child |-> [s \in Sides |-> invalid_mask],
                       height |-> [s \in Sides |-> 0]]

VARIABLES
    memory,          \* the ORAM: what it has under each id
    root_id, node_count,
    setup,           \* sizes of the cache and of the ORAM, fixed
    ods,             \* the operation at work, see Start
    pc,              \* where the controller is
    call,            \* operation, key and value
    stack,           \* the nodes above, and the side taken at each
    tasks,           \* what Balance has still to do
    cursor,          \* argument of the recursive call
    answer,          \* what Find returns
    faults,
    dict,            \* ghost: the first value inserted for each key
    dropped          \* ghost: a node that was changed did not reach the ORAM

vars == <<memory, root_id, node_count, setup, ods, pc, call, stack, tasks,
          cursor, answer, faults, dict, dropped>>

\* The cache, most recently used node first; the counters for padding; whether a
\* read went wrong.  Ghosts: whether a rotation was made; the ids evicted with
\* changes, and whether one of them was read again.
Start == [cache |-> <<>>, reads |-> 0, writes |-> 0, bad |-> "no",
          rotated |-> FALSE, evicted |-> {}, stale |-> FALSE]

Init ==
    /\ setup \in Setups
    /\ memory = [id \in Ids |-> IF id < setup.oram THEN Blank ELSE Gone]
    /\ root_id = invalid_mask
    /\ node_count = 1
    /\ ods = Start
    /\ pc = "idle"
    /\ call = [op |-> "none", key |-> None, val |-> None]
    /\ stack = <<>> /\ tasks = <<>>
    /\ cursor = invalid_mask
    /\ answer = None
    /\ faults = 0
    /\ dict = [k \in Key |-> None]
    /\ dropped = FALSE

-------------------------------------------------------------------------------
(* The cache. *)

\* Where a node is, if it is cached: no id is cached twice.
Places(c, id) == {j \in DOMAIN c : c[j].id = id}

Others(c, id) ==
    IF Places(c, id) = {} THEN c ELSE RemoveAt(c, CHOOSE j \in Places(c, id) : TRUE)

\* Mutant of Full: the cache evicts one node too early.
FullEarly(c) == Len(c) >= setup.cache

Full(c) == Len(c) > setup.cache

Put(w, n) ==
    LET c == <<n>> \o Others(w.cache, n.id)
        back == Last(c) IN
    IF ~Full(c) THEN [w EXCEPT !.cache = c]
    ELSE [w EXCEPT !.cache = Front(c),
                   !.evicted = IF back # memory[back.id] THEN @ \cup {back.id} ELSE @]

\* The node that was read, written or returned last is the first of the cache.
Top(w) == IF w.cache = <<>> THEN TreeNode(invalid_mask, 0, None) ELSE Head(w.cache)

OdsAccessRead(w, id) ==
    LET v == [w EXCEPT !.reads = @ + 1] IN
    IF w.bad # "no" THEN w
    ELSE IF Places(w.cache, id) # {}
    THEN [v EXCEPT !.cache = <<@[CHOOSE j \in Places(@, id) : TRUE]>> \o Others(@, id)]
    ELSE IF memory[id] \in {Blank, Gone}
    THEN [v EXCEPT !.bad = IF memory[id] = Gone THEN "aborted" ELSE "garbled"]
    ELSE [Put(v, memory[id]) EXCEPT !.stale = @ \/ id \in w.evicted]

OdsAccessWrite(w, n) ==
    IF w.bad # "no" THEN w
    ELSE [Put(w, n) EXCEPT !.writes = @ + 1, !.evicted = @ \ {n.id}]

\* A call of the ORAM fails: it has had its effect or not, and blocks are lost.
Fails(m) ==
    /\ faults < MaxFaults /\ faults' = faults + 1
    /\ \E before \in {memory, m} : \E S \in SUBSET {id \in Ids : before[id] # Gone} :
          /\ Cardinality(S) <= MaxLost
          /\ memory' = [id \in Ids |-> IF id \in S THEN Gone ELSE before[id]]

-------------------------------------------------------------------------------
(* The operations. *)

Begin(op, k, v) ==
    /\ pc = "idle"
    /\ pc' = "descend"
    /\ ods' = [ods EXCEPT !.cache = <<>>]
    /\ call' = [op |-> op, key |-> k, val |-> v]
    /\ stack' = <<>> /\ cursor' = root_id /\ answer' = None
    /\ UNCHANGED <<memory, root_id, setup, tasks, faults, dict, dropped>>

Find(k) == Begin("find", k, None) /\ UNCHANGED node_count

Insert(k, v) ==
    /\ node_count <= MaxInserts
    /\ Begin("insert", k, v)
    /\ node_count' = node_count + 1

Goto(place) == pc' = place
Kept == UNCHANGED <<memory, root_id, node_count, setup, call, faults>>

\* A failed CheckStatus ends the process; a block that was never written is
\* taken for a node, and what follows depends on its bytes.
Broken ==
    /\ pc = "descend" /\ cursor # invalid_mask /\ ods.reads < MaxDepth
    /\ ods' = OdsAccessRead(ods, cursor)
    /\ ods'.bad # "no"
    /\ Goto(ods'.bad)
    /\ Kept /\ UNCHANGED <<stack, tasks, cursor, answer, dict, dropped>>

\* Mutant of Side: equal keys go to the left.
SideOfEqual(n, k) == IF n.key < k THEN "right" ELSE "left"

Side(n, k) == IF n.key < k THEN "right" ELSE IF n.key > k THEN "left" ELSE "here"

Descend ==
    LET n == Top(ods')
        side == Side(n, call.key) IN
    /\ pc = "descend" /\ cursor # invalid_mask /\ ods.reads < MaxDepth
    /\ ods' = OdsAccessRead(ods, cursor)
    /\ ods'.bad = "no"
    /\ \/ /\ side # "here"
          /\ cursor' = n.child[side]
          /\ UNCHANGED <<pc, answer>>
       \/ /\ side = "here"
          /\ Goto(IF call.op = "find" THEN "pad_reads" ELSE "ascend")
          /\ answer' = IF call.op = "find" THEN n.val ELSE answer
          /\ UNCHANGED cursor
    /\ stack' = IF call.op = "insert" THEN Append(stack, [node |-> n, side |-> side])
                ELSE stack
    /\ Kept /\ UNCHANGED <<tasks, dict, dropped>>

\* The recursion has no end when a damaged tree has a cycle.
Overflow ==
    /\ pc = "descend" /\ cursor # invalid_mask /\ ods.reads >= MaxDepth
    /\ Goto("overflowed")
    /\ Kept /\ UNCHANGED <<ods, stack, tasks, cursor, answer, dict, dropped>>

NotFound ==
    /\ pc = "descend" /\ cursor = invalid_mask /\ call.op = "find"
    /\ Goto("pad_reads")
    /\ Kept /\ UNCHANGED <<ods, stack, tasks, cursor, answer, dict, dropped>>

\* The node's id is what node_count was before the call.
Place ==
    /\ pc = "descend" /\ cursor = invalid_mask /\ call.op = "insert"
    /\ ods' = Put(ods, TreeNode(node_count - 1, call.key, call.val))
    /\ dict' = [dict EXCEPT ![call.key] = IF @ = None THEN call.val ELSE @]
    /\ Goto("ascend")
    /\ Kept /\ UNCHANGED <<stack, tasks, cursor, answer, dropped>>

(* Rotations.  The new root of a subtree is on top of the cache afterwards. *)

Relinked(root, side, n) == [root EXCEPT !.child[side] = n.id, !.height[side] = HEIGHT(n)]

\* Mutant of Heavy: two levels of difference are allowed.
HeavyTwo(n, side) == n.height[side] > n.height[Other(side)] + 2

Heavy(n, side) == n.height[side] > n.height[Other(side)] + 1

\* w is the operation's new state and rest what Balance has still to do.
Proceed(w, rest) ==
    /\ ods' = w
    /\ tasks' = rest
    /\ Goto(IF ods'.bad # "no" THEN ods'.bad
            ELSE IF rest = <<>> THEN "ascend" ELSE "rotate")
    /\ Kept /\ UNCHANGED <<stack, cursor, answer, dict, dropped>>

\* A rotation to one side, or a rotated child that becomes the root's again.
Relinking(side) == IF side = "left" THEN "relink left" ELSE "relink right"

Task(do, id, node) == [do |-> do, id |-> id, node |-> node]

SingleRotation(side, root) == <<Task(Other(side), root.id, root)>>

\* LeftRightRotate for the left side, RightLeftRotate for the right one.
DoubleRotation(side, root) ==
    <<Task(side, root.child[side], root), Task(Relinking(side), root.id, root),
      Task(Other(side), root.id, root)>>

Balance ==
    LET root == Top(ods)
        heavy == {side \in Sides : Heavy(root, side)} IN
    /\ pc = "balance"
    /\ \/ heavy = {} /\ Proceed(ods, <<>>)
       \/ \E side \in heavy :
            \E w \in {OdsAccessRead([ods EXCEPT !.rotated = TRUE], root.child[side])} :
                IF Top(w).height[side] >= Top(w).height[Other(side)]
                THEN Proceed(w, SingleRotation(side, root))
                ELSE Proceed(OdsAccessRead(w, root.id), DoubleRotation(side, root))

\* The child on the other side becomes the root, and the root its child.
Rotate(side) ==
    LET far == Other(side)
        id == Head(tasks).id IN
    /\ pc = "rotate" /\ Head(tasks).do = side
    /\ \E w1 \in {OdsAccessRead(ods, id)} :
       \E w2 \in {OdsAccessRead(w1, Top(w1).child[far])} :
       \E down \in {[Top(w1) EXCEPT !.child[far] = Top(w2).child[side],
                                    !.height[far] = Top(w2).height[side]]} :
       \E w3 \in {OdsAccessWrite(w2, down)} :
          Proceed(OdsAccessWrite(w3, [Top(w2) EXCEPT !.height[side] = HEIGHT(down),
                                                     !.child[side] = id]),
                  Tail(tasks))

LeftRotate == Rotate("left")
RightRotate == Rotate("right")

\* Between the rotations of a double rotation.
Relink(side) ==
    /\ pc = "rotate" /\ Head(tasks).do = Relinking(side)
    /\ Proceed(OdsAccessWrite(ods, Relinked(Head(tasks).node, side, Top(ods))), Tail(tasks))

\* The ids that the next step looks up.
LookedUp ==
    CASE pc = "descend" -> {cursor} \ {invalid_mask}
      [] pc = "balance" -> {Top(ods).child[side] : side \in {s \in Sides : Heavy(Top(ods), s)}}
      [] pc = "rotate" /\ Head(tasks).do \in Sides ->
            LET w == OdsAccessRead(ods, Head(tasks).id) IN
            {Head(tasks).id} \cup (IF w.bad = "no" THEN {Top(w).child[Other(Head(tasks).do)]} ELSE {})
      [] OTHER -> {}

\* The ORAM fails to read a node that is not in the cache: the process ends.
ReadFails ==
    /\ \E id \in LookedUp : Places(ods.cache, id) = {} /\ Fails(memory)
    /\ Goto("aborted")
    /\ UNCHANGED <<root_id, node_count, setup, ods, call, stack, tasks, cursor, answer,
                   dict, dropped>>

\* The recursive call returns: its result, on top of the cache, becomes a child.
Ascend ==
    LET above == Last(stack)
        root == IF above.side = "here" THEN above.node
                ELSE Relinked(above.node, above.side, Top(ods)) IN
    /\ pc = "ascend" /\ stack # <<>>
    /\ ods' = OdsAccessWrite(ods, root)
    /\ stack' = Front(stack)
    /\ Goto("balance")
    /\ Kept /\ UNCHANGED <<tasks, cursor, answer, dict, dropped>>

InsertReturns ==
    /\ pc = "ascend" /\ stack = <<>>
    /\ root_id' = Top(ods).id
    /\ Goto("pad_reads")
    /\ UNCHANGED <<memory, node_count, setup, ods, call, stack, tasks, cursor, answer,
                   faults, dict, dropped>>

-------------------------------------------------------------------------------
(* OdsFinalize. *)

pad_val == ComputePadVal(node_count)

\* Accesses to block 0, which has to be there.
DoPad(num, next) ==
    \/ num < 0 /\ Goto("panicked") /\ UNCHANGED <<memory, faults>>
    \/ num > 0 /\ memory[0] = Gone /\ Goto("aborted") /\ UNCHANGED <<memory, faults>>
    \/ num > 0 /\ memory[0] # Gone /\ Fails(memory) /\ Goto("aborted")
    \/ num >= 0 /\ (num = 0 \/ memory[0] # Gone) /\ Goto(next) /\ UNCHANGED <<memory, faults>>

PadReads ==
    /\ pc = "pad_reads"
    /\ DoPad(pad_val - ods.reads, "write_back")
    /\ UNCHANGED <<root_id, node_count, setup, ods, call, stack, tasks, cursor, answer,
                   dict, dropped>>

\* Mutant of Popped: nothing is.
PoppedNothing(c) == c

Popped(c) == Tail(c)

\* The status of the access is not looked at.
WriteBack ==
    LET n == Head(ods.cache)
        stored == memory[n.id] # Gone
        m == IF stored THEN [memory EXCEPT ![n.id] = n] ELSE memory IN
    /\ pc = "write_back" /\ ods.cache # <<>>
    /\ ods' = [ods EXCEPT !.cache = Popped(@)]
    /\ \/ memory' = m /\ dropped' = (dropped \/ ~stored) /\ UNCHANGED faults
       \/ Fails(m) /\ dropped' = TRUE
    /\ UNCHANGED <<root_id, node_count, setup, pc, call, stack, tasks, cursor, answer,
                   dict>>

PadWrites ==
    /\ pc = "write_back" /\ ods.cache = <<>>
    /\ DoPad(pad_val - ods.writes, "idle")
    /\ ods' = Start
    /\ dropped' = (dropped \/ ods.evicted # {} \/ ods.stale)
    /\ UNCHANGED <<root_id, node_count, setup, call, stack, tasks, cursor, answer, dict>>

-------------------------------------------------------------------------------
Call == \E k \in Key : Find(k) \/ Insert(k, node_count)

Step == \/ Broken \/ ReadFails \/ Overflow \/ Descend \/ NotFound \/ Place \/ Ascend
        \/ InsertReturns \/ Balance \/ LeftRotate \/ RightRotate
        \/ \E side \in Sides : Relink(side)
        \/ PadReads \/ WriteBack \/ PadWrites

Next == Call \/ Step

Spec == Init /\ [][Next]_vars

\* The controller's thread goes on with an operation that was begun.
FairSpec == Spec /\ WF_vars(Step)

-------------------------------------------------------------------------------
(* Properties. *)

Work == [cache : Seq(Node), reads : Nat, writes : Nat,
         bad : {"no", "aborted", "garbled"}, rotated : BOOLEAN,
         evicted : SUBSET Ids, stale : BOOLEAN]

Tasks == [do : Sides \cup {"relink left", "relink right"}, id : Ids, node : Node]

\* Every variable has its type.
TypeOK ==
    /\ memory \in [Ids -> Node \cup {Blank, Gone}]
    /\ root_id \in Ids /\ node_count \in 1..(MaxInserts + 1) /\ setup \in Setups
    /\ ods \in Work /\ Len(ods.cache) <= setup.cache
    /\ pc \in {"idle", "descend", "ascend", "balance", "rotate", "pad_reads",
               "write_back", "panicked", "aborted", "garbled", "overflowed"}
    /\ call \in [op : {"none", "find", "insert"}, key : Key \cup {None}, val : Val \cup {None}]
    /\ stack \in Seq([node : Node, side : Sides \cup {"here"}])
    /\ tasks \in Seq(Tasks)
    /\ cursor \in Ids
    /\ answer \in Val \cup {None}
    /\ faults \in 0..MaxFaults
    /\ dict \in [Key -> Val \cup {None}]
    /\ dropped \in BOOLEAN

Children(id) ==
    IF memory[id] \in {Blank, Gone} THEN {} ELSE {memory[id].child[s] : s \in Sides}

\* The ids of the tree under id, as the ORAM holds it: those of the least set with
\* id that has the children of its members.
Subtree(id) ==
    LET closed == {S \in SUBSET Ids : id \in S /\ \A j \in S : Children(j) \subseteq S}
    IN  {j \in Ids : \A S \in closed : j \in S} \ {invalid_mask}

\* Between operations, and unless an update has been lost.
Whole == pc = "idle" /\ ~dropped

\* The blocks that are reachable from the root are nodes in the order of a search
\* tree and hold exactly the keys that were inserted, each with the first value given.
TreeHoldsDictionary ==
    Whole =>
        LET nodes == {memory[j] : j \in Subtree(root_id)} IN
        /\ nodes \cap {Blank, Gone} = {}
        /\ \A n \in nodes :
              /\ \A j \in Subtree(n.child["left"]) : memory[j].key < n.key
              /\ \A j \in Subtree(n.child["right"]) : memory[j].key > n.key
        /\ \A k \in Key : {n.val : n \in {m \in nodes : m.key = k}} = {dict[k]} \ {None}

\* The height of the tree under id, by what its root says.
HeightOf(id) == IF id = invalid_mask THEN 0 ELSE HEIGHT(memory[id])

\* The heights kept in the parents are the heights of the children, and differ by
\* one at most: what the bound of the padding relies on.
Balanced ==
    Whole =>
        \A j \in Subtree(root_id) :
            LET n == memory[j] IN
            /\ \A s \in Sides : n.height[s] = HeightOf(n.child[s])
            /\ n.height["left"] - n.height["right"] \in -1..1

\* The tree in the ORAM is an AVL tree of the dictionary.
TreeSound == TypeOK /\ TreeHoldsDictionary /\ Balanced

\* A search of an undamaged dictionary returns what was first inserted.
FindsFirst ==
    [][pc = "pad_reads" /\ call.op = "find" /\ ~dropped => answer = dict[call.key]]_vars

\* The padding is too small only for an insertion that rotates: a search, or an
\* insertion that leaves the tree balanced, never reaches the assertion.
PanicJustified == pc = "panicked" => ods.rotated

\* The fewest nodes of an AVL tree of height h.
MinNodes[h \in Nat] == IF h < 2 THEN h ELSE MinNodes[h - 1] + MinNodes[h - 2] + 1

\* An update is lost only if an access of the ORAM failed, the ORAM has fewer
\* blocks than there were insertions, or the cache has no more room than for the
\* longest path of an AVL tree with as many nodes as there were before: one node
\* more is enough, for rotations as well.
DropJustified ==
    dropped => faults > 0 \/ node_count > setup.oram \/ MinNodes[setup.cache] <= node_count - 2

\* The process ends, recurses for ever, or takes a blank block for a node, only if
\* an update was lost, or is about to be, or an access has failed.
StopJustified ==
    pc \in {"aborted", "garbled", "overflowed"} =>
         dropped \/ faults > 0 \/ ods.evicted # {} \/ ods.stale

\* Nothing goes wrong without a cause: not the assertion of the padding, nor an
\* update, nor the process.
FailuresJustified == PanicJustified /\ DropJustified /\ StopJustified

\* Every operation comes to an end.
EveryCallEnds == []<>(pc \in {"idle", "panicked", "aborted", "garbled", "overflowed"})
===============================================================================
