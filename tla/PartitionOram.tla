----------------------------- MODULE PartitionOram -----------------------------
(***************************************************************************)
(* The Partition ORAM controller (core/partition_oram_controller): slots   *)
(* in the client, each in front of a Path ORAM of its own.  What a call of *)
(* one of the Path ORAMs does is what PathOram is shown to promise (the    *)
(* memory of BlockStore, with reads that remove): Answers is that contract *)
(* in one step, since the controller waits for each call.                  *)
(*                                                                         *)
(* One step is the part of Access before the eviction, one round of the    *)
(* eviction, or one Path ORAM that is set up or filled.  A variable that   *)
(* the code reads without having set it has any value.                     *)
(***************************************************************************)
EXTENDS Naturals, Sequences, FiniteSets, SequencesExt

CONSTANTS
    Addr,            \* block ids
    Val,             \* block contents
    NoVal,           \* no block
    Garbage,         \* contents that nobody stored
    NoAddr,          \* a block id that nobody stored
    squared,         \* slots that Run makes
    PathCapacity,    \* blocks on one path of a Path ORAM
    NuValues,        \* what nu_ may be
    Inputs,          \* inputs of FillWithData: the contents of each slice
    MaxFaults,       \* bound: calls of a Path ORAM that fail
    MaxControllers,  \* bound: Path ORAMs, when Run is repeated
    MaxHeld          \* bound: blocks in the slots

SlotIds == 0..(squared - 1)
Block == [id : Addr \cup {NoAddr}, data : Val \cup {NoVal, Garbage}]
Contents == [Addr -> Val \cup {NoVal, Garbage}]
Empty == [a \in Addr |-> NoVal]
Stored(m) == {a \in Addr : m[a] # NoVal}

ASSUME PartitionAssumption ==
    /\ squared \in Nat \ {0} /\ PathCapacity \in Nat /\ MaxFaults \in Nat
    /\ MaxControllers \in Nat \ {0}
    /\ NuValues \subseteq Nat
    /\ Addr \subseteq Nat /\ Addr # {}
    /\ NoAddr \notin Addr
    /\ NoVal # Garbage /\ {NoVal, Garbage} \cap Val = {}
    /\ \A d \in Inputs : d \in Seq(Contents)

\* The ids in an input are distinct, as in a block vector of SampleRandomBucket.
ASSUME InputAssumption ==
    \A d \in Inputs : \A j, k \in DOMAIN d : j # k => Stored(d[j]) \cap Stored(d[k]) = {}

VARIABLES
    controllers,     \* path_oram_controllers_, with the contents of each
    owner,           \* server: which controller created the storage of an id
    slots,           \* slots_
    position_map,    \* an absent entry reads as 0
    nu,              \* nu_, which only SetNu sets
    is_initialized,
    pc,              \* where the controller is
    i,               \* loop variable of all loops
    call,            \* the access in progress, or the last one
    buffer,          \* the caller's block
    input,           \* argument of FillWithData
    status,
    faults,          \* calls of a Path ORAM that have failed
    latest,          \* ghost: what was last stored for an address
    lost,            \* ghost: addresses that a Path ORAM has dropped
    refused,         \* ghost: a Run has answered an error
    junked           \* ghost: a slot was given a block that was not read, or has
                     \* one from before the fill

vars == <<controllers, owner, slots, position_map, nu, is_initialized, pc, i,
          call, buffer, input, status, faults, latest, lost, refused, junked>>

Init ==
    /\ controllers = <<>>
    /\ owner = [s \in SlotIds |-> 0]
    /\ slots = [s \in SlotIds |-> <<>>]
    /\ position_map = [a \in Addr |-> 0]
    /\ nu \in NuValues
    /\ is_initialized = FALSE
    /\ pc = "idle"
    /\ i = 0
    /\ call = [op |-> "kRead", address |-> CHOOSE a \in Addr : TRUE]
    /\ buffer = NoVal
    /\ input = <<>>
    /\ status = "none"
    /\ faults = 0
    /\ latest = Empty
    /\ lost = {}
    /\ refused = FALSE
    /\ junked = FALSE

Return(s) == pc' = "idle" /\ status' = s /\ i' = 0
\* Mutant of GoOn: the loop variable is not advanced.
GoOnStuck == UNCHANGED <<i, pc, status>>

GoOn == i' = i + 1 /\ UNCHANGED <<pc, status>>

\* The process ends, at a failed CheckStatus or in undefined behaviour.
Stop(how) == pc' = how /\ UNCHANGED <<i, status>>

-------------------------------------------------------------------------------
(* Setting up. *)

Failing(outcome) == outcome # "answered"
Rpc(outcome) ==
    \/ ~Failing(outcome) /\ UNCHANGED faults
    \/ Failing(outcome) /\ faults < MaxFaults /\ faults' = faults + 1

Run ==
    /\ pc = "idle"
    /\ Len(controllers) + squared <= MaxControllers
    /\ pc' = "init" /\ i' = 0 /\ status' = "none"
    /\ UNCHANGED <<controllers, owner, slots, position_map, nu, is_initialized,
                   call, buffer, input, faults, latest, lost, refused, junked>>

\* One iteration of InitOram: a new controller, and the request for its tree.
\* The server turns down an id that it has.
InitOram(outcome) ==
    LET created == owner[i] = 0 /\ outcome # "request_lost" IN
    /\ pc = "init"
    /\ Rpc(outcome)
    /\ controllers' = Append(controllers, [id |-> i, filled |-> FALSE, mem |-> Empty])
    /\ owner' = IF created THEN [owner EXCEPT ![i] = Len(controllers) + 1] ELSE owner
    /\ \/ created /\ ~Failing(outcome) /\ i + 1 < squared /\ GoOn
       \/ created /\ ~Failing(outcome) /\ i + 1 = squared /\ Return("kOK")
       \/ ~(created /\ ~Failing(outcome)) /\ Return("kServerError")
    /\ refused' = (refused \/ ~(created /\ ~Failing(outcome)))
    /\ UNCHANGED <<slots, position_map, nu, is_initialized, call, buffer, input,
                   latest, lost, junked>>

\* Reset forgets everything except that the ORAM was initialised; the server
\* keeps the storages.
Reset ==
    /\ pc = "idle" /\ controllers # <<>>
    /\ controllers' = <<>>
    /\ slots' = [s \in SlotIds |-> <<>>]
    /\ position_map' = [a \in Addr |-> 0]
    /\ latest' = Empty /\ lost' = {} /\ refused' = FALSE
    /\ owner' = [s \in SlotIds |-> IF owner[s] = 0 THEN 0 ELSE MaxControllers + 1]
    /\ UNCHANGED <<nu, is_initialized, pc, i, call, buffer, input, status, faults,
                   junked>>

\* An input has a slice for every controller.  front() of no controllers is
\* undefined.
FillWithData(d) ==
    /\ pc = "idle"
    /\ \A k \in DOMAIN controllers : ~controllers[k].filled
    /\ \/ controllers = <<>> /\ Stop("undefined") /\ UNCHANGED input
       \/ /\ controllers # <<>> /\ Len(d) # Len(controllers)
          /\ Return("kInvalidArgument") /\ UNCHANGED input
       \/ /\ controllers # <<>> /\ Len(d) = Len(controllers)
          /\ input' = d
          /\ pc' = "fill" /\ i' = 0 /\ status' = "none"
    /\ UNCHANGED <<controllers, owner, slots, position_map, nu, is_initialized,
                   call, buffer, faults, latest, lost, refused, junked>>

\* How many blocks are in the slots.
Held == FoldFunction(LAMBDA q, n : Len(q) + n, 0, slots)

\* The server takes the requests of the controller that created the storage.
Accepted(k) == owner[controllers[k].id] = k

\* Mutant of ProcessSlot: the slots are counted from 1.
ProcessSlotAfter(m, k) == [a \in Addr |-> IF m[a] # NoVal THEN k + 1 ELSE position_map[a]]

ProcessSlot(m, k) == [a \in Addr |-> IF m[a] # NoVal THEN k ELSE position_map[a]]

\* One iteration of the loop: the map first, then the Path ORAM.
FillController(outcome) ==
    LET m == input[i + 1]
        ok == Accepted(i + 1) /\ ~Failing(outcome) IN
    /\ pc = "fill"
    /\ Rpc(outcome)
    /\ position_map' = ProcessSlot(m, i)
    /\ controllers' = IF ok
                      THEN [controllers EXCEPT ![i + 1] =
                               [id |-> @.id, filled |-> TRUE, mem |-> m]]
                      ELSE controllers
    /\ latest' = [a \in Addr |-> IF m[a] # NoVal THEN m[a] ELSE latest[a]]
    /\ \/ /\ ok /\ i + 1 < Len(controllers)
          /\ GoOn /\ UNCHANGED <<is_initialized, input>>
       \/ /\ ok /\ i + 1 = Len(controllers)
          /\ Return("kOK") /\ is_initialized' = TRUE /\ input' = <<>>
       \/ ~ok /\ Stop("aborted") /\ UNCHANGED <<is_initialized, input>>
    /\ junked' = (junked \/ \E s \in SlotIds : slots[s] # <<>>)
    /\ UNCHANGED <<owner, slots, nu, call, buffer, lost, refused>>

-------------------------------------------------------------------------------
(* The Path ORAMs. *)

\* What is left when some blocks of one path are dropped.
Without(m, S) == [a \in Addr |-> IF a \in S THEN NoVal ELSE m[a]]
Remains(m) == {Without(m, S) : S \in {T \in SUBSET Stored(m) : Cardinality(T) <= PathCapacity}}

\* What an access does to the contents when the block is there.
Effect(m, op, a, v) ==
    [m EXCEPT ![a] = IF op = "kWrite" THEN v ELSE NoVal]

\* The answers InternalAccess may give: status, contents afterwards, data.
Answer(s, m, v) == [status |-> s, mem |-> m, data |-> v]

NotFound(m, a, v) == {Answer("kObjectNotFound", m, Garbage)}

Answers(c, op, a, v, dummy) ==
    LET m == c.mem
        good == IF ~c.filled THEN {Answer("kInvalidOperation", m, Garbage)}
                ELSE IF dummy THEN {Answer("kOK", n, Garbage) : n \in Remains(m)}
                ELSE IF m[a] = NoVal THEN NotFound(m, a, v)
                ELSE {Answer("kOK", Effect(m, op, a, v), m[a])}
        \* An earlier failure may have left the block on another path.
        misplaced == IF c.filled /\ ~dummy /\ faults > 0
                     THEN {Answer("kObjectNotFound", m, Garbage)} ELSE {}
        failed == IF c.filled /\ faults < MaxFaults
                  THEN {Answer("kServerError", n, Garbage) : n \in
                            Remains(m) \cup IF dummy \/ m[a] = NoVal THEN {}
                                            ELSE Remains(Effect(m, op, a, v))}
                  ELSE {}
    IN  good \cup misplaced \cup failed

\* The call of controller k (counted from 0) is answered with r; an address is
\* lost when it is gone although the call was not to read it.
Answered(k, r, read) ==
    /\ controllers' = [controllers EXCEPT ![k + 1].mem = r.mem]
    /\ faults' = IF r.status = "kServerError" THEN faults + 1 ELSE faults
    /\ lost' = lost \cup {a \in Stored(controllers[k + 1].mem) :
                             r.mem[a] = NoVal /\ ~(a = read /\ r.status = "kOK")}

-------------------------------------------------------------------------------
(* An access. *)

Matches(s, a) == {j \in DOMAIN slots[s] : slots[s][j].id = a}
First(S) == CHOOSE j \in S : \A k \in S : j <= k
Valid == SlotIds \cap 0..(Len(controllers) - 1)

\* Mutant of Sampled: the bound is taken to be exclusive.
SampledTooFar == 0..Len(controllers)

\* The slot ids that UniformRandom may give.
Sampled == 0..(Len(controllers) - 1)

\* A block that was declared and not set.
Junk == [id : Addr \cup {NoAddr}, data : {Garbage}]

\* Sampling one of no controllers divides by zero.
AccessWithoutRun ==
    /\ pc = "idle" /\ controllers = <<>>
    /\ Stop("undefined")
    /\ UNCHANGED <<controllers, owner, slots, position_map, nu, is_initialized,
                   call, buffer, input, faults, latest, lost, refused, junked>>

\* Mutant of NewPosition: the old slot stays.
OldPosition(a, new) == position_map

NewPosition(a, new) == [position_map EXCEPT ![a] = new]

\* What every access begins with.
BeginAccess(op, a, new) ==
    /\ pc = "idle" /\ controllers # <<>> /\ new \in Sampled
    /\ position_map' = NewPosition(a, new)
    /\ call' = [op |-> op, address |-> a]
    /\ UNCHANGED <<owner, nu, is_initialized, input, refused>>

\* After the block was fetched: it is replaced or handed out, and joins a slot.
Finish(op, a, v, new, block, rest) ==
    /\ slots' = [rest EXCEPT ![new] = Append(@,
                    IF op = "kWrite" THEN [id |-> a, data |-> v] ELSE block)]
    /\ buffer' = IF op = "kWrite" THEN v ELSE block.data
    /\ latest' = IF op = "kWrite" THEN [latest EXCEPT ![a] = v] ELSE latest
    /\ pc' = "evict" /\ i' = 0 /\ status' = "none"

\* The block is not in its slot.  The answer's status is not looked at, and a
\* write passes a block that was not set.
AccessController(op, a, v, new) ==
    LET s == position_map[a] IN
    /\ BeginAccess(op, a, new)
    /\ s \in Valid /\ new \in Valid
    /\ Matches(s, a) = {} /\ Held < MaxHeld
    /\ \E junk \in Junk : \E r \in Answers(controllers[s + 1], op, a, junk.data, FALSE) :
          /\ Answered(s, r, IF op = "kRead" THEN a ELSE NoAddr)
          /\ Finish(op, a, v, new,
                    IF r.status = "kOK" THEN [id |-> a, data |-> r.data] ELSE junk,
                    slots)
          /\ junked' = (junked \/ (op = "kRead" /\ r.status # "kOK"))

\* The block is in its slot: a dummy read of the Path ORAM, which must succeed.
AccessSlot(op, a, v, new) ==
    LET s == position_map[a]
        j == First(Matches(s, a)) IN
    /\ BeginAccess(op, a, new)
    /\ s \in Valid /\ new \in Valid
    /\ Matches(s, a) # {}
    /\ \E r \in Answers(controllers[s + 1], "kRead", a, Garbage, TRUE) :
          /\ Answered(s, r, NoAddr)
          /\ \/ /\ r.status = "kOK"
                /\ Finish(op, a, v, new, slots[s][j],
                          [slots EXCEPT ![s] = RemoveAt(@, j)])
             \/ /\ r.status # "kOK"
                /\ Stop("aborted")
                /\ UNCHANGED <<slots, buffer, latest>>
    /\ UNCHANGED junked

\* A repeated Run leaves more controllers than slots.
AccessOutOfRange(op, a, new) ==
    /\ BeginAccess(op, a, new)
    /\ position_map[a] \notin Valid \/ new \notin Valid
    /\ Stop("undefined")
    /\ UNCHANGED <<controllers, slots, buffer, faults, latest, lost, refused, junked>>

\* One round of RandomEvict with slot id: a dummy write when the slot is empty,
\* otherwise its last block is written.
Evict(id) ==
    LET block == Last(slots[id])
        empty == slots[id] = <<>> IN
    /\ pc = "evict" /\ i < nu
    /\ id \in Sampled \cap Valid
    /\ slots' = IF empty THEN slots ELSE [slots EXCEPT ![id] = Front(@)]
    /\ \E r \in IF empty
                THEN Answers(controllers[id + 1], "kWrite", 0, Garbage, TRUE)
                ELSE IF block.id = NoAddr
                THEN {Answer("kObjectNotFound", controllers[id + 1].mem, Garbage)}
                ELSE Answers(controllers[id + 1], "kWrite", block.id, block.data, FALSE) :
          /\ Answered(id, r, NoAddr)
          /\ \/ r.status = "kOK" /\ GoOn
             \/ r.status # "kOK" /\ Stop("aborted")
    /\ UNCHANGED <<owner, position_map, nu, is_initialized, call, buffer, input,
                   latest, refused, junked>>

EvictOutOfRange ==
    /\ pc = "evict" /\ i < nu
    /\ Sampled \ Valid # {}
    /\ Stop("undefined")
    /\ UNCHANGED <<controllers, owner, slots, position_map, nu, is_initialized,
                   call, buffer, input, faults, latest, lost, refused, junked>>

AccessReturns ==
    /\ pc = "evict" /\ i = nu
    /\ Return("kOK")
    /\ UNCHANGED <<controllers, owner, slots, position_map, nu, is_initialized,
                   call, buffer, input, faults, latest, lost, refused, junked>>

-------------------------------------------------------------------------------
Arguments(op) == IF op = "kWrite" THEN Val ELSE {NoVal}

Call ==
    \/ Run \/ Reset \/ AccessWithoutRun
    \/ \E d \in Inputs : FillWithData(d)
    \/ \E op \in {"kRead", "kWrite"}, a \in Addr, new \in Sampled :
          \/ \E v \in Arguments(op) :
                AccessController(op, a, v, new) \/ AccessSlot(op, a, v, new)
          \/ AccessOutOfRange(op, a, new)

Step ==
    \/ \E outcome \in {"answered", "request_lost", "reply_lost"} :
          InitOram(outcome) \/ FillController(outcome)
    \/ \E id \in SlotIds : Evict(id)
    \/ EvictOutOfRange
    \/ AccessReturns

Next == Call \/ Step

Spec == Init /\ [][Next]_vars

\* A call that was begun goes on: the controller's thread does nothing else, and
\* the calls of the Path ORAMs end (EveryCallEnds of PathOram).
FairSpec == Spec /\ WF_vars(Step)

-------------------------------------------------------------------------------
(* Properties. *)

\* Every variable has its type.
TypeOK ==
    /\ controllers \in Seq([id : SlotIds, filled : BOOLEAN, mem : Contents])
    /\ owner \in [SlotIds -> 0..(MaxControllers + 1)]
    /\ slots \in [SlotIds -> Seq(Block)]
    /\ position_map \in [Addr -> 0..(MaxControllers - 1)]
    /\ nu \in NuValues
    /\ is_initialized \in BOOLEAN
    /\ pc \in {"idle", "init", "fill", "evict", "aborted", "undefined"}
    /\ i \in Nat
    /\ call \in [op : {"kRead", "kWrite"}, address : Addr]
    /\ buffer \in Val \cup {NoVal, Garbage}
    /\ status \in {"none", "kOK", "kServerError", "kInvalidArgument"}
    /\ faults \in 0..MaxFaults
    /\ latest \in Contents
    /\ lost \subseteq Addr
    /\ refused \in BOOLEAN
    /\ junked \in BOOLEAN

\* Until garbage has come in, a block in the slots is in one slot only, the one
\* the position map names, and it is what was last stored: the map, which is
\* changed before the block is fetched, and the slots, which are changed after,
\* agree again whatever the Path ORAMs have answered.
SlotsAgree ==
    ~junked /\ pc \notin {"aborted", "undefined"} =>
        \A s \in SlotIds : \A j \in DOMAIN slots[s] :
            LET b == slots[s][j] IN
            /\ b.id \in Addr /\ position_map[b.id] = s /\ b.data = latest[b.id]
            /\ Matches(s, b.id) = {j}

\* A block that is not in its slot is in the Path ORAM the map names with what
\* was last stored, unless a Path ORAM has dropped it: the copy that a write
\* access leaves behind (with contents that were never set) is never the one an
\* access finds.
StaleCopyHidden ==
    ~junked /\ pc \in {"idle", "evict"} =>
        \A a \in Addr : \A k \in DOMAIN controllers :
            /\ position_map[a] = k - 1 /\ k - 1 \in SlotIds /\ controllers[k].filled
            /\ Matches(k - 1, a) = {}
            => controllers[k].mem[a] \in {latest[a], NoVal}

\* A read is answered with garbage only for an address that was never stored or
\* was dropped by a Path ORAM, in a dummy access or a failed one; or when a call of
\* a Path ORAM fails or has failed.
GarbageJustified ==
    [][pc = "idle" /\ junked' /\ ~junked =>
          LET a == call'.address IN
          latest[a] = NoVal \/ a \in lost \/ faults' > 0]_vars

\* Behaviour is undefined only when there is no Path ORAM, or when there are more of
\* them than slots and a Run, one that was repeated included, has answered an error:
\* a caller that stops after such an answer never gets there.
UndefinedJustified ==
    pc = "undefined" => controllers = <<>> \/ (Len(controllers) > squared /\ refused)

\* A block is evicted into the Path ORAM it came from: one that was moved to
\* another partition, or taken out of its own by a read, is never written back,
\* so no address is ever in two Path ORAMs.
OneHome ==
    \A a \in Addr : Cardinality({k \in DOMAIN controllers : controllers[k].mem[a] # NoVal}) <= 1

\* Slots, position map and Path ORAMs are consistent between any two calls.
Consistent == TypeOK /\ SlotsAgree /\ StaleCopyHidden /\ OneHome

\* Every call comes to an end.
EveryCallEnds == pc \in {"init", "fill", "evict"} ~> pc \in {"idle", "aborted", "undefined"}
===============================================================================
