------------------------------- MODULE SqrtOram -------------------------------
(***************************************************************************)
(* The Square Root ORAM controller (core/square_root_oram_controller) and  *)
(* its memory on the server (server/sqrt_oram_storage).  One step is one   *)
(* RPC with its handler, or the work between two RPCs.  An RPC may fail    *)
(* before or after its handler ran.                                        *)
(*                                                                         *)
(* Positions and block ids are numbers from 0, as in the code; the         *)
(* server's vectors are sequences, so position p is index p + 1.  A stored *)
(* block is what its ciphertext decrypts to.                               *)
(***************************************************************************)
EXTENDS Integers, Sequences, FiniteSets

CONSTANTS
    block_num,    \* m, the blocks of the caller
    sqrt_m,       \* dummies, and slots of the shelter
    Val,          \* block contents
    Nonsense,     \* the contents of padding, and of a buffer not filled
    Cipher,       \* contents that are still encrypted
    DataSizes,    \* how many kNormal blocks FillWithData may be given
    Shuffles,     \* the permutations RandomPermutation may return
    MaxFills,     \* bound: fills that reach the server's memory
    MaxFaults     \* bound: RPCs that fail

N == block_num + sqrt_m
Ids == 0..(N - 1)

ASSUME SqrtAssumption ==
    /\ block_num \in Nat \ {0} /\ sqrt_m \in Nat \ {0}
    /\ (sqrt_m - 1) * (sqrt_m - 1) < block_num
    /\ block_num <= sqrt_m * sqrt_m
    /\ \E k \in 1..N : 2^k = N      \* the constructor insists on it
    /\ DataSizes \subseteq 0..block_num
    /\ Nonsense \notin Val /\ Cipher \notin Val /\ Nonsense # Cipher
    /\ Val # {}
    /\ MaxFills \in Nat \ {0}
    /\ MaxFaults \in Nat

Permutations == {f \in [Ids -> Ids] : \A i, j \in Ids : f[i] = f[j] => i = j}

ASSUME ShuffleAssumption == Shuffles \subseteq Permutations

Types == {"kNormal", "other"}
Block == [id : Ids, type : Types, data : Val \cup {Nonsense, Cipher}]

\* kInvalidMask and an empty string.
FreeSlot == [tag |-> -1, content |-> {}]
Slots == [tag : Ids \cup {-1}, content : {{}} \cup {{b} : b \in Block}]

\* Outside an access.
NoCall == [op |-> "kRead", address |-> 0]
NoBlock == [id |-> 0, type |-> "other", data |-> Nonsense]

VARIABLES
    registered,       \* server: storages_ has this ORAM's id
    main_memory,      \* server: sequence of blocks
    dummy,            \* server: sequence of blocks
    shelter,          \* server: sequence of slots
    panicked,         \* server: the process is gone
    is_initialized,   \* controller
    position_map,     \* controller: function on Ids, or on {} before the fill
    next_dummy,       \* controller
    counter,          \* controller
    pc,               \* where the controller is
    call,             \* the access in progress
    slot,             \* loop variable of ReadShelter
    in_shelter,       \* local of InternalAccess
    block,            \* local of InternalAccess
    buffer,           \* contents of the caller's data block
    status,           \* answer to the last call, "none" during one
    faults,           \* RPCs that failed
    latest,           \* ghost: what the caller has stored at each address
    diverged          \* ghost: a fill failed or was repeated, or a permutation's answer was lost

server_vars == <<registered, main_memory, dummy, shelter, panicked>>
vars == <<registered, main_memory, dummy, shelter, panicked, is_initialized,
          position_map, next_dummy, counter, pc, call, slot, in_shelter, block,
          buffer, status, faults, latest, diverged>>

Init ==
    /\ registered = FALSE /\ panicked = FALSE
    /\ main_memory = <<>> /\ dummy = <<>> /\ shelter = <<>>
    /\ is_initialized = FALSE
    /\ position_map = <<>>
    /\ next_dummy = 0
    /\ counter = 0
    /\ pc = "idle"
    /\ call = NoCall
    /\ slot = 0
    /\ in_shelter = FALSE
    /\ block = NoBlock
    /\ buffer = Nonsense
    /\ status = "none"
    /\ faults = 0
    /\ latest = [a \in Ids |-> Nonsense]
    /\ diverged = FALSE

-------------------------------------------------------------------------------
Outcomes == {"answered", "request_lost", "reply_lost"}

\* A dead server answers nothing, at no charge to the bound.
Rpc(outcome) ==
    \/ outcome = "answered" /\ ~panicked /\ UNCHANGED faults
    \/ outcome = "request_lost" /\ panicked /\ UNCHANGED faults
    \/ /\ outcome # "answered" /\ ~panicked
       /\ faults < MaxFaults
       /\ faults' = faults + 1

Executed(outcome) == outcome # "request_lost"

\* The locals of an access that is over.
Finished == slot' = 0 /\ in_shelter' = FALSE /\ call' = NoCall /\ block' = NoBlock

Return(s) == pc' = "idle" /\ status' = s /\ Finished

InitOram(outcome) ==
    /\ pc = "idle"
    /\ Rpc(outcome)
    /\ registered' = (registered \/ Executed(outcome))
    /\ status' = IF outcome = "answered" /\ ~registered THEN "kOK"
                 ELSE "kServerError"
    /\ UNCHANGED <<main_memory, dummy, shelter, panicked, is_initialized,
                   position_map, next_dummy, counter, pc, call, slot,
                   in_shelter, block, buffer, latest, diverged>>

\* The first n blocks are the caller's, the rest is padding, sorted by id.
Padded(n, v) ==
    [i \in Ids |-> IF i < n THEN [id |-> i, type |-> "kNormal", data |-> v]
                   ELSE [id |-> i, type |-> "other", data |-> Nonsense]]

\* PermuteBy: the element at i goes to perm[i].
PermuteBy(perm, arr) ==
    [p \in Ids |-> arr[CHOOSE i \in Ids : perm[i] = p]]

\* Mutants of UpdatePosition: positions counted from one; the composition the
\* other way round.
UpdateFromOne(perm) ==
    IF DOMAIN position_map = {} THEN [i \in Ids |-> perm[i] + 1]
    ELSE [i \in Ids |-> perm[position_map[i]]]
UpdateSwapped(perm) ==
    IF DOMAIN position_map = {} THEN perm
    ELSE [i \in Ids |-> position_map[perm[i]]]

\* The first permutation is the map; a later one moves what is mapped.
UpdatePosition(perm) ==
    IF DOMAIN position_map = {} THEN perm
    ELSE [i \in Ids |-> perm[position_map[i]]]

\* The map is updated before the server is asked to load.  A call may be made
\* again, after a failure or a success: the map is then composed with one more
\* permutation, while Fill appends to what is there.
FillWithData(n, v, perm, outcome) ==
    LET arr == PermuteBy(perm, Padded(n, v)) IN
    /\ pc = "idle"
    /\ Len(main_memory) < MaxFills * block_num
    /\ Rpc(outcome)
    /\ position_map' = UpdatePosition(perm)
    /\ IF registered /\ Executed(outcome)
       THEN /\ main_memory' = main_memory \o [p \in 1..block_num |-> arr[p - 1]]
            /\ dummy' = dummy \o [p \in 1..sqrt_m |-> arr[block_num + p - 1]]
            /\ shelter' = shelter \o [p \in 1..sqrt_m |-> FreeSlot]
       ELSE UNCHANGED <<main_memory, dummy, shelter>>
    /\ \/ /\ registered /\ outcome = "answered"
          /\ is_initialized' = TRUE
          /\ status' = "kOK"
          /\ latest' = [a \in Ids |-> IF a < n THEN v ELSE Nonsense]
          /\ diverged' = (diverged \/ is_initialized)
       \/ /\ ~(registered /\ outcome = "answered")
          /\ status' = "kServerError"
          /\ diverged' = TRUE
          /\ UNCHANGED <<is_initialized, latest>>
    /\ UNCHANGED <<registered, panicked, next_dummy, counter, pc, call, slot,
                   in_shelter, block, buffer>>

-------------------------------------------------------------------------------
(* An access. *)

Refuse(s) ==
    /\ pc = "idle"
    /\ status' = s
    /\ UNCHANGED <<is_initialized, position_map, next_dummy, counter, pc, call,
                   slot, in_shelter, block, buffer, faults, latest, diverged>>
    /\ UNCHANGED server_vars

AccessNotInitialized == ~is_initialized /\ Refuse("kInvalidOperation")

\* The ids of the padding are in the position map too.
AccessUnknownAddress(a) ==
    /\ is_initialized
    /\ a \notin DOMAIN position_map
    /\ Refuse("kInvalidArgument")

Access(op, a, v) ==
    /\ pc = "idle"
    /\ is_initialized
    /\ a \in DOMAIN position_map
    /\ call' = [op |-> op, address |-> a]
    /\ buffer' = v
    /\ block' = [id |-> a, type |-> "kNormal", data |-> Nonsense]
    /\ in_shelter' = FALSE
    /\ slot' = 0
    /\ pc' = "scan"
    /\ status' = "none"
    /\ UNCHANGED <<is_initialized, position_map, next_dummy, counter, faults,
                   latest, diverged>>
    /\ UNCHANGED server_vars

\* Mutant of Released: the slot stays occupied.
NotReleased(i) == shelter

\* ReadBlockFromShelter has handed slot i out and freed it.
Released(i) == [shelter EXCEPT ![i] = FreeSlot]

\* Mutant of ScanFailed: the slot is asked for again.
ScanRetried == UNCHANGED <<pc, status, slot, in_shelter, call, block>>

\* A slot could not be read: the scan ends, and with it the access.
ScanFailed == Return("kServerError")

\* One iteration of ReadShelter: the server hands the slot out and frees it.
ReadShelter(outcome) ==
    LET content == shelter[slot + 1].content
        match == {b \in content : b.type = "kNormal" /\ b.id = call.address} IN
    /\ pc = "scan"
    /\ Rpc(outcome)
    /\ shelter' = IF Executed(outcome) THEN Released(slot + 1) ELSE shelter
    /\ \/ /\ outcome = "answered"
          /\ in_shelter' = (in_shelter \/ match # {})
          /\ block' = IF match = {} THEN block ELSE CHOOSE b \in match : TRUE
          /\ slot' = IF slot + 1 < sqrt_m THEN slot + 1 ELSE 0
          /\ pc' = IF slot + 1 < sqrt_m THEN "scan" ELSE "fetch"
          /\ UNCHANGED <<status, call>>
       \/ /\ outcome # "answered"
          /\ ScanFailed
    /\ UNCHANGED <<registered, main_memory, dummy, panicked, is_initialized,
                   position_map, next_dummy, counter, buffer, latest, diverged>>

position == position_map[call.address]

\* The block was in the shelter: the next dummy is read and ignored.  A dummy
\* that does not exist is read out of bounds, which may end the server.
ReadDummy(outcome) ==
    /\ pc = "fetch"
    /\ in_shelter
    /\ Rpc(outcome)
    /\ next_dummy' = next_dummy + 1
    /\ \/ UNCHANGED panicked
       \/ Executed(outcome) /\ next_dummy >= Len(dummy) /\ panicked' = TRUE
    /\ \/ /\ outcome = "answered" /\ ~panicked'
          /\ pc' = "write"
          /\ UNCHANGED <<status, slot, in_shelter, call, block>>
       \/ /\ outcome # "answered" \/ panicked'
          /\ Return("kServerError")
    /\ UNCHANGED <<registered, main_memory, dummy, shelter, is_initialized,
                   position_map, counter, buffer, latest, diverged>>

\* What ReadBlockFromMain finds at a position.
BlockAt(p) == IF p < Len(main_memory) THEN main_memory[p + 1]
              ELSE dummy[p - Len(main_memory) + 1]

\* The block was not in the shelter.  Only the id of a kNormal block is checked.
ReadMain(outcome) ==
    LET b == BlockAt(position)
        wrong == b.type = "kNormal" /\ b.id # call.address IN
    /\ pc = "fetch"
    /\ ~in_shelter
    /\ Rpc(outcome)
    /\ \/ outcome # "answered" /\ Return("kServerError")
       \/ outcome = "answered" /\ wrong /\ Return("kUnknownError")
       \/ /\ outcome = "answered" /\ ~wrong
          /\ block' = b
          /\ pc' = "write"
          /\ UNCHANGED <<status, slot, in_shelter, call>>
    /\ UNCHANGED <<is_initialized, position_map, next_dummy, counter, buffer,
                   latest, diverged>>
    /\ UNCHANGED server_vars

\* Slots WriteBlockToShelter may take: the first free one, or none.
FirstFree == {i \in DOMAIN shelter :
                 shelter[i] = FreeSlot /\ \A j \in 1..(i - 1) : shelter[j] # FreeSlot}

\* What is sent back: the block that was read, or the caller's.
Outgoing == IF call.op = "kRead" THEN block
            ELSE [id |-> call.address, type |-> "kNormal", data |-> buffer]

\* Mutant of PermuteOnFull: the dummies are not made available again.
PermuteKeepsDummies ==
    \/ /\ counter + 1 = sqrt_m
       /\ counter' = 0
       /\ pc' = "permute" /\ Finished
       /\ UNCHANGED <<next_dummy, status>>
    \/ /\ counter + 1 # sqrt_m
       /\ counter' = counter + 1
       /\ UNCHANGED next_dummy
       /\ Return("kOK")

\* The access is counted, and every sqrt_m-th one starts a permutation.
PermuteOnFull ==
    \/ /\ counter + 1 = sqrt_m
       /\ counter' = 0
       /\ next_dummy' = 0
       /\ pc' = "permute" /\ Finished
       /\ UNCHANGED status
    \/ /\ counter + 1 # sqrt_m
       /\ counter' = counter + 1
       /\ UNCHANGED next_dummy
       /\ Return("kOK")

\* WriteBlock encrypts in place: the caller's data block holds a ciphertext
\* afterwards, for a read (it was copied there first) and for a write.  A
\* failed write-back ends a write and goes unnoticed in a read, where its
\* status is overwritten.  Then PermuteOnFull counts the access.
WriteBlock(outcome) ==
    /\ pc = "write"
    /\ Rpc(outcome)
    /\ buffer' = Cipher
    /\ IF Executed(outcome)
       THEN \/ \E i \in FirstFree :
                  /\ shelter' = [shelter EXCEPT ![i] =
                                    [tag |-> position, content |-> {Outgoing}]]
                  /\ UNCHANGED panicked
            \/ FirstFree = {} /\ panicked' = TRUE /\ UNCHANGED shelter
       ELSE UNCHANGED <<shelter, panicked>>
    /\ LET ok == outcome = "answered" /\ ~panicked' IN
       \/ /\ ~ok /\ call.op = "kWrite"
          /\ Return("kServerError")
          /\ UNCHANGED <<counter, next_dummy, latest>>
       \/ /\ ok \/ call.op = "kRead"
          /\ latest' = IF call.op = "kRead" THEN latest
                       ELSE [latest EXCEPT ![call.address] = buffer]
          /\ PermuteOnFull
    /\ UNCHANGED <<registered, main_memory, dummy, is_initialized, position_map,
                   diverged>>

\* The memory of the server as one array, with the shelter written back.
Flushed ==
    [p \in 0..(Len(main_memory) + Len(dummy) - 1) |->
        LET updates == {i \in DOMAIN shelter : shelter[i].tag = p}
        IN  IF updates = {} THEN BlockAt(p)
            ELSE CHOOSE b \in shelter[CHOOSE i \in updates :
                                        \A j \in updates : j <= i].content : TRUE]

\* The server writes the shelter back and permutes; a permutation of the wrong
\* size ends it.  The map is updated when the answer arrives.
DoPermute(perm, outcome) ==
    /\ pc = "permute"
    /\ Rpc(outcome)
    /\ IF ~Executed(outcome) THEN UNCHANGED <<main_memory, dummy, shelter, panicked>>
       ELSE IF Len(main_memory) + Len(dummy) # N
       THEN panicked' = TRUE /\ UNCHANGED <<main_memory, dummy, shelter>>
       ELSE LET arr == PermuteBy(perm, Flushed) IN
            /\ main_memory' = [p \in DOMAIN main_memory |-> arr[p - 1]]
            /\ dummy' = [p \in DOMAIN dummy |-> arr[Len(main_memory) + p - 1]]
            /\ shelter' = [i \in DOMAIN shelter |-> FreeSlot]
            /\ UNCHANGED panicked
    /\ \/ /\ outcome = "answered" /\ ~panicked'
          /\ position_map' = UpdatePosition(perm)
          /\ Return("kOK")
          /\ UNCHANGED diverged
       \/ /\ outcome # "answered" \/ panicked'
          /\ diverged' = (diverged \/ Executed(outcome))
          /\ Return("kServerError")
          /\ UNCHANGED position_map
    /\ UNCHANGED <<registered, is_initialized, next_dummy, counter, buffer, latest>>

-------------------------------------------------------------------------------
Call ==
    \/ \E outcome \in Outcomes :
          \/ InitOram(outcome)
          \/ \E n \in DataSizes, v \in Val, perm \in Shuffles :
                FillWithData(n, v, perm, outcome)
    \/ AccessNotInitialized
    \/ AccessUnknownAddress(N)
    \/ \E a \in Ids : Access("kRead", a, Nonsense)
    \/ \E a \in Ids, v \in Val : Access("kWrite", a, v)

Step ==
    \E outcome \in Outcomes :
        \/ ReadShelter(outcome)
        \/ ReadDummy(outcome)
        \/ ReadMain(outcome)
        \/ WriteBlock(outcome)
        \/ \E perm \in Shuffles : DoPermute(perm, outcome)

Next == Call \/ Step

Spec == Init /\ [][Next]_vars

\* An RPC ends, answered or with an error, and the controller goes on.
FairSpec == Spec /\ WF_vars(Step)

-------------------------------------------------------------------------------
(* Properties. *)

\* Every variable has its type.
TypeOK ==
    /\ registered \in BOOLEAN /\ panicked \in BOOLEAN
    /\ main_memory \in Seq(Block) /\ dummy \in Seq(Block)
    /\ shelter \in Seq(Slots)
    /\ is_initialized \in BOOLEAN
    /\ position_map = <<>> \/ position_map \in Permutations
    /\ next_dummy \in Nat
    /\ counter \in 0..(sqrt_m - 1)
    /\ pc \in {"idle", "scan", "fetch", "write", "permute"}
    /\ call \in [op : {"kRead", "kWrite"}, address : Ids]
    /\ slot \in 0..(sqrt_m - 1)
    /\ in_shelter \in BOOLEAN
    /\ block \in Block
    /\ buffer \in Val \cup {Nonsense, Cipher}
    /\ status \in {"none", "kOK", "kServerError", "kInvalidOperation",
                   "kInvalidArgument", "kUnknownError"}
    /\ faults \in 0..MaxFaults
    /\ latest \in [Ids -> Val \cup {Nonsense}]
    /\ diverged \in BOOLEAN

\* The client's map and the server's memory agree through any number of
\* permutations: the block of an id is where the map says, and a block in the
\* shelter carries the position of its id.  Lost scans, reads and writes do not
\* disturb that; a failed fill, one made again after a success (nothing refuses
\* it), or a lost answer to a permutation, does.
PositionsAgree ==
    is_initialized /\ ~diverged =>
        /\ \A a \in Ids : BlockAt(position_map[a]).id = a
        /\ \A i \in DOMAIN shelter : \A b \in shelter[i].content :
              shelter[i].tag = position_map[b.id]

\* What the checks of either side say of the other.  The id of a block that was
\* fetched is the one that was asked for, unless the two sides have diverged.  A
\* dummy is used by an access that found its block in the shelter, so there are
\* fewer than the counted accesses and the failed RPCs, and the dummy that is
\* read exists while these are at most sqrt_m together: an access whose write-back
\* fails has used a dummy and is not counted.  The first access of a round finds an
\* empty shelter and uses none, so one failed RPC is made up for and never ends the
\* server; two can, whatever sqrt_m is.  Without a failed RPC it is ended only by a
\* permutation, after a memory that was filled more than once.
NoPanic ==
    /\ next_dummy <= counter + faults
    /\ ~diverged => status # "kUnknownError"
    /\ ~diverged /\ pc = "fetch" /\ in_shelter /\ counter + faults <= sqrt_m =>
          next_dummy < Len(dummy)
    /\ ~diverged /\ faults <= 1 => ~panicked
    /\ panicked /\ faults = 0 => Len(main_memory) + Len(dummy) > N

\* When the shelter has been scanned it is empty, so the write-back of the
\* access in progress always finds room; between two accesses it holds at most
\* the block of the last one.
ShelterDrained ==
    /\ pc \in {"fetch", "write"} => \A i \in 1..sqrt_m : shelter[i] = FreeSlot
    /\ Cardinality({i \in DOMAIN shelter : shelter[i] # FreeSlot}) <= 1

\* Every access that starts ends.
EveryCallEnds == pc # "idle" ~> pc = "idle"

\* What the comments of InternalAccess say about a block ("If a block is not
\* found in the shelter, then it MUST be in the main memory"): between calls
\* its latest contents are in one of the two.
LatestIsStored ==
    is_initialized /\ pc = "idle" /\ faults = 0 /\ ~diverged =>
        \A a \in Ids : latest[a] # Nonsense =>
            \/ \E i \in DOMAIN shelter : \E b \in shelter[i].content :
                  b.id = a /\ b.data = latest[a]
            \/ BlockAt(position_map[a]).data = latest[a]
===============================================================================
