# A TLA+ model of the Oblivious RAM library

The library keeps blocks of data on an untrusted gRPC server and hides which
block a client accesses. This directory models the controllers that run in the
client together with the storages they keep on the server, the service that runs
the requests of all clients, the structures built on the controllers (Partition
ORAM, oblivious dictionary), and what lies under them (start-up, session keys,
random choices, the wire format of the messages). It checks them with TLC on
small instances, and proves the safety properties of the Path ORAM, the Square Root
ORAM, the Linear ORAM, the Partition ORAM, the dictionary, the service, the client's
start-up and keys, and the random choices with TLAPS for all instances.

The models are about correctness (which block is where, what an answer means,
what a failed call leaves behind), not about obliviousness, which is a
statement about probability distributions.

## The system

| Component | State | Operations | Talks to |
|---|---|---|---|
| `PathOramController` | position map, stash, `is_initialized_` | `InitOram`, `FillWithData`, `Access`, `AccessDirect`, dummy access | tree storage: `InitTreeOram`, `ReadPath`, `WritePath` |
| `TreeOramServerStorage` | buckets by (level, offset) | `ReadPath` (clears what it reads), `WritePath`, `AccurateWritePath` | |
| `SquareRootOramController` | position map, `next_dummy_`, `counter_` | `InitOram`, `FillWithData`, `Access` (scan, fetch, write back, permute) | `ReadSqrtMemory`, `WriteSqrtMemory`, `SqrtPermute`, `LoadSqrtOram` |
| `SqrtOramServerStorage` | main memory, dummies, shelter | read (the shelter clears what it reads), write to shelter, permute, fill | |
| `LinearOramController` | `is_initialized_` | `InitOram`, `FillWithData`, `Access` | `ReadFlatMemory`, `WriteFlatMemory` |
| `FlatOramServerStorage` | one string of blocks | read all, replace all | |
| `OramService` | `storages_` by id, the cryptor | the RPC handlers, `ResetServer`, `KeyExchange` | runs handlers of all clients in gRPC's threads, without locks |
| `ServerRunner` | `server_running` | `Run`, monitor thread, shutdown by `CloseConnection` | |
| `PartitionOramController` | slots, position map, one Path ORAM per slot | `Access`, `Evict`, `RandomEvict`, `FillWithData` | its Path ORAM controllers, reads that remove, dummy accesses |
| `OdictController`, `OdsCache` | an AVL tree of blocks, an LRU cache, access counters | `Insert`, `Find`, rotations, padding | a Path ORAM with `AccessDirect` |
| `YamlParser` | the configuration | `Parse`, `DoParse`, `FromCommandLine` | files, flags |
| `OramClient` | the controller it built | constructor, `Ready`, `FillWithData`, `Read`, `Write` | one controller, the process's cryptor |
| `Cryptor` | key pair, session keys, one object per process | `SampleKeyPair`, `SampleSessionKey`, `NoNeedForSessionKey`, encryption | the peer's, through `KeyExchange` |
| sampling functions | none | `UniformRandom`, `RandomShuffle`, `RandomPermutation`, `SampleRandomBucket` | |
| generated messages, stub and service | fields, sizes computed before writing | set, `ByteSizeLong`, serialise, parse, merge | each other, through gRPC |

What makes it hard:

* An access is a sequence of RPCs, and the server's reads are destructive: the
  bucket of a path, or the slot of the shelter, is cleared by the handler that
  hands it out. Between two RPCs a block may exist only in a local variable.
* Any RPC may fail, and the controller cannot tell whether the handler ran.
  There is no retry and no rollback in the library: an error is returned, and
  the caller may go on.
* Client and server keep two halves of one data structure (position map and
  permuted memory) that are changed by separate messages.
* The handlers of the server run concurrently and nothing is locked.
* The Partition ORAM and the dictionary keep part of their data in the client
  between calls, change their own bookkeeping before they know whether the call
  below succeeds, and in places do not look at its status.
* All clients of a process share one cryptor, and so do all key exchanges of the
  server.

What correctness means, per component: the Path ORAM never has two copies of a
block, finds a block when it is there, and loses at most what lies on the path
of a failed access; the Square Root ORAM, filled once, keeps map and memory in step
through all permutations, never runs out of shelter slots, and of dummies only after
calls have failed; the Linear ORAM's write of a whole memory changes one block or
nothing; each of them is, to its caller, a memory. The service keeps the storages of its
clients apart, gives an id to one client, heeds a request to close, and does not crash
as long as the handlers that change its map of storages run alone and nobody asks for
its cryptor before it is set. The Partition ORAM
has an address in one partition only and finds it there; the dictionary is an AVL
tree of what was inserted; two sides that negotiate have the same keys and a
client's blocks stay readable; a random choice is uniform and a shuffle loses
nothing; a message arrives as it was set, at the handler that was meant.

## Modules

| Module | What it is |
|---|---|
| `BlockStore` | The abstract memory: a call is invoked, takes effect at most once, and is answered. `ReadRemoves`, `Lenient` (a failed load counts as one) and `SilentMiss` (a call about a block that is not there is answered `kOK`) are the ways in which the controllers' contracts differ. |
| `PathOram` | Path ORAM controller and tree storage. |
| `PathOramProofs` | Its inductive invariant and the safety theorems; `PathOram` implements `BlockStore`; what a step may lose. |
| `SqrtOram` | Square Root ORAM controller and storage. |
| `SqrtOramProofs` | Its inductive invariant and the safety theorems. |
| `LinearOram` | Linear ORAM controller and flat storage. |
| `LinearOramProofs` | Its invariant, its safety theorems, and the refinement of `BlockStore`. |
| `OramService` | The RPC handlers of all clients in the server's threads, and `ServerRunner`. |
| `OramServiceProofs` | Clients do not disturb each other's storages; who owns an id, why the server ends, and that a close is kept. |
| `PartitionOram` | Partition ORAM controller; a Path ORAM is the contract that `PathOram` is shown to implement, in one step. |
| `PartitionOramProofs` | Its inductive invariant and the safety theorems. |
| `Odict` | Oblivious dictionary and its cache, over the memory that `BlockStore` promises. |
| `OdictProofs` | Its inductive invariant, a tree that no step writes down, and the safety theorems. |
| `OramParse` | The configuration, as operators. |
| `OramClient` | Processes from start-up on, clients in them, session keys on both sides. Extends `OramParse`. |
| `OramClientProofs` | Its inductive invariant and the safety theorems. |
| `Sampling` | The random choices, draw by draw. |
| `SamplingProofs` | Its inductive invariant, and that draws are uniform and arrays permuted. |
| `ProtoWire` | Sizes, writing, reading and merging in the wire format, as operators. |
| `OramProtocol` | The messages and the RPC tables. Extends `ProtoWire`. |
| `Messages` | One message on its way from a sender to a receiver. Extends `OramProtocol`. |
| `MC...` | Values of the constants for TLC. |

The composition is by contract: `PathOram` implements `BlockStore` (proved, and
checked with reads that remove and dummy accesses in `path_oram_partition`), and
`PartitionOram` and `Odict` stand on that contract. What a failing call may do
there is what `LossIsLocal` allows: blocks of one path are gone, the effect may
have happened, and after a failure a block may be answered `kObjectNotFound`
although it exists.

### How the models correspond to the code

A controller is single-threaded and synchronous. One action is one RPC together
with the handler it runs on the server, or the work between two RPCs. `pc` is
the place in the code: `read`, `merge` and `write` are the three parts of
`InternalAccessDirect`; `scan`, `fetch`, `write`, `permute` the parts of the
Square Root access. Local variables of a call (`x`, `level`, the path buffer,
the shelter slot) are variables of the model and are reset when it returns.

`Rpc(outcome)` gives every RPC three outcomes: answered, request lost (the
handler did not run), reply lost (it ran). The controller sees the same
`kServerError` for the last two. `MaxFaults` bounds how often RPCs fail.

*Path ORAM.* `Access` remaps the address and starts the read loop at once, as
`InternalAccess` does. `ReadBucket` is one iteration of the read loop, with the
server's `ReadPath` (`Cleared`). `BlockNotFound` and `UpdateBlock` are the merge
into the stash and what follows. `WriteBucket` is one iteration of the write
loop: `FindSubsetOf` takes blocks out of the stash (`Subsets`), `WritePath`
replaces the bucket. The order of blocks in a bucket or in the stash is
abstracted: where `FindSubsetOf` takes the first ones that fit, the model takes
any. Padding is left out. (`PadStash` fills the header of padding with random
bytes, so a padding block could be taken for a data block with a probability of
about 2^-32; the model assumes it is not.) A failure in `FillWithData` aborts
the process (`CheckStatus`), which is `pc = "aborted"`.

*Square Root ORAM.* Blocks carry an id, a type and contents; the contents are
`Cipher` where the code leaves a ciphertext in a buffer. The shelter is scanned
slot by slot. The model follows the code in what it does to the caller's buffer
and in ignoring the status of the write-back of a read. The server's
assertions, and an access beyond a vector, end or may end the server
(`panicked`); a dead server answers nothing. The caller of a write is taken to
fill in the header of its block (id and type), as the test client does. Nothing in
the code refuses a second fill, after a failed one or a success, and the model makes
it too, up to `MaxFills` fills in the server's memory.

*Linear ORAM.* The memory is the set of its data blocks. `ReadFromServer` is the
RPC and the scan, `WriteToServer` the write-back.

*The service.* Each thread runs a handler, a record with the place it has reached
(`check`, `create`, `lookup`, `work`, ...); a step is what a handler does up to
the next access to shared state, so handlers interleave where the code lets
them. What a handler does to a storage is the subject of the other modules. Here
a storage holds one value, and the eight handlers that read, write, permute or
load a storage, which all begin with `CheckIdValid`, `storages_[id]` and
`CheckStorage`, are the one handler `Use`. A client creates one storage with its
own instance hash, so the client stands for both. Two handlers at places where
they access one object without a lock, one of them changing it, may end the
model as `undefined` (`DataRace`), as do a handler that uses or clears the pointer to the
cryptor while `Run` is about to set it (`RaceWithRun`), and the use of a storage that was
destroyed; a failed assertion and a null pointer end it as `panicked`.
`CrashJustified` says under which circumstances these do not happen, and the
ghosts `history` and `abandoned` record the circumstances. `ConnectionLost`
leaves a handler running for a client that has gone on. Key exchange matters
here only as a use of the cryptor's pointer, which is null before `Run` sets it
and after a reset; the keys themselves are in `OramClient`. `SendHello`,
`PrintOramTree` and `ReportServerInformation` only read and are left out.

*Partition ORAM.* `AccessController` and `AccessSlot` are `Access` up to the
eviction, for a block that is not in its slot and one that is; `Evict` is one
round of `RandomEvict`; `InitOram` and `FillController` are one iteration of
their loops. `nu_`, and the block that `Access` declares, are read without having
been set when nobody called `SetNu` or the Path ORAM answered an error: the model
lets them have any value of a small set (`NuValues`, `Junk`). Indexing a vector
beyond its end, or `front()` of an empty one, is `pc = "undefined"`; a failed
`CheckStatus` is `pc = "aborted"`. `Reset` keeps `is_initialized_` and the
server keeps the storages, so a `Run` after it is turned down.

*Dictionary.* The recursion of `InternalInsert` is `stack`; `Descend` and
`Ascend` are one level each, `Balance` decides on a rotation, and `tasks` is what
a double rotation has still to do. The code hands nodes around by pointer while
the cache keeps pointers too; because a changed node is written before anybody
looks it up, the model passes values. `ods.cache` is the list of the cache, most
recently used first, so the result of a call is its first element (`Top`). A
block that was filled with random data and never written is `Blank`; taking it
for a node ends the model as `garbled`. A tree that has a cycle after a lost
update makes the code recurse until its stack is full: `overflowed`, at
`MaxDepth`, which is at least the number of nodes (`DepthAssumption`). `ComputePadVal`
is a table, because TLA+ has no logarithm, and says nothing of numbers above 13.

*Start-up and keys.* A process reads its configuration as `main` of the test
client does (a file, or the flags if there is none), entry by entry. Its clients
are constructed, made ready, filled and accessed in any order that the class
allows, more than `main` itself does. Keys are terms that say what they were made
of, so two keys are equal only if they were computed from the same public keys; a
cryptor read while another thread writes it gives a key that nobody else has.
The path of the certificate decides whether a channel connects. The server refuses
an id that is taken or at its limit (`Accepts`), and the constructor of the Square
Root ORAM asserts that its size can be permuted (`Asserts`). The blocks of a client
are one thing, and `sealed` is the set of keys they are encrypted with: a fill of the
Linear ORAM replaces them, one of the others appends (`KeysOf`), so a repeated fill
may leave blocks under two keys. A fill takes random data or the lines of a file, and
may fail before or after the server has stored them: the Path ORAM then aborts, the
Linear ORAM counts as filled. An access under another key destroys the blocks, since
`ReadBucket` does not look at the status of `DecryptBlock` and what did not decrypt is
written back.

*Sampling.* A word has `Width` bits and wraps. The generator gives any word. The
format-preserving cipher may give any digits for any element, which is less than it
promises: neither its key nor the status of an encryption is looked at, and one that
fails leaves the zeros of its buffer. Or it ends the process (`src/README.md:16` warns
of `SIGSEGV`). `SqrtOram` takes from this module that a permutation is one, and does
not have the process that dies in it. `ord`, a quotient of floating-point logarithms that is
truncated, may come out one too small at powers of two.

*Messages.* The generated code of the 19 messages follows one scheme: the codec
of a message is the sequence of its fields with number and kind, and the
operators of `ProtoWire` say what the scheme makes of a kind. Each codec and each
object is mapped to the generated code of its message. Sizes are computed in one
step and used in another, as gRPC does; the parser takes one tag per step. A
receiver of another version has the same messages with fewer fields.

The models assume of callers that ids in an input are distinct (what
`SampleRandomBucket` builds), that a Path ORAM is filled once, and that a Square
Root ORAM is given at most `block_num` blocks. A second fill of a Path ORAM
appends to the tree and would duplicate every id. `OramParse` takes a number of
blocks below 2^30. `FromFile` sets `block_num_` to the number of lines it has read:
the modules of the controllers have an ORAM that was constructed for the number of
blocks it is filled with.

In `Odict` a failing access of the ORAM loses any set of at most `MaxLost` blocks, as a
failed access of a Path ORAM may lose those of a path (`LossIsLocal`). `Balance` hands
the root of a double rotation on by value, where `odict_controller.cc:132` reads it
again. The two are the same as long as the cache has room for the root and its child,
and `OdictAssumption` asks for a cache of two nodes: one of a single node, which the
configuration allows, is not modelled.

## Runs

No run checks for deadlock: a process that has aborted stops, and nothing in
the library obliges a caller to make another call.

| Run | Checks | Bounds |
|---|---|---|
| `path_oram` | `TypeOK`, `NoLoss`, `OneCopy`, `OnPath`, `WritesEmptyBuckets`, `NotFoundJustified`, `LossIsLocal`, `ImplementsStore`, `EveryCallEnds` | 2 blocks, 3 buckets of 1, 2 failures, an input longer than the tree |
| `path_oram_partition` | `IInv`, `ImplementsStore` with reads that remove | 3 blocks in 3 buckets of 1, 1 failure, dummy accesses |
| `sqrt_oram` | `TypeOK`, `PositionsAgree`, `ShelterDrained`, `NoPanic`, `EveryCallEnds` | m = 2, two permutations that do not commute, 2 fills, 1 failure; the server may die |
| `sqrt_lost_write` | `LatestIsStored` is violated | no failure |
| `linear_oram` | `CopyIsCurrent`, `AnswersAreTrue`, `ImplementsStore`, `EveryCallEnds` | 3 addresses, 2 of them stored, 3 failures |
| `linear_out_of_range` | `OutOfRangeReported` is violated | the same |
| `oram_service` | `TypeOK`, `RegistrationExclusive`, `CrashJustified`, `StoredIsKept`, `CloseNotForgotten` | 2 clients, 2 threads, 3 ids of which the limit allows 2; clients with one id and one type, one id and two types, two ids, an id too large |
| `partition_oram` | `Consistent`, `UndefinedJustified`, `GarbageJustified`, `EveryCallEnds` | 2 slots, 2 addresses, 2 contents, 0 or 1 evictions per access, 1 failure, up to 3 Path ORAMs, 2 blocks in the slots |
| `odict` | `TreeSound`, `FailuresJustified`, `FindsFirst`, `EveryCallEnds` | 4 keys, 5 insertions, caches of 2 and 3, ORAMs of 4 and 6 blocks, 1 failure that loses up to 2 blocks |
| `oram_client` | `KeysKept`, `StartJustified`, `KeysAgree`, `StartupEnds` | 2 processes with 2 and 1 clients, 12 pairs of configurations, 3 ids of which the limit allows 2, 4 keys, 2 starts, 1 failure |
| `sampling` | `SamplesSound` | words of 4 bits, all ranges, arrays of up to 5 elements |
| `messages` | `Delivered`, `WireSound` | all 17 RPCs in both directions, 3 calls that set fields, numbers and payloads of one and two bytes of length, receivers that know none, 2 or all fields, cuts after at most 8 bytes |

Why the bounds are enough to be interesting. A tree of three buckets has two
leaves, so blocks of different paths share the root and only the root; with
buckets of one block, a bucket overflows as soon as two blocks want it, and the
stash is used. Two failures allow an access that fails while the traces of an
earlier failed one are still there. With m = 2 the Square Root ORAM has two
dummies and two shelter slots, so permutations happen after every second access
and the composition of permutations is not commutative. A second fill is
enough for a memory of the wrong size. In the service, every
hazard is one between two handlers, so two threads are enough to show it; the
clients' configurations are the ways in which two requests can meet. Two slots
are enough for a block to move from one partition to another while the other
block stays; three Path ORAMs are one more than the slots, from a `Run` that has
failed and is made again. A `Run` after one that succeeded, where the server turns
down the first request, needs a bound of four, which takes TLC too long next to
`EveryCallEnds`: the theorems about `PartitionOram` cover it. Four keys in every
order reach all four rotations and, with equal keys, an insertion that finds its
key; a cache of two is too small for a rotation and one of three just large enough.
Two processes and a second client in one of them are the ways in which two users of
one cryptor can meet; the pairs of configurations have every type of ORAM, sizes that a
Square Root ORAM can permute and cannot, ids that are free, taken and too large, and
data from a file that exists and from one that does not. A word of four bits has ranges that divide it, that do not,
and the range that wraps. Field lengths of 1 and 128 are on both sides of the first
size boundary of the wire format. Except for insertions, keys and starts, which are
counted, behaviours are not bounded in length: calls repeat for ever.

Every property of a passing run is shown to depend on the code by a mutant of a
definition (listed in `PROJECT.json`, defined next to the original): a plausible
slip in that definition violates the property.

### What the runs show

* `Consistent`: until garbage has come in, a block is in one slot or one Path
  ORAM, the one the position map names, with the last contents. A write access
  leaves a copy with contents that were never set in the old Path ORAM; it is
  never the copy that is found. `GarbageJustified` names the ways garbage comes
  in: the address was never stored, a dummy access or a failed one has dropped
  it, or a call of a Path ORAM fails or has failed. `UndefinedJustified`: slot
  numbers go wrong only in a controller whose `Run` has answered an error, and a
  second `Run` of one that works always answers one, because the server has the id
  of the first storage.
* `NoPanic`: an access whose write-back fails has used a dummy and is not counted,
  so failed calls use up the dummies of a round. One failure never ends the server,
  because the first access of a round finds an empty shelter and uses none; two can,
  whatever the size of the memory. Without any failure the server ends only at a
  permutation after a repeated fill: the memory is larger than what is permuted.
* `TreeSound` holds after every operation as long as no update is lost, and
  `DropJustified` says exactly when one is: an access of the ORAM failed, the ORAM
  has fewer blocks than nodes, or the cache has no more room than the longest
  path of an AVL tree of that size. `PanicJustified`: the assertion of the padding
  fails only for an insertion that rotates (and it is reached: in an ORAM of four
  blocks with room for three nodes in the cache, without any failure, the third
  insertion can make more accesses than `ComputePadVal` allows when it rotates).
* `KeysAgree` holds for a negotiation that no other handler overlaps. When two
  overlap, a client may compute a key that the server does not have; `KeysApart`
  shows that even then no two processes get the same key. `RuinJustified`: blocks
  become unreadable only by a second `Ready`, which replaces the key that all
  clients of the process share.
* `EndJustified`: a start ends in the constructor only because of another certificate,
  an id that is taken (by a client of the same process too, or by this process before
  it was restarted) or too large, a size, or a failed RPC. A fill that aborts has seen a
  failed RPC.
* `SamplesSound`: `RandomPermutation` permutes whatever the cipher does, because
  the indices are only used to swap, and have no more digits than fit the size. If the
  cipher ends the process, nothing has been moved. The rejection loop is uniform; asking
  for the whole word divides by zero.
* `WireSound` and `Delivered`: a body that is accepted loses nothing, unknown
  fields included, and a body that is refused was cut.

### What the violated properties say

`LatestIsStored`: in the Square Root ORAM every access empties the whole shelter
and puts back one block. A write to one block followed by an access to another
loses the write, although both were answered `kOK`.

`OutOfRangeReported`: the status codes promise `kOutOfRange` for a block that the ORAM
does not have (`base/oram_status.h:77-79`). The Linear ORAM scans its memory, finds no
such block and answers `kOK`; a write is then stored nowhere. `ImplementsStore` of the
same module is about the memory that is left (`SilentMiss`).

The models also follow the code where it differs from its comments, without a
property of their own:

* `FindSubsetOf` of the Path ORAM compares whole paths (`Subsets`), so only blocks
  of the very same leaf ever leave the stash; the comment of the write loop
  promises the deepest bucket that both paths share.
* `WriteBlock` of the Square Root ORAM encrypts the caller's buffer in place,
  after the result of a read was copied to it (`Outgoing`).
* The number under `Id` in a configuration file is assigned to the path of the
  certificate (`oram_parse.cc:104`), where `client.yml:23` and the description of the
  flag (`oram_parse.cc:42`) have it as the id of the controller (`FieldOf`). Two
  processes that read files ask for the storage 0 both, or cannot connect.

Two more weaknesses of the Square Root ORAM are marked in the model (the ghost
`diverged`) and the properties are stated up to them, because the code has
nothing that detects or repairs them. A `FillWithData` that is repeated, after a
failure or after a success, composes two permutations in the client's map, while the
server appends what it is sent; the map then names places of the first fill, and the
next permutation ends the server (`sqrt_oram_storage.cc:43`). After a lost answer to `SqrtPermute` the map is wrong, and the
check of ids notices that only if the block found is a `kNormal` one.

### Fairness

`FairSpec` of each module adds weak fairness of `Step`, the steps of a call in
progress. The controller's thread does nothing else while it is in a call, and
a gRPC call without a deadline ends when the handler returns or the connection
breaks. No fairness is assumed of `Call`: nobody has to call. Which outcome an
RPC has is not constrained either. In `PartitionOram` and `Odict` a step contains
calls of a Path ORAM, which end by `EveryCallEnds` of `PathOram`. `OramClient` has
weak fairness of `Startup`, which a process does alone and without waiting, and of
`Negotiation`, the server's handlers. `OramService` has no liveness property;
`CloseNotForgotten` is the safety part of "a request to close ends the server".

## Proofs

The theorems hold for every value of the constants: any number of addresses,
contents, slots, clients, processes and threads, any inputs and permutations, any
number of failures. What is assumed of the constants is named in each module and
evaluated by TLC on every instance that is run.

| Module | Assumed | Proved, besides the inductive invariant |
|---|---|---|
| `PathOramProofs` | `ConstantsAssumption`, `TreeAssumption` | `TypeOK`, `OneCopy`, `OnPath`, `WritesEmptyBuckets`, `NotFoundJustified`, `ImplementsStore`, `NoLoss`, `LossIsLocal` |
| `SqrtOramProofs` | `SqrtAssumption`, `ShuffleAssumption` | `TypeOK`, `PositionsAgree`, `ShelterDrained`, `NoPanic` |
| `LinearOramProofs` | `LinearAssumption` | `TypeOK`, `CopyIsCurrent`, `AnswersAreTrue`, `ImplementsStore` |
| `PartitionOramProofs` | `PartitionAssumption`, `InputAssumption` | `Consistent`, `UndefinedJustified`, `GarbageJustified` |
| `OdictProofs` | `OdictAssumption`, `DepthAssumption` | `TypeOK`, `TreeSound`, `FindsFirst`, `DropJustified`, `StopJustified`; and, where `PadCovers`, `PanicJustified`, so `FailuresJustified` |
| `OramServiceProofs` | `ServiceAssumption` | `TypeOK`, `StoredIsKept`, `RegistrationExclusive`, `CrashJustified`, `CloseNotForgotten` |
| `OramClientProofs` | `ClientAssumption`, `ScenarioAssumption` | `KeysKept`, `KeysAgree`, `StartJustified` |
| `SamplingProofs` | `SamplingAssumption`, `PowerAssumption` | `SamplesSound` |

Most assumptions are the types of the constants. `TreeAssumption` says of powers of
two what the solvers cannot derive from the definition of exponentiation (2^0 = 1,
2^(l+1) = 2 * 2^l, 2^l is positive and divides 2^tree_level) and that the server
computes the height the client uses; `PowerAssumption` says that the powers of two up
to the size of a word are positive. `InputAssumption`, and a part of
`ConstantsAssumption`, say that the ids in an input are distinct, as
`SampleRandomBucket` makes them. `ShuffleAssumption` says that a shuffle is a
permutation, which `SamplesSound` of `Sampling` proves of the functions that make one.
`ScenarioAssumption` says that a file is a list, of entries or of lines, and that ids are
those of the instance. `DepthAssumption` says that
the thread's stack has room for a call per node of the dictionary. The two theorems
about the assertion of the padding have the hypothesis `PadCovers`, that the padding has
one access for every node; `PadEnough` proves it for up to twelve insertions, which is
as far as it is true of the code's formula. With more nodes a tree that failures have
damaged might be deeper than the padding, and no theorem says what happens then.

*Path ORAM.* The inductive invariant `IInv` is the conjunction of

* `TypeOK`;
* `OneCopy`, `OnPath`, `WritesEmptyBuckets`, `NotFoundJustified`, the properties
  themselves;
* `FillProgress`: during the fill, the tree holds entries of the input before
  `p_data` and nothing else. Without it the next bucket could repeat an id;
* `CallProgress`: which arguments are possible at which place, and when the path
  buffer is empty. Without it a stale buffer could be merged;
* `OldPath`: while a remapped block is looked for, it is on the old path, and
  after the read loop it is not on the server at all. That is why
  `kObjectNotFound` is justified, and why `OnPath`, which allows an exception
  during the search, is restored when the search ends.

`OneCopy` needs `WritesEmptyBuckets` (a bucket that is replaced had nothing),
`WritesEmptyBuckets` needs that the buckets of a path are distinct and that the
bucket a level lower is not one of them (`TagInTree`), and `OnPath` needs that
the paths sampled for a bucket cross it (`SpanCrossesBucket`).

The refinement maps the abstract memory to the blocks that exist anywhere
(stash, path buffer, tree). The effect of a call is `UpdateBlock`; a failing
RPC shrinks the memory; everything else is a stutter or an answer. The lookup is
well defined because of `OneCopy`. `LossIsLocal` follows action by action from the
same description of what a step does to the set of blocks (`HeldStep`). `NoLoss`
adds `FillKeeps`: the fill loop, which counts levels down and offsets up, has passed
`BucketsDone` buckets, so when it has passed the last one it has passed the whole of
an input no longer than `Capacity`; what it has passed is in the tree.

*Square Root ORAM.* The invariant is about one round between two permutations.
`Sizes`: once a fill has succeeded the map is a permutation and the server's vectors
have the lengths the controller relies on. `ShelterInv`: only the first slot of the
shelter is ever taken, since every scan empties what it reads before the one
write-back of the access. `Dummies`: `next_dummy_` is at most the accesses counted and
the RPCs failed, and strictly less before a block that was found in the shelter is
exchanged for a dummy. As long as no RPC has failed, the server has died only with more
blocks than a permutation moves. `Fetched`: the block of the access in progress is the one that
was asked for. `PositionsAgree` needs that `PermuteBy` and `UpdatePosition` move a
block and its map entry alike (lemmas `Permuted` and `Updated`; a permutation is
onto because the positions are finite).

*Linear ORAM.* The invariant says that the controller's copy differs from the
server's memory in the block of the call (`CopyIsCurrent`). A read takes effect with
its first RPC and a write with its second, so the memory of a failed write is the old
one or the new one.

*Partition ORAM.* `SlotsInv` says of each slot that its blocks are where the map says,
have the last contents and are there once. `StaleAt` and `KeptAt` say of each address
that is in no slot what the Path ORAM of its map entry has: nothing or the last
contents; and, if the address was stored and not dropped, something. Both hold of the
Path ORAM that the map names only, since a write leaves a copy in the old one; they
survive because the map entry of an address changes only in the step that puts the
address into a slot, and a block goes back into the Path ORAM of the slot it is taken
from. `AnswersSound` collects what all answers of a Path ORAM have in common: contents
change at the address of the call or vanish. `HomeInv` (no address in two Path ORAMs)
rests on that and on the distinct ids of an input. `FillInv` is the loop invariant of
`FillWithData`, and `LostInv` says that nothing is dropped before it ends. `RunInv`
counts the Path ORAMs: as long as no `Run` has answered an error there is none or one
for each slot.

*Dictionary.* The shape of the tree is a matter of induction, which the provers do not
have, and between two rotations the nodes of one tree are spread over the ORAM, the
cache, `stack` and `tasks`. So the invariant says that *some* tree is being worked on:
`Sound` asserts, until an update is lost, that there are a function `L` from ids to
nodes and a function `U` from ids to sets of ids, the subtree of each, such that

* `U[j]` is `j` and the sets of its two children, whose keys are on the right sides of
  the key of `j`, and no node has two parents (`Tree`): what would be a recursive
  definition is stated as an equation;
* the heights in `L` are those of the children (`Tall`) and differ by one at most, except
  in nodes that are still to be balanced (`Even`), and the tree of the root holds the
  keys and values of `dict` (`Holds`);
* the nodes on `stack` are a path from the root to the place of the recursive call
  (`Context`), and all other nodes are as in `L` in the cache, or else in the ORAM
  unless they were evicted with changes (`Stored`);
* for each place in the code (`AtDescend`, `AtAscend`, `AtBalance`, and `AtLast`, `AtFirst`,
  `AtSecond` between the parts of a rotation) what is true of the node at hand: which
  nodes are uneven, and by how much the subtree has grown.

A step is proved by naming the new `L` and `U`. Two further invariants go with it.
`Counted` balances the accesses made against the levels of `stack` and what is in
`tasks`, so an operation writes no more than it reads; and the ids read on the way down
(`Walking`) are all different unless the tree has a cycle, in which case the search never
ends, so one that ends has read every node once at most. `Typing` adds to the types
that ids are those that were given out (`MemoryOK`, `WorkOK`) and that no id is cached
twice.

`TreeSound` speaks of the least set of ids that is closed under children. That it is
`U` of the root (`SubtreeIs`) is shown without induction over trees, by looking at the
smallest subtree that a closed set has the root of and does not contain. In the same
way an AVL tree of height h has at least `MinNodes[h]` nodes (`TreeMin`): take the
smallest subtree that has fewer. That gives `DropJustified`. When the cache has room for
one node more than the longest path (`Roomy`), `Warm` says that all nodes the insertion
will return to, and all that a rotation reads, are in the cache, and that no node has
been evicted with changes. `StopJustified` needs that a node of a sound tree is in the
cache or a node in the ORAM, so that a read goes wrong only after a changed node was
evicted, and that a search of a sound tree passes fewer nodes than there are
(`Searching`).

*The service.* `IsolationInv` has `Places`, what a handler has established when
it reaches a place in its code: an id that passed a check is below the limit, a
handler at work holds its own client's storage (this is where the comparison of
the instance hash is needed), and a handler whose client has gone on belongs to
a client noted in `abandoned`. `StoredIsKept` follows from it. `OwnershipInv` adds
what holds until handlers overlap: a handler that changes `storages_` is alone
(`Alone`), a client that waits has one handler (`Waiting`), what a check has found is
still so when it is used (`Reserved`), and a client that was told it has a storage has
it (`Owned`); and when the cryptor and the flag are set (`CryptorSet`, `FlagSet`).
Each way to crash contradicts one of these.

*Start-up and keys.* `KeyInv`: no two processes use the same random number, directly
or through a key that was computed from it, so no two have the same session key.
`HandlerInv`, `BusyInv` and `AgreeInv` follow a key exchange: the process still has the
public key it sent, and a handler that is alone has computed the server's keys from
it. `SealInv`: blocks are sealed with no key but the one the process has, until `Ready` is
called again. `StageInv` says what a start has read so far, `GivenInv` that the type, the
size and the id in the configuration are among those the files or the flags give, or the
defaults, and `StorageInv` for whom an id on the server was taken.

*Random choices.* `WordInv` says that the numbers a draw uses are those of a call
`UniformRandom(min, max)` with `min <= max` and a range that is not zero; `ArrayInv`
that the array is a permutation of the input; `LoopInv` that whoever swaps has both
indices inside the array. The accepted words are complete intervals (`Acceptable`), so
adding `x - min` is a bijection between the draws that give `min` and those that give
`x` (`EquallyOften`). The range wraps to zero for the whole word only (`SpanOf`), which
no shuffle asks for. Enciphered indices are below a power of two that is at most the
size, so no property of the cipher is needed, and nothing is moved before all elements
are enciphered.

Three properties are stated differently since they were proved. `NoPanic` said that the
dummies last for fewer than sqrt_m failures; the step after a failed write-back
contradicts it, and the property now says what holds. `UndefinedJustified` named a
failed call as the cause of too many Path ORAMs, which was so only up to the three that
the run allowed; the cause is a `Run` that answered an error, with or without a failed
call. `GarbageJustified` allowed for a Path ORAM that is not filled, which turned out
not to be a cause of its own.

A fourth, `StopJustified`, did not name `ods.stale`: a node that was evicted with its
changes, read again as it was before, and then written, is no longer among the evicted
ones, yet the tree is damaged.

Only model-checked are liveness under fairness (`EveryCallEnds`, `StartupEnds`), which is
out of the prover's reach, and the messages (`Delivered`, `WireSound`): `ProtoWire` is
about what recursive functions and folds compute for every input, which needs induction
over data and is out of reach too.

## Not modelled, and what comes next

Worth proving next: that a dictionary that has lost no update never reaches the
assertion of the padding in a search, whatever the number of nodes. It needs a bound on
the height of an AVL tree by a logarithm (`MinNodes` grows at least as fast as a power).

Not modelled:

* A handler that outlives its RPC together with the controllers' next calls. The
  service shows that such a handler exists (`abandoned`), the controllers' modules
  let a handler run before its RPC ends or not at all.
* `SequentialEvict` (never called), `TestPathOram` (a caller of modelled
  operations), `Remove` of the dictionary (a stub that answers `kOK`) and
  `OdsAccessRemove` (no caller).
* Of the generated code: arenas, reflection, swapping and copying, and the
  asynchronous and callback variants of stub and service, which nothing uses.
* Logging, timing and traffic statistics, printing, certificates, signal handlers:
  pure I/O.
* Conversion of blocks to strings and compression: used in matching pairs, without
  state.
* The primitives of libsodium, the cipher of the permutation, YAML and flag
  parsing, and gRPC: external, modelled by how the code uses them.
* Obliviousness itself.
