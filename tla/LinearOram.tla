------------------------------ MODULE LinearOram ------------------------------
(***************************************************************************)
(* The Linear ORAM controller (core/linear_oram_controller) and the flat   *)
(* memory it keeps on the server (server/flat_oram_storage).  An access    *)
(* reads the whole memory, changes one block of it in the controller, and  *)
(* writes the whole memory back: two RPCs, between which the server's copy *)
(* and the controller's differ.  An RPC may fail before its handler ran or *)
(* after.                                                                  *)
(*                                                                         *)
(* The memory is the set of its kNormal blocks; entries of another type    *)
(* never match an address and are carried along.                           *)
(***************************************************************************)
EXTENDS Integers

CONSTANTS
    Addr,         \* block ids
    Val,          \* block contents
    NoVal,        \* a buffer that was not filled
    DataVectors,  \* the inputs FillWithData may be given
    MaxFaults     \* bound: RPCs that fail

Block == [id : Addr, data : Val]

ASSUME LinearAssumption ==
    /\ Addr # {}
    /\ NoVal \notin Val
    /\ MaxFaults \in Nat
    /\ \A d \in DataVectors :
          d \in SUBSET Block /\ \A b, c \in d : b.id = c.id => b = c

VARIABLES
    registered,       \* server: storages_ has this ORAM's id
    flat_storage,     \* server: the blocks, encrypted
    is_initialized,   \* controller
    pc,               \* where the controller is
    call,             \* arguments of the access in progress, or of the last
    buffer,           \* the caller's data block
    storage,          \* the controller's copy of the memory, during an access
    status,           \* answer to the last call, "none" during one
    faults            \* RPCs that failed

vars == <<registered, flat_storage, is_initialized, pc, call, buffer, storage,
          status, faults>>

Init ==
    /\ registered = FALSE
    /\ flat_storage = {}
    /\ is_initialized = FALSE
    /\ pc = "idle"
    /\ call = [op |-> "kRead", address |-> CHOOSE a \in Addr : TRUE]
    /\ buffer = NoVal
    /\ storage = {}
    /\ status = "none"
    /\ faults = 0

-------------------------------------------------------------------------------
Outcomes == {"answered", "request_lost", "reply_lost"}

\* How an RPC goes; a failure counts against the bound.
Rpc(outcome) ==
    \/ outcome = "answered" /\ UNCHANGED faults
    \/ /\ outcome # "answered"
       /\ faults < MaxFaults
       /\ faults' = faults + 1

Executed(outcome) == outcome # "request_lost"

InitOram(outcome) ==
    /\ pc = "idle"
    /\ Rpc(outcome)
    /\ registered' = (registered \/ Executed(outcome))
    /\ status' = IF outcome = "answered" /\ ~registered THEN "kOK"
                 ELSE "kServerError"
    /\ UNCHANGED <<flat_storage, is_initialized, pc, call, buffer, storage>>

\* Mutant of WriteFlatMemory: the storage is not reset.
WriteFlatAppends(blocks, outcome) ==
    flat_storage' = IF registered /\ Executed(outcome)
                    THEN flat_storage \cup blocks ELSE flat_storage

\* The handler of WriteFlatMemory replaces the memory, if the id is known.
WriteFlatMemory(blocks, outcome) ==
    flat_storage' = IF registered /\ Executed(outcome) THEN blocks
                    ELSE flat_storage

\* The controller counts as initialised before the server is asked, and
\* whatever it answers.
FillWithData(d, outcome) ==
    /\ pc = "idle"
    /\ Rpc(outcome)
    /\ is_initialized' = TRUE
    /\ WriteFlatMemory(d, outcome)
    /\ status' = IF registered /\ outcome = "answered" THEN "kOK"
                 ELSE "kServerError"
    /\ UNCHANGED <<registered, pc, call, buffer, storage>>

NotInitialized ==
    /\ pc = "idle"
    /\ ~is_initialized
    /\ status' = "kInvalidOperation"
    /\ UNCHANGED <<registered, flat_storage, is_initialized, pc, call, buffer,
                   storage, faults>>

\* What a caller passes in its data block.
Arguments(op) == IF op = "kWrite" THEN Val ELSE {NoVal}

Access(op, a, v) ==
    /\ pc = "idle"
    /\ is_initialized
    /\ call' = [op |-> op, address |-> a]
    /\ buffer' = v
    /\ pc' = "read"
    /\ status' = "none"
    /\ UNCHANGED <<registered, flat_storage, is_initialized, storage, faults>>

\* Mutant of Matches: the id is not compared.
MatchesAny(blocks) == blocks

\* The blocks of a scan that have the address of the call.
Matches(blocks) == {b \in blocks : b.id = call.address}

\* Mutant of Overwritten: every block is.
AllOverwritten(blocks) == {[b EXCEPT !.data = buffer] : b \in blocks}

\* The scan of a write: the matching block has the caller's contents.
Overwritten(blocks) ==
    {IF b.id = call.address THEN [b EXCEPT !.data = buffer] ELSE b : b \in blocks}

\* The memory is read, decrypted and scanned.  No match is not an error.
ReadFromServer ==
    /\ pc = "read"
    /\ registered
    /\ Rpc("answered")
    /\ \/ /\ call.op = "kRead"
          /\ storage' = flat_storage
          /\ \/ \E b \in Matches(flat_storage) : buffer' = b.data
             \/ Matches(flat_storage) = {} /\ UNCHANGED buffer
       \/ /\ call.op = "kWrite"
          /\ storage' = Overwritten(flat_storage)
          /\ UNCHANGED buffer
    /\ pc' = "write"
    /\ UNCHANGED <<registered, flat_storage, is_initialized, call, status>>

\* Mutant of ReadFromServerFails: the read is tried again.
ReadRetried(outcome) ==
    /\ pc = "read"
    /\ Rpc(outcome)
    /\ outcome # "answered" \/ ~registered
    /\ UNCHANGED <<registered, flat_storage, is_initialized, pc, call, buffer,
                   storage, status>>

ReadFromServerFails(outcome) ==
    /\ pc = "read"
    /\ Rpc(outcome)
    /\ outcome # "answered" \/ ~registered
    /\ pc' = "idle"
    /\ status' = "kServerError"
    /\ UNCHANGED <<registered, flat_storage, is_initialized, call, buffer, storage>>

\* The controller's copy, encrypted again, replaces the memory.
WriteToServer(outcome) ==
    /\ pc = "write"
    /\ Rpc(outcome)
    /\ WriteFlatMemory(storage, outcome)
    /\ status' = IF registered /\ outcome = "answered" THEN "kOK"
                 ELSE "kServerError"
    /\ pc' = "idle"
    /\ storage' = {}
    /\ UNCHANGED <<registered, is_initialized, call, buffer>>

-------------------------------------------------------------------------------
Call ==
    \/ \E outcome \in Outcomes :
          \/ InitOram(outcome)
          \/ \E d \in DataVectors : FillWithData(d, outcome)
    \/ NotInitialized
    \/ \E op \in {"kRead", "kWrite"}, a \in Addr :
          \E v \in Arguments(op) : Access(op, a, v)

Step ==
    \/ ReadFromServer
    \/ \E outcome \in Outcomes : ReadFromServerFails(outcome)
    \/ \E outcome \in Outcomes : WriteToServer(outcome)

Next == Call \/ Step

Spec == Init /\ [][Next]_vars

\* The controller goes on with a call, and an RPC ends, one way or another.
FairSpec == Spec /\ WF_vars(Step)

-------------------------------------------------------------------------------
(* Properties. *)

\* Every variable has its type.
TypeOK ==
    /\ registered \in BOOLEAN
    /\ flat_storage \in SUBSET Block
    /\ is_initialized \in BOOLEAN
    /\ pc \in {"idle", "read", "write"}
    /\ call \in [op : {"kRead", "kWrite"}, address : Addr]
    /\ buffer \in Val \cup {NoVal}
    /\ call.op = "kWrite" => buffer \in Val
    /\ storage \in SUBSET Block
    /\ status \in {"none", "kOK", "kInvalidOperation", "kServerError"}
    /\ faults \in 0..MaxFaults

\* The copy that is about to overwrite the server's memory differs from it in
\* the block of the call and nowhere else: the write-back of a whole memory
\* takes nothing else back to an earlier state.
CopyIsCurrent ==
    /\ \A b, c \in flat_storage : b.id = c.id => b = c
    /\ pc = "write" =>
          /\ registered
          /\ storage = IF call.op = "kRead" THEN flat_storage
                       ELSE Overwritten(flat_storage)

\* An answer kOK to a write means that the server has the caller's contents,
\* and one to a read that the buffer is what the server has, if the block is
\* there at all.  The failures of earlier calls do not change that.
AnswersAreTrue ==
    [][pc = "write" /\ status' = "kOK" =>
          \A b \in flat_storage' : b.id = call.address => b.data = buffer']_vars

\* What base/oram_status.h says of kOutOfRange ("if the ORAM only has three blocks but
\* the client is requesting the non-existing fourth block, then the controller should
\* report `kOutOfRange` error to the client"): no access is answered kOK when the
\* memory has no block of that id.
OutOfRangeReported ==
    [][pc = "write" /\ status' = "kOK" =>
          \E b \in flat_storage' : b.id = call.address]_vars

\* Every access that starts ends.
EveryCallEnds == pc # "idle" ~> pc = "idle"

\* Where a call has got to, and what the buffer holds there.
Progress ==
    /\ pc # "idle" => is_initialized /\ status = "none"
    /\ ~is_initialized => flat_storage = {}
    /\ pc = "read" => buffer \in Arguments(call.op)
    /\ pc = "write" /\ call.op = "kRead" =>
          \A b \in Matches(flat_storage) : buffer = b.data

\* The inductive invariant.
IInv == TypeOK /\ CopyIsCurrent /\ Progress

-------------------------------------------------------------------------------
(* The abstract memory. *)

Ids(blocks) == {b.id : b \in blocks}

\* The contents of an id in a set of blocks.
Lookup(blocks, a) ==
    IF a \in Ids(blocks) THEN (CHOOSE b \in blocks : b.id = a).data ELSE NoVal

AbstractMem == [a \in Addr |-> Lookup(flat_storage, a)]

\* A read has its effect with the first RPC, a write with the second.
AbstractPhase ==
    CASE pc = "idle" -> IF is_initialized THEN "idle" ELSE "unloaded"
      [] pc = "read" -> "pending"
      [] pc = "write" -> IF call.op = "kRead" THEN "applied" ELSE "pending"

Store == INSTANCE BlockStore WITH
    ReadRemoves <- FALSE, Lenient <- TRUE, SilentMiss <- TRUE,
    mem <- AbstractMem, phase <- AbstractPhase,
    call <- [op |-> call.op, address |-> call.address,
             dummy |-> FALSE, direct |-> FALSE]

\* The controller is a memory that does not insist on being loaded and keeps silent
\* about a block that is not there (the run of OutOfRangeReported shows that this is
\* not what the repository promises): see BlockStore for what is left.
ImplementsStore == Store!Spec
===============================================================================
