--------------------------- MODULE LinearOramProofs ---------------------------
(***************************************************************************)
(* LinearOram keeps its invariant and implements BlockStore.               *)
(***************************************************************************)
EXTENDS LinearOram, TLAPS

USE LinearAssumption

-------------------------------------------------------------------------------
(* Sets of blocks with distinct ids. *)

Distinct(blocks) == \A b, c \in blocks : b.id = c.id => b = c

\* Updating a block in place keeps the ids, and their distinctness.
LEMMA OverwrittenBlocks ==
    ASSUME NEW blocks \in SUBSET Block, Distinct(blocks), buffer \in Val
    PROVE  /\ Overwritten(blocks) \in SUBSET Block
           /\ Distinct(Overwritten(blocks))
           /\ Ids(Overwritten(blocks)) = Ids(blocks)
           /\ \A b \in Overwritten(blocks) :
                 IF b.id = call.address THEN b.data = buffer ELSE b \in blocks
<1> DEFINE New(b) == IF b.id = call.address THEN [b EXCEPT !.data = buffer] ELSE b
<1>1. \A b \in blocks :
        /\ New(b) \in Block /\ New(b).id = b.id
        /\ IF b.id = call.address THEN New(b).data = buffer ELSE New(b) = b
  BY DEF Block
<1>2. Overwritten(blocks) = {New(b) : b \in blocks}
  BY DEF Overwritten
<1> HIDE DEF New
<1>3. Distinct(Overwritten(blocks))
  <2> SUFFICES ASSUME NEW b \in blocks, NEW c \in blocks, New(b).id = New(c).id
               PROVE  New(b) = New(c)
    BY <1>2 DEF Distinct
  <2> QED
    BY <1>1 DEF Distinct
<1>4. Ids(Overwritten(blocks)) = Ids(blocks)
  BY <1>1, <1>2 DEF Ids
<1> QED
  BY <1>1, <1>2, <1>3, <1>4

\* With distinct ids, looking up the id of a block gives its contents.
LEMMA LookupOne ==
    ASSUME NEW blocks, Distinct(blocks), NEW b \in blocks
    PROVE  Lookup(blocks, b.id) = b.data
<1> DEFINE c == CHOOSE e \in blocks : e.id = b.id
<1>1. c \in blocks /\ c.id = b.id
  OBVIOUS
<1> HIDE DEF c
<1>2. c = b
  BY <1>1 DEF Distinct
<1>3. b.id \in Ids(blocks)
  BY DEF Ids
<1> QED
  BY <1>2, <1>3 DEF Lookup, c

LEMMA LookupType ==
    ASSUME NEW blocks \in SUBSET Block, Distinct(blocks), NEW a
    PROVE  /\ Lookup(blocks, a) \in Val \cup {NoVal}
           /\ Lookup(blocks, a) = NoVal <=> a \notin Ids(blocks)
<1>1. CASE a \in Ids(blocks)
  <2>1. PICK b \in blocks : b.id = a
    BY <1>1 DEF Ids
  <2>2. Lookup(blocks, a) = b.data /\ b.data \in Val
    BY <2>1, LookupOne DEF Block
  <2> QED
    BY <1>1, <2>2
<1>2. CASE a \notin Ids(blocks)
  BY <1>2 DEF Lookup
<1> QED
  BY <1>1, <1>2

-------------------------------------------------------------------------------
(* The invariant. *)

LEMMA InitInv == ASSUME Init PROVE IInv
<1>1. (CHOOSE a \in Addr : TRUE) \in Addr
  OBVIOUS
<1>2. call \in [op : {"kRead", "kWrite"}, address : Addr] /\ call.op = "kRead"
  BY <1>1 DEF Init
<1>3. faults \in 0..MaxFaults /\ flat_storage \in SUBSET Block
      /\ storage \in SUBSET Block
  BY DEF Init
<1>4. TypeOK
  BY <1>2, <1>3 DEF Init, TypeOK
<1>5. CopyIsCurrent /\ Progress
  BY DEF Init, CopyIsCurrent, Progress
<1> QED
  BY <1>4, <1>5 DEF IInv

\* The server's memory after WriteFlatMemory.
LEMMA WriteFlat ==
    ASSUME NEW blocks \in SUBSET Block, NEW outcome,
           TypeOK, WriteFlatMemory(blocks, outcome),
           Distinct(blocks), Distinct(flat_storage)
    PROVE  /\ flat_storage' \in SUBSET Block
           /\ Distinct(flat_storage')
BY DEF WriteFlatMemory, TypeOK

LEMMA RpcType ==
    ASSUME TypeOK, NEW outcome, Rpc(outcome) PROVE faults' \in 0..MaxFaults
BY DEF TypeOK, Rpc

LEMMA StepInv == IInv /\ [Next]_vars => IInv'
<1> SUFFICES ASSUME IInv, [Next]_vars PROVE IInv'
  OBVIOUS
<1> USE DEF IInv
<1>d. Distinct(flat_storage)
  BY DEF CopyIsCurrent, Distinct
<1>1. ASSUME NEW outcome \in Outcomes, InitOram(outcome) PROVE IInv'
  <2>1. TypeOK'
    BY <1>1, RpcType DEF InitOram, TypeOK
  <2>2. CopyIsCurrent' /\ Progress'
    BY <1>1 DEF InitOram, CopyIsCurrent, Progress, Overwritten, Matches
  <2> QED
    BY <2>1, <2>2
<1>2. ASSUME NEW d \in DataVectors, NEW outcome \in Outcomes, FillWithData(d, outcome)
      PROVE  IInv'
  <2>1. d \in SUBSET Block /\ Distinct(d)
    BY DEF Distinct
  <2>2. flat_storage' \in SUBSET Block /\ Distinct(flat_storage')
    BY <1>2, <1>d, <2>1, WriteFlat DEF FillWithData
  <2>3. TypeOK'
    BY <1>2, <2>2, RpcType DEF FillWithData, TypeOK
  <2>4. CopyIsCurrent' /\ Progress'
    BY <1>2, <2>2 DEF FillWithData, CopyIsCurrent, Progress, Distinct
  <2> QED
    BY <2>3, <2>4
<1>3. ASSUME NotInitialized PROVE IInv'
  BY <1>3 DEF NotInitialized, TypeOK, CopyIsCurrent, Progress, Overwritten, Matches
<1>4. ASSUME NEW op \in {"kRead", "kWrite"}, NEW a \in Addr, NEW v \in Arguments(op),
             Access(op, a, v)
      PROVE  IInv'
  <2>1. TypeOK'
    BY <1>4 DEF Access, Arguments, TypeOK
  <2>2. CopyIsCurrent' /\ Progress'
    BY <1>4 DEF Access, CopyIsCurrent, Progress
  <2> QED
    BY <2>1, <2>2
<1>5. ASSUME ReadFromServer PROVE IInv'
  <2>1. /\ pc = "read" /\ registered /\ pc' = "write"
        /\ UNCHANGED <<registered, flat_storage, is_initialized, call, status>>
        /\ call.op \in {"kRead", "kWrite"}
    BY <1>5 DEF ReadFromServer, TypeOK
  <2>2. faults' \in 0..MaxFaults
    BY <1>5, RpcType DEF ReadFromServer
  <2>3. CASE call.op = "kRead"
    <3>1. /\ storage' = flat_storage
          /\ buffer' \in Val \cup {NoVal}
          /\ \A b \in Matches(flat_storage) : buffer' = b.data
      BY <1>5, <1>d, <2>3 DEF ReadFromServer, TypeOK, Matches, Distinct, Block
    <3>2. TypeOK'
      BY <2>1, <2>2, <2>3, <3>1 DEF TypeOK
    <3>3. CopyIsCurrent' /\ Progress'
      BY <2>1, <2>3, <3>1 DEF CopyIsCurrent, Progress, Matches
    <3> QED
      BY <3>2, <3>3
  <2>4. CASE call.op = "kWrite"
    <3>1. storage' = Overwritten(flat_storage) /\ buffer' = buffer
      BY <1>5, <2>4 DEF ReadFromServer
    <3>2. buffer \in Val /\ flat_storage \in SUBSET Block
      BY <2>4 DEF TypeOK
    <3>3. storage' \in SUBSET Block
      BY <1>d, <3>1, <3>2, OverwrittenBlocks
    <3>4. TypeOK'
      BY <2>1, <2>2, <2>4, <3>1, <3>3 DEF TypeOK
    <3>5. CopyIsCurrent' /\ Progress'
      BY <2>1, <2>4, <3>1 DEF CopyIsCurrent, Progress, Overwritten
    <3> QED
      BY <3>4, <3>5
  <2> QED
    BY <2>1, <2>3, <2>4
<1>6. ASSUME NEW outcome \in Outcomes, ReadFromServerFails(outcome) PROVE IInv'
  <2>1. TypeOK'
    BY <1>6, RpcType DEF ReadFromServerFails, TypeOK
  <2>2. CopyIsCurrent' /\ Progress'
    BY <1>6 DEF ReadFromServerFails, CopyIsCurrent, Progress
  <2> QED
    BY <2>1, <2>2
<1>7. ASSUME NEW outcome \in Outcomes, WriteToServer(outcome) PROVE IInv'
  <2>1. storage \in SUBSET Block /\ Distinct(storage)
    BY <1>7, <1>d, OverwrittenBlocks DEF WriteToServer, TypeOK, CopyIsCurrent
  <2>2. flat_storage' \in SUBSET Block /\ Distinct(flat_storage')
    BY <1>7, <1>d, <2>1, WriteFlat DEF WriteToServer
  <2>3. TypeOK'
    BY <1>7, <2>2, RpcType DEF WriteToServer, TypeOK
  <2>4. CopyIsCurrent' /\ Progress'
    BY <1>7, <2>2 DEF WriteToServer, CopyIsCurrent, Progress, Distinct
  <2> QED
    BY <2>3, <2>4
<1>8. ASSUME UNCHANGED vars PROVE IInv'
  BY <1>8 DEF vars, TypeOK, CopyIsCurrent, Progress, Overwritten, Matches
<1> QED
  BY <1>1, <1>2, <1>3, <1>4, <1>5, <1>6, <1>7, <1>8 DEF Next, Call, Step

\* The invariant holds in every reachable state.
THEOREM Invariance == Spec => []IInv
<1>1. Init => IInv
  BY InitInv
<1> QED
  BY <1>1, StepInv, PTL DEF Spec

\* The write-back of the whole memory changes the block of the call and no
\* other, whatever calls failed before.
THEOREM CopyIsCurrentSafe == Spec => []CopyIsCurrent
<1>1. IInv => CopyIsCurrent
  BY DEF IInv
<1> QED
  BY <1>1, Invariance, PTL

\* Every variable keeps its type.
THEOREM Typing == Spec => []TypeOK
<1>1. IInv => TypeOK
  BY DEF IInv
<1> QED
  BY <1>1, Invariance, PTL

\* An access that is answered kOK did what it was asked to: the server has what
\* a write wrote, and a read returned what the server has.
THEOREM AnswersAreTrueSafe == Spec => AnswersAreTrue
<1> DEFINE True == pc = "write" /\ status' = "kOK" =>
                     \A b \in flat_storage' : b.id = call.address => b.data = buffer'
<1>1. IInv /\ [Next]_vars => [True]_vars
  <2> SUFFICES ASSUME IInv, [Next]_vars, pc = "write", status' = "kOK"
               PROVE  \A b \in flat_storage' : b.id = call.address => b.data = buffer'
    OBVIOUS
  <2>1. /\ TypeOK /\ Distinct(flat_storage) /\ Progress /\ registered
        /\ storage = IF call.op = "kRead" THEN flat_storage
                     ELSE Overwritten(flat_storage)
    BY DEF IInv, CopyIsCurrent, Distinct
  <2>2. PICK outcome \in Outcomes : WriteToServer(outcome)
    <3>1. ~UNCHANGED vars
      BY DEF vars, IInv, Progress
    <3> QED
      BY <3>1 DEF Next, Call, Step, InitOram, FillWithData, NotInitialized, Access,
                  ReadFromServer, ReadFromServerFails
  <2>3. flat_storage' = storage /\ buffer' = buffer
    BY <2>1, <2>2 DEF WriteToServer, WriteFlatMemory, Executed
  <2>4. CASE call.op = "kRead"
    BY <2>1, <2>3, <2>4 DEF Progress, Matches
  <2>5. CASE call.op = "kWrite"
    <3>1. buffer \in Val /\ flat_storage \in SUBSET Block
      BY <2>1, <2>5 DEF TypeOK
    <3>2. \A b \in Overwritten(flat_storage) : b.id = call.address => b.data = buffer
      BY <2>1, <3>1, OverwrittenBlocks
    <3> QED
      BY <2>1, <2>3, <2>5, <3>2
  <2> QED
    BY <2>1, <2>4, <2>5 DEF TypeOK
<1> QED
  BY <1>1, Invariance, PTL DEF Spec, AnswersAreTrue

-------------------------------------------------------------------------------
(* The refinement. *)

\* The memory of an invariant state is a memory of BlockStore.
LEMMA MemType ==
    ASSUME IInv
    PROVE  /\ AbstractMem \in [Addr -> Val \cup {NoVal}]
           /\ \A a \in Addr : AbstractMem[a] = NoVal <=> a \notin Ids(flat_storage)
<1>1. flat_storage \in SUBSET Block /\ Distinct(flat_storage)
  BY DEF IInv, TypeOK, CopyIsCurrent, Distinct
<1> QED
  BY <1>1, LookupType DEF AbstractMem

\* When the server's memory is overwritten, so is the abstract one.
LEMMA MemOverwritten ==
    ASSUME IInv, buffer \in Val, flat_storage' = Overwritten(flat_storage)
    PROVE  AbstractMem' = IF AbstractMem[call.address] = NoVal THEN AbstractMem
                          ELSE [AbstractMem EXCEPT ![call.address] = buffer]
<1> DEFINE old == flat_storage
           new == Overwritten(flat_storage)
<1>1. old \in SUBSET Block /\ Distinct(old) /\ call.address \in Addr
  BY DEF IInv, TypeOK, CopyIsCurrent, Distinct
<1>2. /\ new \in SUBSET Block /\ Distinct(new) /\ Ids(new) = Ids(old)
      /\ \A b \in new : IF b.id = call.address THEN b.data = buffer ELSE b \in old
  BY <1>1, OverwrittenBlocks
<1>3. AbstractMem' = [a \in Addr |-> Lookup(new, a)]
  BY DEF AbstractMem
<1> HIDE DEF new
<1>4. \A a \in Addr : Lookup(new, a) = IF a = call.address /\ a \in Ids(old)
                                      THEN buffer ELSE Lookup(old, a)
  <2> SUFFICES ASSUME NEW a \in Addr
               PROVE  Lookup(new, a) = IF a = call.address /\ a \in Ids(old)
                                       THEN buffer ELSE Lookup(old, a)
    OBVIOUS
  <2>1. CASE a \notin Ids(old)
    BY <1>2, <2>1 DEF Lookup
  <2>2. CASE a \in Ids(old)
    <3>1. PICK b \in new : b.id = a
      BY <1>2, <2>2 DEF Ids
    <3>2. Lookup(new, a) = b.data
      BY <1>2, <3>1, LookupOne
    <3>3. CASE a = call.address
      BY <1>2, <2>2, <3>1, <3>2, <3>3
    <3>4. CASE a # call.address
      <4>1. b \in old
        BY <1>2, <3>1, <3>4
      <4>2. Lookup(old, a) = b.data
        BY <1>1, <3>1, <4>1, LookupOne
      <4> QED
        BY <3>2, <3>4, <4>2
    <3> QED
      BY <3>3, <3>4
  <2> QED
    BY <2>1, <2>2
<1>5. AbstractMem = [a \in Addr |-> Lookup(old, a)]
  BY DEF AbstractMem
<1>6. AbstractMem[call.address] = NoVal <=> call.address \notin Ids(old)
  BY <1>1, MemType
<1> QED
  BY <1>1, <1>3, <1>4, <1>5, <1>6

LEMMA InitRefines ==
    ASSUME Init PROVE Store!Init
<1>1. call.address \in Addr /\ call.op = "kRead"
  <2>1. (CHOOSE a \in Addr : TRUE) \in Addr
    OBVIOUS
  <2> QED
    BY <2>1 DEF Init
<1>2. AbstractMem = [a \in Addr |-> NoVal]
  BY DEF Init, AbstractMem, Lookup, Ids
<1>3. AbstractPhase = "unloaded"
  BY DEF Init, AbstractPhase
<1> QED
  BY <1>1, <1>2, <1>3 DEF Init, Store!Init

\* Every step is one of the abstract memory, or changes nothing of it.
LEMMA StepRefines ==
    ASSUME IInv, IInv', [Next]_vars PROVE [Store!Next]_Store!vars
<1>a. /\ TypeOK /\ CopyIsCurrent /\ Progress /\ TypeOK'
      /\ call.address \in Addr
  BY DEF IInv, TypeOK
<1>b. /\ AbstractMem \in Store!Contents /\ AbstractMem' \in Store!Contents
  <2>1. AbstractMem' \in [Addr -> Val \cup {NoVal}]
    <3>1. flat_storage' \in SUBSET Block /\ Distinct(flat_storage')
      BY DEF IInv, TypeOK, CopyIsCurrent, Distinct
    <3>2. \A a \in Addr : Lookup(flat_storage', a) \in Val \cup {NoVal}
      BY <3>1, LookupType
    <3> QED
      BY <3>2 DEF AbstractMem
  <2> QED
    BY <2>1, MemType DEF Store!Contents
<1>c. flat_storage' = flat_storage => AbstractMem' = AbstractMem
  BY DEF AbstractMem
<1>1. ASSUME NEW outcome \in Outcomes, InitOram(outcome) PROVE Store!Next
  <2>1. /\ AbstractPhase' = AbstractPhase /\ AbstractMem' = AbstractMem
        /\ AbstractPhase \in {"idle", "unloaded"}
        /\ status' \in {"kOK", "kServerError"}
        /\ call' = call /\ buffer' = buffer
    BY <1>1, <1>c DEF InitOram, AbstractPhase
  <2>2. CASE AbstractPhase = "idle"
    <3>1. Store!SetUpAgain
      BY <2>1, <2>2 DEF Store!SetUpAgain
    <3> QED
      BY <3>1 DEF Store!Next
  <2>3. CASE AbstractPhase = "unloaded"
    <3>1. Store!NotLoaded
      BY <2>1, <2>3 DEF Store!NotLoaded
    <3> QED
      BY <3>1 DEF Store!Next
  <2> QED
    BY <2>1, <2>2, <2>3
<1>2. ASSUME NEW d \in DataVectors, NEW outcome \in Outcomes, FillWithData(d, outcome)
      PROVE  Store!Next
  <2>1. /\ AbstractPhase \in {"idle", "unloaded"} /\ AbstractPhase' = "idle"
        /\ status' \in {"kOK", "kServerError"}
        /\ call' = call /\ buffer' = buffer
    BY <1>2 DEF FillWithData, AbstractPhase
  <2>2. Store!Load \/ Store!LoadFails
    BY <1>b, <2>1 DEF Store!Load, Store!LoadFails
  <2> QED
    BY <2>2 DEF Store!Next
<1>3. ASSUME NotInitialized PROVE Store!Next
  <2>1. /\ AbstractPhase' = AbstractPhase /\ AbstractMem' = AbstractMem
        /\ AbstractPhase = "unloaded" /\ status' = "kInvalidOperation"
        /\ call' = call /\ buffer' = buffer
    BY <1>3, <1>c DEF NotInitialized, AbstractPhase
  <2>2. Store!NotLoaded
    BY <2>1 DEF Store!NotLoaded
  <2> QED
    BY <2>2 DEF Store!Next
<1>4. ASSUME NEW op \in {"kRead", "kWrite"}, NEW a \in Addr, NEW v \in Arguments(op),
             Access(op, a, v)
      PROVE  Store!Next
  <2>1. /\ AbstractPhase = "idle" /\ AbstractPhase' = "pending"
        /\ AbstractMem' = AbstractMem /\ status' = "none"
        /\ call'.op = op /\ call'.address = a /\ buffer' = v
    BY <1>4, <1>c DEF Access, AbstractPhase
  <2>2. buffer' \in IF op = "kWrite" THEN Val ELSE {NoVal}
    BY <2>1 DEF Arguments
  <2>3. Store!Invoke
    BY <2>1, <2>2 DEF Store!Invoke
  <2> QED
    BY <2>3 DEF Store!Next
<1>5. ASSUME ReadFromServer PROVE [Store!Next]_Store!vars
  <2>1. /\ pc = "read" /\ pc' = "write" /\ call' = call /\ status' = status
        /\ flat_storage' = flat_storage /\ AbstractMem' = AbstractMem
        /\ AbstractPhase = "pending"
    BY <1>5, <1>c DEF ReadFromServer, AbstractPhase
  <2>2. CASE call.op = "kWrite"
    <3>1. buffer' = buffer /\ AbstractPhase' = "pending"
      BY <1>5, <2>1, <2>2 DEF ReadFromServer, AbstractPhase
    <3> QED
      BY <2>1, <3>1 DEF Store!vars
  <2>3. CASE call.op = "kRead"
    <3>1. AbstractPhase' = "applied"
      BY <2>1, <2>3 DEF AbstractPhase
    <3>2. CASE AbstractMem[call.address] = NoVal
      <4>1. Matches(flat_storage) = {}
        BY <1>a, <3>2, MemType DEF Matches, Ids
      <4>2. buffer' = buffer
        BY <1>5, <2>3, <4>1 DEF ReadFromServer
      <4>3. Store!Effect
        BY <2>1, <3>2, <4>2 DEF Store!Effect
      <4>4. Store!Apply
        BY <2>1, <3>1, <4>3 DEF Store!Apply
      <4> QED
        BY <4>4 DEF Store!Next
    <3>3. CASE AbstractMem[call.address] # NoVal
      <4>1. Matches(flat_storage) # {}
        BY <1>a, <3>3, MemType DEF Matches, Ids
      <4>2. PICK b \in flat_storage : b.id = call.address /\ buffer' = b.data
        BY <1>5, <2>3, <4>1 DEF ReadFromServer, Matches
      <4>3. Distinct(flat_storage)
        BY <1>a DEF CopyIsCurrent, Distinct
      <4>4. Lookup(flat_storage, call.address) = b.data
        BY <4>2, <4>3, LookupOne
      <4>5. buffer' = AbstractMem[call.address]
        BY <1>a, <4>2, <4>4 DEF AbstractMem
      <4>6. Store!Effect
        BY <2>1, <2>3, <3>3, <4>5 DEF Store!Effect
      <4>7. Store!Apply
        BY <2>1, <3>1, <4>6 DEF Store!Apply
      <4> QED
        BY <4>7 DEF Store!Next
    <3> QED
      BY <3>2, <3>3
  <2> QED
    BY <1>a, <2>2, <2>3 DEF TypeOK
<1>6. ASSUME NEW outcome \in Outcomes, ReadFromServerFails(outcome) PROVE Store!Next
  <2>1. /\ AbstractPhase = "pending" /\ AbstractPhase' = "idle"
        /\ AbstractMem' = AbstractMem /\ status' = "kServerError"
        /\ call' = call /\ buffer' = buffer
    BY <1>6, <1>a, <1>c DEF ReadFromServerFails, AbstractPhase, Progress
  <2>2. Store!Fail
    BY <1>b, <2>1 DEF Store!Fail, Store!Shrunk
  <2> QED
    BY <2>2 DEF Store!Next
<1>7. ASSUME NEW outcome \in Outcomes, WriteToServer(outcome) PROVE Store!Next
  <2>1. /\ pc = "write" /\ AbstractPhase' = "idle" /\ registered
        /\ call' = call /\ buffer' = buffer
        /\ status' \in {"kOK", "kServerError"}
        /\ status' = "kOK" => Executed(outcome)
        /\ flat_storage' = IF Executed(outcome) THEN storage ELSE flat_storage
    BY <1>7, <1>a DEF WriteToServer, WriteFlatMemory, Executed, AbstractPhase,
                      Progress, CopyIsCurrent
  <2>2. CASE call.op = "kRead"
    <3>1. AbstractPhase = "applied" /\ AbstractMem' = AbstractMem
      BY <1>a, <1>c, <2>1, <2>2 DEF AbstractPhase, CopyIsCurrent
    <3>2. Store!Return \/ Store!Fail
      BY <1>b, <2>1, <3>1 DEF Store!Return, Store!Fail, Store!Shrunk
    <3> QED
      BY <3>2 DEF Store!Next
  <2>3. CASE call.op = "kWrite"
    <3>1. AbstractPhase = "pending" /\ buffer \in Val
          /\ storage = Overwritten(flat_storage)
      BY <1>a, <2>1, <2>3 DEF AbstractPhase, CopyIsCurrent, TypeOK
    <3>2. CASE ~Executed(outcome)
      <4>1. AbstractMem' = AbstractMem /\ status' = "kServerError"
        BY <1>c, <2>1, <3>2
      <4>2. Store!Fail
        BY <1>b, <2>1, <3>1, <4>1 DEF Store!Fail, Store!Shrunk
      <4> QED
        BY <4>2 DEF Store!Next
    <3>3. CASE Executed(outcome)
      <4>1. AbstractMem' = IF AbstractMem[call.address] = NoVal THEN AbstractMem
                           ELSE [AbstractMem EXCEPT ![call.address] = buffer]
        BY <2>1, <3>1, <3>3, MemOverwritten
      <4>2. Store!Effect
        BY <2>1, <2>3, <4>1 DEF Store!Effect
      <4>3. Store!ApplyAndReturn
        BY <2>1, <3>1, <4>2 DEF Store!ApplyAndReturn
      <4> QED
        BY <4>3 DEF Store!Next
    <3> QED
      BY <3>2, <3>3
  <2> QED
    BY <1>a, <2>2, <2>3 DEF TypeOK
<1>8. ASSUME UNCHANGED vars PROVE [Store!Next]_Store!vars
  <2>1. AbstractMem' = AbstractMem /\ AbstractPhase' = AbstractPhase
        /\ call' = call /\ buffer' = buffer /\ status' = status
    BY <1>8, <1>c DEF vars, AbstractPhase
  <2> QED
    BY <2>1 DEF Store!vars
<1> QED
  BY <1>1, <1>2, <1>3, <1>4, <1>5, <1>6, <1>7, <1>8 DEF Next, Call, Step

\* The Linear ORAM is a memory: a call takes effect at most once and between
\* its invocation and its answer, and a failed one leaves the contents as they
\* were or as the call would have made them.
THEOREM Refinement == Spec => ImplementsStore
<1>1. Init => Store!Init
  BY InitRefines
<1>2. IInv /\ IInv' /\ [Next]_vars => [Store!Next]_Store!vars
  BY StepRefines
<1> QED
  BY <1>1, <1>2, Invariance, PTL DEF Spec, ImplementsStore, Store!Spec
===============================================================================
