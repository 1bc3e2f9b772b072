------------------------------ MODULE BlockStore ------------------------------
(***************************************************************************)
(* What an ORAM controller promises to its caller: a memory of blocks that *)
(* is accessed one call at a time.  A call takes effect at most once, an   *)
(* answer kOK is about the contents at the moment of the effect, and       *)
(* contents are lost only by a call that is answered with kServerError (or *)
(* by a dummy access, which the caller asked for and which is answered     *)
(* kOK).                                                                   *)
(***************************************************************************)

CONSTANTS
    Addr,       \* block ids
    Val,        \* block contents
    NoVal,      \* no block, or a buffer that was not filled
    ReadRemoves,\* TRUE: a read also takes the block out of the memory
    Lenient,    \* TRUE: a failed load counts as one and may be repeated
    SilentMiss  \* TRUE: a call about a block that is not there is answered kOK,
                \* against what oram_status.h asks of a controller

VARIABLES
    mem,        \* the contents
    phase,      \* "unloaded", "idle", "pending", "applied" or "halted"
    call,       \* the call in progress, or the last one
    buffer,     \* the caller's data buffer
    status      \* the last answer, "none" before it

vars == <<mem, phase, call, buffer, status>>

Contents == [Addr -> Val \cup {NoVal}]

\* m keeps some of the blocks of the memory and adds or changes none.
Shrunk(m) == m \in Contents /\ \A a \in Addr : m[a] \in {mem[a], NoVal}

Init ==
    /\ mem = [a \in Addr |-> NoVal]
    /\ phase = "unloaded"
    /\ call \in [op : {"kRead", "kWrite"}, address : Addr,
                 dummy : BOOLEAN, direct : BOOLEAN]
    /\ buffer \in Val \cup {NoVal}
    /\ status = "none"

\* Setting up, or an access before the memory was loaded: nothing happens.
NotLoaded ==
    /\ phase = "unloaded"
    /\ status' \in {"none", "kOK", "kInvalidOperation", "kServerError"}
    /\ UNCHANGED <<mem, phase, call, buffer>>

Load ==
    /\ phase = "unloaded" \/ (Lenient /\ phase = "idle")
    /\ mem' \in Contents
    /\ phase' = "idle"
    /\ status' = "kOK"
    /\ UNCHANGED <<call, buffer>>

\* The caller learns that the load failed, and may access the memory anyway.
LoadFails ==
    /\ Lenient
    /\ phase \in {"unloaded", "idle"}
    /\ mem' \in Contents
    /\ phase' = "idle"
    /\ status' = "kServerError"
    /\ UNCHANGED <<call, buffer>>

Halt ==
    /\ phase = "unloaded"
    /\ phase' = "halted"
    /\ UNCHANGED <<mem, call, buffer, status>>

\* A repeated set-up request is turned down; the contents stay.  (Only after
\* a load that failed can a set-up still be new.)
SetUpAgain ==
    /\ phase = "idle"
    /\ status' = "kServerError" \/ (Lenient /\ status' = "kOK")
    /\ UNCHANGED <<mem, phase, call, buffer>>

Invoke ==
    /\ phase = "idle"
    /\ phase' = "pending"
    /\ call' \in [op : {"kRead", "kWrite"}, address : Addr,
                  dummy : BOOLEAN, direct : BOOLEAN]
    /\ buffer' \in IF call'.op = "kWrite" THEN Val ELSE {NoVal}
    /\ status' = "none"
    /\ UNCHANGED mem

\* What a call does to the contents and to the caller's buffer.
Effect ==
    \/ /\ call.op = "kWrite" /\ mem[call.address] # NoVal
       /\ mem' = [mem EXCEPT ![call.address] = buffer]
       /\ UNCHANGED buffer
    \/ /\ call.op = "kRead" /\ mem[call.address] # NoVal
       /\ buffer' = mem[call.address]
       /\ mem' = IF ReadRemoves THEN [mem EXCEPT ![call.address] = NoVal]
                 ELSE mem
    \/ /\ SilentMiss /\ mem[call.address] = NoVal
       /\ UNCHANGED <<mem, buffer>>

\* The one moment at which the call reads or changes the contents.
Apply ==
    /\ phase = "pending"
    /\ ~call.dummy
    /\ Effect
    /\ phase' = "applied"
    /\ UNCHANGED <<call, status>>

\* The effect and the answer in one step; the answer may be that it failed.
ApplyAndReturn ==
    /\ phase = "pending"
    /\ ~call.dummy
    /\ Effect
    /\ phase' = "idle"
    /\ status' \in {"kOK", "kServerError"}
    /\ UNCHANGED call

Return ==
    /\ phase = "applied"
    /\ phase' = "idle"
    /\ status' = "kOK"
    /\ UNCHANGED <<mem, call, buffer>>

\* A dummy access touches no block of the caller's choice; blocks may be lost.
ReturnDummy ==
    /\ phase = "pending"
    /\ call.dummy
    /\ phase' = "idle"
    /\ status' = "kOK"
    /\ Shrunk(mem')
    /\ UNCHANGED <<call, buffer>>

\* The call is turned down, without an effect.
Reject ==
    /\ phase = "pending"
    /\ phase' = "idle"
    /\ status' \in {"kInvalidArgument", "kObjectNotFound"}
    /\ UNCHANGED <<mem, call, buffer>>

\* The server was not reached, before or after the effect.
Fail ==
    /\ phase \in {"pending", "applied"}
    /\ phase' = "idle"
    /\ status' = "kServerError"
    /\ Shrunk(mem')
    /\ UNCHANGED <<call, buffer>>

Next ==
    \/ NotLoaded \/ Load \/ LoadFails \/ Halt \/ SetUpAgain
    \/ Invoke \/ Apply \/ ApplyAndReturn
    \/ Return \/ ReturnDummy \/ Reject \/ Fail

Spec == Init /\ [][Next]_vars
===============================================================================
