------------------------------ MODULE OramService ------------------------------
(***************************************************************************)
(* The gRPC service and its runner (server/oram_server).  The handlers of  *)
(* all clients run in gRPC's threads over storages_ and cryptor_, without  *)
(* locks; a step is what a handler does between two points where another   *)
(* thread can get in between.  What the handlers do to a storage is the    *)
(* business of PathOram, SqrtOram and LinearOram.  Here a storage holds    *)
(* one value, and ReadPath, WritePath, ReadFlatMemory, WriteFlatMemory,    *)
(* ReadSqrtMemory, WriteSqrtMemory, SqrtPermute and LoadSqrtOram, which    *)
(* check the request in the same way, are one handler that gives it a      *)
(* value (a read that changes nothing, the value it has).                  *)
(*                                                                         *)
(* A client creates one storage (OramClient's constructor) and marks it    *)
(* with its instance hash, so the client stands for the hash and for the   *)
(* address of the storage.                                                 *)
(***************************************************************************)
EXTENDS Naturals

CONSTANTS
    Client,                    \* instances of OramClient
    Thread,                    \* threads of the gRPC server
    Ids,                       \* ids of ORAMs
    Types,                     \* types of storages
    kMaximumOramStorageNum,
    Val, NoVal,                \* contents of a storage; of a new one
    None,                      \* no client
    Configs                    \* how the clients may be configured

ASSUME ServiceAssumption ==
    /\ Ids \subseteq Nat /\ kMaximumOramStorageNum \in Nat
    /\ NoVal \notin Val
    /\ Configs \subseteq [Client -> [id : Ids, type : Types]]
    /\ {None, "absent", "null"} \cap Client = {}

VARIABLES
    conf,            \* id and type of each client's ORAM
    state,           \* of each client
    handlers,        \* what each thread of the server does
    storages,        \* storages_: for each id a client's storage, or ...
    data,            \* contents of each client's storage
    has_cryptor,     \* cryptor_ is not null
    runner,          \* where ServerRunner::Run is
    server_running,
    ended,           \* "no", or how the server process has ended
    stored,          \* ghost: the last write answered to each client
    abandoned,       \* ghost: clients that have lost the answer to a call
    history          \* ghost: what has happened that the code does not expect

client_vars == <<conf, state>>
runner_vars == <<runner, server_running>>
ghosts == <<stored, abandoned, history>>
vars == <<conf, state, handlers, storages, data, has_cryptor, runner,
          server_running, ended, stored, abandoned, history>>

Idle == [op |-> "none", client |-> None, step |-> "none", val |-> NoVal,
         ptr |-> None, attached |-> FALSE]

Init ==
    /\ conf \in Configs
    /\ state = [c \in Client |-> "new"]
    /\ handlers = [t \in Thread |-> Idle]
    /\ storages = [i \in Ids |-> "absent"]
    /\ data = [c \in Client |-> NoVal]
    /\ has_cryptor = FALSE
    /\ runner = "starting"
    /\ server_running = FALSE
    /\ ended = "no"
    /\ stored = [c \in Client |-> NoVal]
    /\ abandoned = {}
    /\ history = {}

-------------------------------------------------------------------------------
(* Requests.  A client waits for the answer before it makes another call,   *)
(* unless its connection breaks, which it sees as an error while the        *)
(* handler goes on.                                                         *)

Exclusive == {"Init", "Reset"}
Accepting == runner \in {"listening", "flagged", "running"}
Busy == {handlers[t].op : t \in Thread} \ {"none"}

Arrive(t, op, c, step, v) ==
    /\ Accepting
    /\ handlers[t] = Idle
    /\ handlers' = [handlers EXCEPT ![t] =
                       [op |-> op, client |-> c, step |-> step, val |-> v,
                        ptr |-> None, attached |-> TRUE]]
    /\ history' = history
         \cup {m \in {"overlap"} : Busy # {} /\ (Busy \cup {op}) \cap Exclusive # {}}
         \cup {m \in {"early"} : op \in {"Exchange", "Reset"} /\ runner # "running"}
    /\ UNCHANGED <<conf, storages, data, has_cryptor, ended, stored, abandoned>>
    /\ UNCHANGED runner_vars

CallBy(c, from, t, op, step, v) ==
    /\ state[c] = from
    /\ state' = [state EXCEPT ![c] = "calling"]
    /\ Arrive(t, op, c, step, v)

InitOram(c, t) == CallBy(c, "new", t, "Init", "check", NoVal)
Use(c, v, t) == CallBy(c, "ready", t, "Use", "check", v)

\* The calls that are not about a client's own storage.
ResetServer(t) == Arrive(t, "Reset", None, "clear", NoVal) /\ UNCHANGED state
CloseConnection(t) == Arrive(t, "Close", None, "close", NoVal) /\ UNCHANGED state
KeyNegotiate(t) == Arrive(t, "Exchange", None, "keys", NoVal) /\ UNCHANGED state

ConnectionLost(c, t) ==
    LET h == handlers[t] IN
    /\ state[c] = "calling"
    /\ h.client = c /\ h.attached
    /\ handlers' = [handlers EXCEPT ![t].attached = FALSE]
    /\ state' = [state EXCEPT ![c] = IF h.op = "Init" THEN "gone" ELSE "ready"]
    /\ abandoned' = abandoned \cup {c}
    /\ UNCHANGED <<conf, storages, data, has_cryptor, ended, stored, history>>
    /\ UNCHANGED runner_vars

-------------------------------------------------------------------------------
(* Handlers. *)

At(t, ops, step) == handlers[t].op \in ops /\ handlers[t].step = step
Id(t) == conf[handlers[t].client].id
GoTo(t, step) == handlers' = [handlers EXCEPT ![t].step = step]

\* The handler returns.  A client that cannot create its storage exits.
Reply(t, ok) ==
    LET h == handlers[t] IN
    /\ handlers' = [handlers EXCEPT ![t] = Idle]
    /\ state' = IF h.attached /\ h.client # None
                THEN [state EXCEPT ![h.client] =
                         IF h.op = "Init" /\ ~ok THEN "gone" ELSE "ready"]
                ELSE state

\* The process ends, at a failed assertion or a null pointer, or in undefined
\* behaviour, and its threads with it.
End(how) ==
    /\ ended' = how
    /\ handlers' = [t \in Thread |-> Idle]
    /\ UNCHANGED state

\* Mutants of InitAllowed: an id may be taken again; any id will do.
InitAllowedAgain(id) == id < kMaximumOramStorageNum
InitUnlimited(id) == storages[id] = "absent"

InitAllowed(id) == storages[id] = "absent" /\ id < kMaximumOramStorageNum

CheckInitRequest(t) ==
    /\ At(t, {"Init"}, "check")
    /\ \/ InitAllowed(Id(t)) /\ GoTo(t, "create") /\ UNCHANGED state
       \/ ~InitAllowed(Id(t)) /\ Reply(t, FALSE)
    /\ UNCHANGED <<conf, storages, data, has_cryptor, ended>>
    /\ UNCHANGED runner_vars /\ UNCHANGED ghosts

\* The assignment destroys a storage that is there by now.
CreateStorage(t) ==
    /\ At(t, {"Init"}, "create")
    /\ storages' = [storages EXCEPT ![Id(t)] = handlers[t].client]
    /\ Reply(t, TRUE)
    /\ UNCHANGED <<conf, data, has_cryptor, ended>>
    /\ UNCHANGED runner_vars /\ UNCHANGED ghosts

IdValid(id) == storages[id] # "absent"

CheckIdValid(t) ==
    /\ At(t, {"Use"}, "check")
    /\ \/ IdValid(Id(t)) /\ GoTo(t, "lookup") /\ UNCHANGED state
       \/ ~IdValid(Id(t)) /\ Reply(t, FALSE)
    /\ UNCHANGED <<conf, storages, data, has_cryptor, ended>>
    /\ UNCHANGED runner_vars /\ UNCHANGED ghosts

\* storages_[id] inserts a null pointer when the id is not there any more.
Indexed(id) == [storages EXCEPT ![id] = IF @ = "absent" THEN "null" ELSE @]

\* Mutant of HashMatches: the instance hash is not compared.
HashIgnored(c, s) == TRUE

HashMatches(c, s) == s = c

\* A null pointer or another type of storage ends the server, another
\* instance's storage is refused.
CheckStorage(t) ==
    LET c == handlers[t].client
        s == Indexed(Id(t))[Id(t)]
        cast == s \in Client /\ conf[s].type = conf[c].type IN
    /\ At(t, {"Use"}, "lookup")
    /\ storages' = Indexed(Id(t))
    /\ \/ ~cast /\ End("panicked")
       \/ /\ cast /\ HashMatches(c, s)
          /\ handlers' = [handlers EXCEPT ![t].step = "work", ![t].ptr = s]
          /\ UNCHANGED <<state, ended>>
       \/ /\ cast /\ ~HashMatches(c, s)
          /\ Reply(t, FALSE)
          /\ UNCHANGED ended
    /\ UNCHANGED <<conf, data, has_cryptor>>
    /\ UNCHANGED runner_vars /\ UNCHANGED ghosts

Alive(s) == \E i \in Ids : storages[i] = s

\* The rest of the handler works on the storage it has looked up, whether or
\* not that still exists.
UseStorage(t) ==
    LET h == handlers[t] IN
    /\ At(t, {"Use"}, "work")
    /\ \/ /\ ~Alive(h.ptr)
          /\ End("undefined")
          /\ UNCHANGED <<data, stored>>
       \/ /\ Alive(h.ptr)
          /\ data' = [data EXCEPT ![h.ptr] = h.val]
          /\ stored' = IF h.attached THEN [stored EXCEPT ![h.client] = h.val]
                       ELSE stored
          /\ Reply(t, TRUE)
          /\ UNCHANGED ended
    /\ UNCHANGED <<conf, storages, has_cryptor, abandoned, history>>
    /\ UNCHANGED runner_vars

ClearStorages(t) ==
    /\ At(t, {"Reset"}, "clear")
    /\ storages' = [i \in Ids |-> "absent"]
    /\ GoTo(t, "drop")
    /\ history' = history \cup {"reset"}
    /\ UNCHANGED <<conf, state, data, has_cryptor, ended, stored, abandoned>>
    /\ UNCHANGED runner_vars

ResetCryptor(t) ==
    /\ At(t, {"Reset"}, "drop")
    /\ has_cryptor' = FALSE
    /\ Reply(t, TRUE)
    /\ UNCHANGED <<conf, storages, data, ended>>
    /\ UNCHANGED runner_vars /\ UNCHANGED ghosts

\* KeyExchange, and SendHello, follow the pointer to the cryptor.
KeyExchange(t) ==
    /\ At(t, {"Exchange"}, "keys")
    /\ \/ ~has_cryptor /\ End("panicked")
       \/ has_cryptor /\ Reply(t, TRUE) /\ UNCHANGED ended
    /\ UNCHANGED <<conf, storages, data, has_cryptor>>
    /\ UNCHANGED runner_vars /\ UNCHANGED ghosts

Close(t) ==
    /\ At(t, {"Close"}, "close")
    /\ server_running' = FALSE
    /\ history' = history \cup {m \in {"close"} : runner # "listening"}
    /\ Reply(t, TRUE)
    /\ UNCHANGED <<conf, storages, data, has_cryptor, runner, ended, stored,
                   abandoned>>

\* Two handlers are about to access the map, a storage or the cryptor at the
\* same time, and one of them to change it: anything may happen.  (Two key
\* exchanges race as well, for arrays of bytes of a fixed size: they mix up
\* keys, which the model does not have, and do no other harm.)
Races(h, g) ==
    \/ /\ h.step \in {"create", "clear"}
       /\ g.step \in {"check", "lookup", "create", "clear"}
    \/ h.step = "work" /\ g.step = "work" /\ g.ptr = h.ptr
    \/ h.step = "drop" /\ g.step \in {"keys", "drop"}

DataRace(t, u) ==
    /\ t # u
    /\ Races(handlers[t], handlers[u])
    /\ End("undefined")
    /\ UNCHANGED <<conf, storages, data, has_cryptor>>
    /\ UNCHANGED runner_vars /\ UNCHANGED ghosts

\* A handler reads or clears the pointer to the cryptor while Run is about to set it.
RaceWithRun(t) ==
    /\ runner = "flagged"
    /\ handlers[t].step \in {"keys", "drop"}
    /\ End("undefined")
    /\ UNCHANGED <<conf, storages, data, has_cryptor>>
    /\ UNCHANGED runner_vars /\ UNCHANGED ghosts

-------------------------------------------------------------------------------
(* ServerRunner::Run and its monitor thread. *)

BuildAndStart ==
    /\ runner = "starting"
    /\ runner' = "listening"
    /\ UNCHANGED <<handlers, storages, data, has_cryptor, server_running, ended>>
    /\ UNCHANGED client_vars /\ UNCHANGED ghosts

SetRunning ==
    /\ runner = "listening"
    /\ runner' = "flagged"
    /\ server_running' = TRUE
    /\ UNCHANGED <<handlers, storages, data, has_cryptor, ended>>
    /\ UNCHANGED client_vars /\ UNCHANGED ghosts

\* Mutant of StartMonitor: the flag is set (again) when the monitor starts.
StartMonitorSetsFlag ==
    /\ runner = "flagged"
    /\ runner' = "running"
    /\ has_cryptor' = TRUE
    /\ server_running' = TRUE
    /\ UNCHANGED <<handlers, storages, data, ended>>
    /\ UNCHANGED client_vars /\ UNCHANGED ghosts

\* The cryptor is set before the monitor thread looks at the flag.
StartMonitor ==
    /\ runner = "flagged"
    /\ runner' = "running"
    /\ has_cryptor' = TRUE
    /\ UNCHANGED <<handlers, storages, data, server_running, ended>>
    /\ UNCHANGED client_vars /\ UNCHANGED ghosts

\* The monitor wakes up and finds the flag cleared: no more calls are accepted.
Shutdown ==
    /\ runner = "running"
    /\ ~server_running
    /\ runner' = "draining"
    /\ UNCHANGED <<handlers, storages, data, has_cryptor, server_running, ended>>
    /\ UNCHANGED client_vars /\ UNCHANGED ghosts

\* Wait returns when the last handler has returned.
WaitReturns ==
    /\ runner = "draining"
    /\ Busy = {}
    /\ runner' = "stopped"
    /\ UNCHANGED <<handlers, storages, data, has_cryptor, server_running, ended>>
    /\ UNCHANGED client_vars /\ UNCHANGED ghosts

-------------------------------------------------------------------------------
Request(t) ==
    \/ \E c \in Client :
          \/ InitOram(c, t)
          \/ \E v \in Val : Use(c, v, t)
    \/ ResetServer(t) \/ CloseConnection(t) \/ KeyNegotiate(t)

Handle(t) ==
    /\ ended = "no"
    /\ \/ CheckInitRequest(t) \/ CreateStorage(t)
       \/ CheckIdValid(t) \/ CheckStorage(t) \/ UseStorage(t)
       \/ ClearStorages(t) \/ ResetCryptor(t)
       \/ KeyExchange(t) \/ Close(t)

Run ==
    /\ ended = "no"
    /\ BuildAndStart \/ SetRunning \/ StartMonitor \/ Shutdown \/ WaitReturns

Next ==
    \/ \E t \in Thread : Handle(t)
    \/ Run
    \/ /\ ended = "no"
       /\ \E t \in Thread :
             \/ Request(t) \/ RaceWithRun(t)
             \/ \E c \in Client : ConnectionLost(c, t)
             \/ \E u \in Thread : DataRace(t, u)

Spec == Init /\ [][Next]_vars

-------------------------------------------------------------------------------
(* Properties. *)

Handler ==
    [op : {"none", "Init", "Use", "Exchange", "Reset", "Close"},
     client : Client \cup {None},
     step : {"none", "check", "create", "lookup", "work", "clear", "drop", "keys",
             "close"},
     val : Val \cup {NoVal},
     ptr : Client \cup {None},
     attached : BOOLEAN]

\* Every variable has its type; only an id below the limit has a storage.
TypeOK ==
    /\ conf \in [Client -> [id : Ids, type : Types]]
    /\ state \in [Client -> {"new", "calling", "ready", "gone"}]
    /\ handlers \in [Thread -> Handler]
    /\ storages \in [Ids -> Client \cup {"absent", "null"}]
    /\ \A i \in Ids : storages[i] # "absent" => i < kMaximumOramStorageNum
    /\ data \in [Client -> Val \cup {NoVal}]
    /\ has_cryptor \in BOOLEAN
    /\ runner \in {"starting", "listening", "flagged", "running", "draining",
                   "stopped"}
    /\ server_running \in BOOLEAN
    /\ ended \in {"no", "panicked", "undefined"}
    /\ stored \in [Client -> Val \cup {NoVal}]
    /\ abandoned \subseteq Client
    /\ history \subseteq {"overlap", "early", "reset", "close"}

\* An id has one owner: two clients are both told that they have created the
\* storage of one id only if their Init handlers overlapped with others, or the
\* server was reset in between.
RegistrationExclusive ==
    \A c, d \in Client :
        /\ c # d /\ conf[c].id = conf[d].id
        /\ state[c] = "ready" /\ state[d] = "ready"
        => history \cap {"overlap", "reset"} # {}

\* When the handlers that change storages_ (Init, Reset) run alone, no client
\* abandons a call and nobody asks for a key or a reset before Run has set the
\* cryptor, no interleaving is undefined.  When they run alone, the server is never
\* reset and nobody asks for a key that early, CheckStorage and the key exchange do
\* not panic.
CrashJustified ==
    /\ ended = "undefined" => history \cap {"overlap", "early"} # {} \/ abandoned # {}
    /\ ended = "panicked" => history \cap {"overlap", "reset", "early"} # {}

\* What a client has stored stays as long as its storage exists, whoever else
\* has or had the same id, whatever was reset: no other client's handler gets
\* hold of the storage.  Only a client that has lost an answer cannot know.
StoredIsKept == \A c \in Client \ abandoned : data[c] = stored[c]

\* A request to close is heeded: once Run has set the flag that a handler then
\* clears, nothing sets it again, and the server takes new calls only until the
\* monitor has looked.  (One that is handled before is forgotten.)
CloseNotForgotten ==
    "close" \in history => ~server_running
===============================================================================
