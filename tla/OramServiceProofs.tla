-------------------------- MODULE OramServiceProofs --------------------------
(***************************************************************************)
(* Clients of the service do not disturb each other's storages, for every  *)
(* number of clients, threads, ids and configurations, and with handlers   *)
(* that interleave without locks; who owns an id, why the server may end,  *)
(* and that a request to close is kept.                                    *)
(***************************************************************************)
EXTENDS OramService, TLAPS

\* What a handler has found out when it is at a place of its code: the id is
\* below the limit, the storage it works on is its own client's; and a client
\* that does not wait for its handler has been noted.
PlaceOK(h) ==
    /\ h.op \in {"Init", "Use"} => h.client \in Client
    /\ h.op \in {"Init", "Use"} /\ h.step \in {"create", "lookup"}
          => conf[h.client].id < kMaximumOramStorageNum
    /\ h.op = "Use" /\ h.step = "work" => h.ptr = h.client
    /\ h.client \in Client => h.attached \/ h.client \in abandoned

Places == \A t \in Thread : PlaceOK(handlers[t])

IsolationInv == TypeOK /\ Places /\ StoredIsKept

\* The initial states satisfy the invariant.
LEMMA InitIsolation == Init => IsolationInv
  <1> SUFFICES ASSUME Init PROVE IsolationInv
    OBVIOUS
  <1>1. TypeOK
    BY ServiceAssumption DEF Init, TypeOK, Handler, Idle
  <1>2. Places
    BY ServiceAssumption DEF Init, Places, PlaceOK, Idle
  <1>3. StoredIsKept
    BY DEF Init, StoredIsKept
  <1> QED
    BY <1>1, <1>2, <1>3 DEF IsolationInv

\* A request that arrives.
LEMMA RequestIsolation ==
    ASSUME IsolationInv, NEW t \in Thread, Request(t)
    PROVE  IsolationInv'
  <1> USE DEF IsolationInv
  <1>1. ASSUME NEW c \in Client, InitOram(c, t) PROVE IsolationInv'
    BY <1>1, ServiceAssumption DEF InitOram, CallBy, Arrive, TypeOK, Handler, Idle, Places,
       PlaceOK, StoredIsKept, runner_vars
  <1>2. ASSUME NEW c \in Client, NEW v \in Val, Use(c, v, t) PROVE IsolationInv'
    BY <1>2, ServiceAssumption DEF Use, CallBy, Arrive, TypeOK, Handler, Idle, Places, PlaceOK,
       StoredIsKept, runner_vars
  <1>3. CASE ResetServer(t)
    BY <1>3, ServiceAssumption DEF ResetServer, Arrive, TypeOK, Handler, Idle, Places, PlaceOK,
       StoredIsKept, runner_vars
  <1>4. CASE CloseConnection(t)
    BY <1>4, ServiceAssumption DEF CloseConnection, Arrive, TypeOK, Handler, Idle, Places,
       PlaceOK, StoredIsKept, runner_vars
  <1>5. CASE KeyNegotiate(t)
    BY <1>5, ServiceAssumption DEF KeyNegotiate, Arrive, TypeOK, Handler, Idle, Places,
       PlaceOK, StoredIsKept, runner_vars
  <1> QED
    BY <1>1, <1>2, <1>3, <1>4, <1>5 DEF Request

\* A handler that returns leaves well-formed handlers and clients.
LEMMA ReplyOK ==
    ASSUME IsolationInv, NEW t \in Thread, NEW ok \in BOOLEAN, Reply(t, ok),
           UNCHANGED <<conf, abandoned>>
    PROVE  /\ handlers' \in [Thread -> Handler]
           /\ state' \in [Client -> {"new", "calling", "ready", "gone"}]
           /\ Places'
  <1>1. handlers[t] \in Handler /\ Idle \in Handler
    BY DEF IsolationInv, TypeOK, Handler, Idle
  <1>2. handlers' = [handlers EXCEPT ![t] = Idle]
    BY DEF Reply
  <1>3. handlers' \in [Thread -> Handler]
    BY <1>1, <1>2 DEF IsolationInv, TypeOK
  <1>4. state' \in [Client -> {"new", "calling", "ready", "gone"}]
    <2>1. CASE handlers[t].attached /\ handlers[t].client # None
      BY <1>1, <2>1 DEF Reply, IsolationInv, TypeOK, Handler
    <2>2. CASE ~(handlers[t].attached /\ handlers[t].client # None)
      BY <2>2 DEF Reply, IsolationInv, TypeOK
    <2> QED
      BY <2>1, <2>2
  <1>5. Places'
    BY <1>2, ServiceAssumption DEF IsolationInv, TypeOK, Places, PlaceOK, Idle
  <1> QED
    BY <1>3, <1>4, <1>5

\* A handler goes on to a place whose condition it has checked.
LEMMA GoToOK ==
    ASSUME IsolationInv, NEW t \in Thread,
           NEW step \in {"create", "lookup", "drop"}, GoTo(t, step),
           handlers[t].op \in {"Init", "Use"}
              => conf[handlers[t].client].id < kMaximumOramStorageNum,
           UNCHANGED <<conf, abandoned>>
    PROVE  handlers' \in [Thread -> Handler] /\ Places'
  <1>1. handlers[t] \in Handler
    BY DEF IsolationInv, TypeOK
  <1> DEFINE h == [handlers[t] EXCEPT !.step = step]
  <1>2. h \in Handler
    BY <1>1 DEF Handler
  <1>3. handlers' = [handlers EXCEPT ![t] = h]
    BY DEF GoTo
  <1>4. /\ h.op = handlers[t].op /\ h.client = handlers[t].client
        /\ h.step = step /\ h.attached = handlers[t].attached
    BY <1>1 DEF Handler
  <1>5. PlaceOK(handlers[t])
    BY DEF IsolationInv, Places
  <1>6. PlaceOK(h)
    BY <1>4, <1>5 DEF PlaceOK
  <1> HIDE DEF h
  <1>7. handlers' \in [Thread -> Handler]
    BY <1>2, <1>3 DEF IsolationInv, TypeOK
  <1>8. \A u \in Thread : PlaceOK(handlers'[u])
    BY <1>3, <1>6 DEF IsolationInv, TypeOK, Places
  <1>9. Places'
    BY <1>8 DEF Places, PlaceOK
  <1> QED
    BY <1>7, <1>9

\* The end of the process leaves no handler.
LEMMA EndOK ==
    ASSUME IsolationInv, NEW how, End(how), UNCHANGED <<conf, abandoned>>
    PROVE  /\ handlers' \in [Thread -> Handler]
           /\ state' = state
           /\ Places'
  <1>1. handlers' \in [Thread -> Handler]
    BY DEF End, Handler, Idle
  <1>2. Places'
    BY ServiceAssumption DEF End, Places, PlaceOK, Idle
  <1> QED
    BY <1>1, <1>2 DEF End

\* A step of a handler.
LEMMA HandleIsolation ==
    ASSUME IsolationInv, NEW t \in Thread, Handle(t)
    PROVE  IsolationInv'
  <1>h. handlers[t] \in Handler /\ PlaceOK(handlers[t])
    BY DEF IsolationInv, TypeOK, Places
  <1>1. CASE CheckInitRequest(t)
    <2>1. UNCHANGED <<conf, abandoned, storages, data, stored>> /\ TypeOK /\ StoredIsKept
      BY <1>1 DEF CheckInitRequest, IsolationInv, ghosts
    <2>2. CASE InitAllowed(Id(t)) /\ GoTo(t, "create") /\ UNCHANGED state
      <3>1. handlers' \in [Thread -> Handler] /\ Places'
        BY <2>1, <2>2, GoToOK DEF InitAllowed, Id
      <3> QED
        BY <1>1, <2>1, <2>2, <3>1
        DEF CheckInitRequest, IsolationInv, TypeOK, StoredIsKept, runner_vars, ghosts
    <2>3. CASE Reply(t, FALSE)
      <3>1. /\ handlers' \in [Thread -> Handler] /\ Places'
            /\ state' \in [Client -> {"new", "calling", "ready", "gone"}]
        BY <2>1, <2>3, ReplyOK
      <3> QED
        BY <1>1, <2>1, <3>1
        DEF CheckInitRequest, IsolationInv, TypeOK, StoredIsKept, runner_vars, ghosts
    <2> QED
      BY <1>1, <2>2, <2>3 DEF CheckInitRequest
  <1>2. CASE CreateStorage(t)
    <2>1. UNCHANGED <<conf, abandoned>> /\ Reply(t, TRUE) /\ TypeOK
      BY <1>2 DEF CreateStorage, ghosts, IsolationInv
    <2>2. /\ handlers' \in [Thread -> Handler] /\ Places'
          /\ state' \in [Client -> {"new", "calling", "ready", "gone"}]
      BY <2>1, ReplyOK
    <2>3. /\ handlers[t].client \in Client
          /\ Id(t) \in Ids /\ Id(t) < kMaximumOramStorageNum
      BY <1>2, <1>h, <2>1 DEF CreateStorage, At, Id, PlaceOK, TypeOK
    <2> QED
      BY <1>2, <2>1, <2>2, <2>3
      DEF CreateStorage, IsolationInv, TypeOK, StoredIsKept, runner_vars, ghosts
  <1>3. CASE CheckIdValid(t)
    <2>1. UNCHANGED <<conf, abandoned, storages, data, stored>> /\ TypeOK /\ StoredIsKept
      BY <1>3 DEF CheckIdValid, IsolationInv, ghosts
    <2>2. CASE IdValid(Id(t)) /\ GoTo(t, "lookup") /\ UNCHANGED state
      <3>1. Id(t) \in Ids
        BY <1>3, <1>h, <2>1 DEF CheckIdValid, At, Id, PlaceOK, TypeOK
      <3>2. Id(t) < kMaximumOramStorageNum
        BY <2>1, <2>2, <3>1 DEF IdValid, TypeOK
      <3>3. handlers' \in [Thread -> Handler] /\ Places'
        BY <2>1, <2>2, <3>2, GoToOK DEF Id
      <3> QED
        BY <1>3, <2>1, <2>2, <3>3
        DEF CheckIdValid, IsolationInv, TypeOK, StoredIsKept, runner_vars, ghosts
    <2>3. CASE Reply(t, FALSE)
      <3>1. /\ handlers' \in [Thread -> Handler] /\ Places'
            /\ state' \in [Client -> {"new", "calling", "ready", "gone"}]
        BY <2>1, <2>3, ReplyOK
      <3> QED
        BY <1>3, <2>1, <3>1
        DEF CheckIdValid, IsolationInv, TypeOK, StoredIsKept, runner_vars, ghosts
    <2> QED
      BY <1>3, <2>2, <2>3 DEF CheckIdValid
  <1>4. CASE CheckStorage(t)
    <2> DEFINE c == handlers[t].client
               s == Indexed(Id(t))[Id(t)]
    <2>1. /\ UNCHANGED <<conf, abandoned, data, stored, has_cryptor, history>>
          /\ TypeOK /\ StoredIsKept
          /\ c \in Client /\ Id(t) \in Ids /\ Id(t) < kMaximumOramStorageNum
      BY <1>4, <1>h DEF CheckStorage, IsolationInv, ghosts, At, Id, PlaceOK, TypeOK
    <2>2. /\ storages' \in [Ids -> Client \cup {"absent", "null"}]
          /\ \A i \in Ids : storages'[i] # "absent" => i < kMaximumOramStorageNum
      BY <1>4, <2>1 DEF CheckStorage, Indexed, TypeOK
    <2>3. SUFFICES /\ handlers' \in [Thread -> Handler] /\ Places'
                   /\ state' \in [Client -> {"new", "calling", "ready", "gone"}]
                   /\ ended' \in {"no", "panicked", "undefined"}
      BY <1>4, <2>1, <2>2
      DEF CheckStorage, IsolationInv, TypeOK, StoredIsKept, runner_vars
    <2>4. CASE End("panicked")
      BY <2>1, <2>4, EndOK DEF End, TypeOK
    <2>5. CASE /\ s \in Client /\ HashMatches(c, s)
               /\ handlers' = [handlers EXCEPT ![t].step = "work", ![t].ptr = s]
               /\ UNCHANGED <<state, ended>>
      <3> DEFINE h == [handlers[t] EXCEPT !.step = "work", !.ptr = s]
      <3>1. /\ h \in Handler /\ h.op = handlers[t].op /\ h.client = c
            /\ h.step = "work" /\ h.ptr = s /\ h.attached = handlers[t].attached
        BY <1>h, <2>5 DEF Handler
      <3>2. PlaceOK(h)
        BY <1>h, <2>5, <3>1 DEF PlaceOK, HashMatches
      <3>3. handlers' = [handlers EXCEPT ![t] = h]
        BY <2>1, <2>5 DEF TypeOK, Handler
      <3> HIDE DEF h
      <3>4. handlers' \in [Thread -> Handler]
        BY <2>1, <3>1, <3>3 DEF TypeOK
      <3>5. \A u \in Thread : PlaceOK(handlers'[u])
        BY <2>1, <3>2, <3>3 DEF IsolationInv, Places, TypeOK
      <3> QED
        BY <2>1, <2>5, <3>4, <3>5 DEF Places, PlaceOK, TypeOK
    <2>6. CASE Reply(t, FALSE) /\ UNCHANGED ended
      BY <2>1, <2>6, ReplyOK DEF TypeOK
    <2> QED
      BY <1>4, <2>4, <2>5, <2>6 DEF CheckStorage
  <1>5. CASE UseStorage(t)
    <2> DEFINE h == handlers[t]
    <2>1. /\ UNCHANGED <<conf, abandoned, storages, has_cryptor, history>>
          /\ TypeOK /\ StoredIsKept
          /\ h.client \in Client /\ h.ptr = h.client /\ h.val \in Val \cup {NoVal}
          /\ h.attached \/ h.client \in abandoned
      BY <1>5, <1>h DEF UseStorage, IsolationInv, At, PlaceOK, Handler
    <2>2. CASE End("undefined") /\ UNCHANGED <<data, stored>>
      <3>1. handlers' \in [Thread -> Handler] /\ state' = state /\ Places'
        BY <2>1, <2>2, EndOK
      <3> QED
        BY <1>5, <2>1, <2>2, <3>1
        DEF UseStorage, End, IsolationInv, TypeOK, StoredIsKept, runner_vars
    <2>3. CASE /\ data' = [data EXCEPT ![h.ptr] = h.val]
               /\ stored' = IF h.attached THEN [stored EXCEPT ![h.client] = h.val]
                            ELSE stored
               /\ Reply(t, TRUE)
               /\ UNCHANGED ended
      <3>1. /\ handlers' \in [Thread -> Handler] /\ Places'
            /\ state' \in [Client -> {"new", "calling", "ready", "gone"}]
        BY <2>1, <2>3, ReplyOK
      <3>2. /\ data' \in [Client -> Val \cup {NoVal}]
            /\ stored' \in [Client -> Val \cup {NoVal}]
        BY <2>1, <2>3 DEF TypeOK
      <3>3. StoredIsKept'
        BY <2>1, <2>3 DEF StoredIsKept, TypeOK
      <3> QED
        BY <1>5, <2>1, <2>3, <3>1, <3>2, <3>3
        DEF UseStorage, IsolationInv, TypeOK, runner_vars
    <2> QED
      BY <1>5, <2>2, <2>3 DEF UseStorage
  <1>6. CASE ClearStorages(t)
    <2>1. UNCHANGED <<conf, abandoned, data, stored>> /\ TypeOK /\ StoredIsKept
      BY <1>6 DEF ClearStorages, IsolationInv
    <2>2. handlers' \in [Thread -> Handler] /\ Places'
      BY <1>6, <2>1, GoToOK DEF ClearStorages, At
    <2> QED
      BY <1>6, <2>1, <2>2 DEF ClearStorages, IsolationInv, TypeOK, StoredIsKept, runner_vars
  <1>7. CASE ResetCryptor(t) \/ KeyExchange(t) \/ Close(t)
    <2>1. UNCHANGED <<conf, abandoned, storages, data, stored>> /\ TypeOK /\ StoredIsKept
      BY <1>7 DEF ResetCryptor, KeyExchange, Close, IsolationInv, ghosts
    <2>2. (\E ok \in BOOLEAN : Reply(t, ok)) \/ End("panicked")
      BY <1>7 DEF ResetCryptor, KeyExchange, Close
    <2>3. /\ handlers' \in [Thread -> Handler] /\ Places'
          /\ state' \in [Client -> {"new", "calling", "ready", "gone"}]
      BY <2>1, <2>2, ReplyOK, EndOK DEF TypeOK
    <2>4. /\ has_cryptor' \in BOOLEAN /\ server_running' \in BOOLEAN /\ runner' = runner
          /\ ended' \in {"no", "panicked", "undefined"}
          /\ history' \subseteq {"overlap", "early", "reset", "close"}
      BY <1>7, <2>1
      DEF ResetCryptor, KeyExchange, Close, TypeOK, End, runner_vars, ghosts
    <2> QED
      BY <2>1, <2>3, <2>4 DEF IsolationInv, TypeOK, StoredIsKept
  <1> QED
    BY <1>1, <1>2, <1>3, <1>4, <1>5, <1>6, <1>7 DEF Handle

\* A step of Run, and the steps that are nobody's: they leave handlers and
\* contents alone, or end the process.
LEMMA OtherIsolation ==
    ASSUME IsolationInv,
           \/ Run
           \/ \E t \in Thread, c \in Client : ConnectionLost(c, t)
           \/ \E t, u \in Thread : DataRace(t, u)
           \/ \E t \in Thread : RaceWithRun(t)
    PROVE  IsolationInv'
  <1> USE ServiceAssumption DEF IsolationInv
  <1>1. CASE Run
    BY <1>1 DEF Run, BuildAndStart, SetRunning, StartMonitor, Shutdown, WaitReturns,
       TypeOK, Places, PlaceOK, StoredIsKept, client_vars, ghosts
  <1>2. ASSUME NEW t \in Thread, NEW c \in Client, ConnectionLost(c, t)
        PROVE  IsolationInv'
    <2> DEFINE h == [handlers[t] EXCEPT !.attached = FALSE]
    <2>1. /\ handlers[t] \in Handler /\ PlaceOK(handlers[t])
          /\ UNCHANGED conf /\ abandoned' = abandoned \cup {c}
          /\ handlers[t].client = c
      BY <1>2 DEF TypeOK, Places, ConnectionLost
    <2>2. /\ h \in Handler /\ h.op = handlers[t].op /\ h.client = c
          /\ h.step = handlers[t].step /\ h.ptr = handlers[t].ptr
      BY <2>1 DEF Handler
    <2>3. handlers' = [handlers EXCEPT ![t] = h]
      BY <1>2 DEF ConnectionLost, TypeOK, Handler
    <2> HIDE DEF h
    <2>4. handlers' \in [Thread -> Handler]
      BY <2>2, <2>3 DEF TypeOK
    <2>5. Places'
      BY <2>1, <2>2, <2>3 DEF Places, PlaceOK, TypeOK
    <2>6. state' \in [Client -> {"new", "calling", "ready", "gone"}]
      BY <1>2 DEF ConnectionLost, TypeOK
    <2> QED
      BY <1>2, <2>1, <2>4, <2>5, <2>6
      DEF ConnectionLost, TypeOK, StoredIsKept, runner_vars
  <1>3. ASSUME NEW t \in Thread, NEW u \in Thread, DataRace(t, u)
        PROVE  IsolationInv'
    BY <1>3 DEF DataRace, End, TypeOK, Handler, Idle, Places, PlaceOK, StoredIsKept,
       runner_vars, ghosts
  <1>4. ASSUME NEW t \in Thread, RaceWithRun(t) PROVE IsolationInv'
    BY <1>4 DEF RaceWithRun, End, TypeOK, Handler, Idle, Places, PlaceOK, StoredIsKept,
       runner_vars, ghosts
  <1> QED
    BY <1>1, <1>2, <1>3, <1>4

\* The invariant holds in every reachable state: it is inductive, whatever
\* threads do between the steps of a handler.
THEOREM Isolation == Spec => []IsolationInv
  <1>1. Init => IsolationInv
    BY InitIsolation
  <1>2. IsolationInv /\ [Next]_vars => IsolationInv'
    <2> SUFFICES ASSUME IsolationInv, [Next]_vars PROVE IsolationInv'
      OBVIOUS
    <2>1. CASE UNCHANGED vars
      BY <2>1 DEF vars, IsolationInv, TypeOK, Places, PlaceOK, StoredIsKept
    <2>2. CASE Next
      BY <2>2, RequestIsolation, HandleIsolation, OtherIsolation DEF Next
    <2> QED
      BY <2>1, <2>2
  <1> QED
    BY <1>1, <1>2, PTL DEF Spec

\* Every variable keeps its type, and no id beyond the limit that
\* CheckInitRequest sets has a storage.
THEOREM ServiceTyping == Spec => []TypeOK
  BY Isolation, PTL DEF IsolationInv

\* What a client has stored with an answered call is what its storage holds:
\* CheckStorage keeps the handlers of all other clients away from it.
THEOREM StoredIsKeptSafe == Spec => []StoredIsKept
  BY Isolation, PTL DEF IsolationInv
-------------------------------------------------------------------------------
(* Who owns an id, and why the server ends. *)

\* Where a handler can be, and whether it works for a client.
ShapeOK(h) ==
    /\ <<h.op, h.step>> \in
          {<<"none", "none">>, <<"Init", "check">>, <<"Init", "create">>,
           <<"Use", "check">>, <<"Use", "lookup">>, <<"Use", "work">>,
           <<"Reset", "clear">>, <<"Reset", "drop">>, <<"Exchange", "keys">>,
           <<"Close", "close">>}
    /\ h.client \in Client <=> h.op \in {"Init", "Use"}

Shape == \A t \in Thread : ShapeOK(handlers[t])

\* Until handlers have overlapped, Init and Reset are alone.
Alone ==
    "overlap" \notin history =>
        \A t, u \in Thread :
            t # u /\ handlers[t].op \in Exclusive => handlers[u].op = "none"

\* A client waits for the one handler it is attached to, so a client with two
\* handlers has abandoned one of them.
Waiting ==
    /\ \A t \in Thread :
          handlers[t].client \in Client /\ handlers[t].attached
             => state[handlers[t].client] = "calling"
    /\ \A t, u \in Thread :
          /\ t # u /\ handlers[t].client \in Client
          /\ handlers[t].client = handlers[u].client
          => /\ handlers[t].client \in abandoned
             /\ ~(handlers[t].attached /\ handlers[u].attached)

\* What CheckInitRequest and CheckStorage have found is still so when it is used.
Reserved ==
    "overlap" \notin history =>
        \A t \in Thread :
            /\ handlers[t].step = "create" => storages[Id(t)] = "absent"
            /\ handlers[t].step = "work" => storages[Id(t)] = handlers[t].client

\* A client that was told that it has a storage has it.
Owned ==
    history \cap {"overlap", "reset"} = {} =>
        /\ \A t \in Thread : handlers[t].op = "Use" => storages[Id(t)] = handlers[t].client
        /\ \A c \in Client : state[c] = "ready" => storages[conf[c].id] = c

\* After StartMonitor only Reset takes the cryptor away.
CryptorSet ==
    /\ \A t \in Thread : handlers[t].step = "drop" => "reset" \in history
    /\ "reset" \notin history /\ runner \in {"running", "draining", "stopped"}
          => has_cryptor
    /\ "early" \notin history =>
          \A t \in Thread : handlers[t].op \in {"Exchange", "Reset"}
             => runner \in {"running", "draining", "stopped"}

\* A close that counts comes after Run has set the flag.
FlagSet ==
    /\ runner = "starting" => \A t \in Thread : handlers[t].op = "none"
    /\ "close" \in history => ~server_running /\ runner \notin {"starting", "listening"}

HandlersInv == IsolationInv /\ Shape /\ Alone /\ Waiting

OwnershipInv == HandlersInv /\ Reserved /\ Owned /\ CryptorSet /\ FlagSet /\ CrashJustified

\* The initial states satisfy the invariant.
LEMMA InitOwnership == Init => OwnershipInv
  <1> SUFFICES ASSUME Init PROVE OwnershipInv
    OBVIOUS
  <1>1. IsolationInv
    BY InitIsolation
  <1>2. \A t \in Thread : /\ handlers[t] = Idle /\ Idle.op = "none" /\ Idle.step = "none"
                          /\ Idle.client \notin Client
    BY ServiceAssumption DEF Init, Idle
  <1>3. Shape /\ Alone /\ Waiting
    BY <1>2 DEF Shape, ShapeOK, Alone, Waiting, Exclusive
  <1>4. Reserved /\ Owned /\ CryptorSet /\ FlagSet /\ CrashJustified
    BY <1>2 DEF Init, Reserved, Owned, CryptorSet, FlagSet, CrashJustified
  <1> QED
    BY <1>1, <1>3, <1>4 DEF OwnershipInv, HandlersInv

\* What a thread's handler becomes when it is the only one that changes.
Becomes(t, op, step, c, attached) ==
    /\ \A u \in Thread : u # t => handlers'[u] = handlers[u]
    /\ handlers'[t].op = op /\ handlers'[t].step = step
    /\ handlers'[t].client = c /\ handlers'[t].attached = attached

\* The three ways a handler goes on.
LEMMA ReplyBecomes ==
    ASSUME TypeOK, NEW t \in Thread, NEW ok, Reply(t, ok)
    PROVE  Becomes(t, "none", "none", None, FALSE)
  BY DEF TypeOK, Reply, Becomes, Idle

LEMMA GoToBecomes ==
    ASSUME TypeOK, NEW t \in Thread, NEW step, GoTo(t, step)
    PROVE  Becomes(t, handlers[t].op, step, handlers[t].client, handlers[t].attached)
  <1>1. handlers[t] \in Handler
    BY DEF TypeOK
  <1> QED
    BY <1>1 DEF TypeOK, GoTo, Becomes, Handler

LEMMA ArriveBecomes ==
    ASSUME TypeOK, NEW t \in Thread, NEW op, NEW c, NEW step, NEW v,
           Arrive(t, op, c, step, v)
    PROVE  Becomes(t, op, step, c, TRUE) /\ handlers[t] = Idle
  BY DEF TypeOK, Arrive, Becomes

LEMMA EndBecomes ==
    ASSUME NEW how, End(how)
    PROVE  /\ \A t \in Thread : /\ handlers'[t].op = "none" /\ handlers'[t].step = "none"
                                /\ handlers'[t].client = None
           /\ state' = state /\ ended' = how
  BY DEF End, Idle

\* A request that arrives.
LEMMA RequestHandlers ==
    ASSUME HandlersInv, NEW t \in Thread, NEW op, NEW step, NEW v,
           NEW c \in Client \cup {None},
           Arrive(t, op, c, step, v),
           <<op, step>> \in {<<"Init", "check">>, <<"Use", "check">>, <<"Reset", "clear">>,
                             <<"Exchange", "keys">>, <<"Close", "close">>},
           c \in Client <=> op \in {"Init", "Use"},
           IF c \in Client
           THEN state[c] # "calling" /\ state' = [state EXCEPT ![c] = "calling"]
           ELSE state' = state
    PROVE  Shape' /\ Alone' /\ Waiting'
  <1> USE DEF HandlersInv, IsolationInv
  <1>1. Becomes(t, op, step, c, TRUE) /\ handlers[t] = Idle
    BY ArriveBecomes
  <1>2. abandoned' = abandoned
    BY DEF Arrive
  <1>3. Shape'
    BY <1>1 DEF Shape, ShapeOK, Becomes
  <1>4. Alone'
    <2> SUFFICES ASSUME "overlap" \notin history', NEW u \in Thread, NEW w \in Thread,
                        u # w, handlers'[u].op \in Exclusive
                 PROVE  handlers'[w].op = "none"
      BY DEF Alone
    <2>1. "overlap" \notin history
      BY DEF Arrive
    <2>2. Busy = {} \/ (Busy \cup {op}) \cap Exclusive = {}
      BY DEF Arrive
    <2>3. \A r \in Thread : handlers[r].op = "none" \/ handlers[r].op \in Busy
      BY DEF Busy
    <2> QED
      BY <1>1, <2>1, <2>2, <2>3 DEF Alone, Becomes, Exclusive
  <1>5. Waiting'
    <2>1. \A u \in Thread : u # t /\ c \in Client /\ handlers[u].client = c
             => ~handlers[u].attached /\ c \in abandoned
      BY DEF Waiting, Places, PlaceOK
    <2>2. \A u \in Thread : handlers'[u].client \in Client /\ handlers'[u].attached
             => state'[handlers'[u].client] = "calling"
      BY <1>1, <2>1 DEF Waiting, TypeOK, Becomes
    <2>3. \A u, w \in Thread :
             /\ u # w /\ handlers'[u].client \in Client
             /\ handlers'[u].client = handlers'[w].client
             => /\ handlers'[u].client \in abandoned
                /\ ~(handlers'[u].attached /\ handlers'[w].attached)
      BY <1>1, <2>1 DEF Waiting, Becomes
    <2> QED
      BY <1>2, <2>2, <2>3 DEF Waiting
  <1> QED
    BY <1>3, <1>4, <1>5

\* A handler that returns.
LEMMA ReplyHandlers ==
    ASSUME HandlersInv, NEW t \in Thread, NEW ok, Reply(t, ok),
           "overlap" \in history' <=> "overlap" \in history, abandoned' = abandoned
    PROVE  Shape' /\ Alone' /\ Waiting'
  <1> USE ServiceAssumption DEF HandlersInv, IsolationInv
  <1>1. Becomes(t, "none", "none", None, FALSE)
    BY ReplyBecomes
  <1>2. None \notin Client
    OBVIOUS
  <1>3. Shape'
    BY <1>1, <1>2 DEF Shape, ShapeOK, Becomes
  <1>4. Alone'
    BY <1>1 DEF Alone, Becomes, Exclusive
  <1>5. Waiting'
    <2>1. \A u \in Thread : handlers'[u].client \in Client /\ handlers'[u].attached
             => state'[handlers'[u].client] = "calling"
      <3> SUFFICES ASSUME NEW u \in Thread, handlers'[u].client \in Client,
                          handlers'[u].attached
                   PROVE  state'[handlers'[u].client] = "calling"
        OBVIOUS
      <3>1. u # t /\ handlers'[u] = handlers[u]
        BY <1>1, <1>2 DEF Becomes
      <3>2. state[handlers[u].client] = "calling"
        BY <3>1 DEF Waiting
      <3>3. ~(handlers[t].attached /\ handlers[t].client = handlers[u].client)
        BY <3>1 DEF Waiting
      <3> QED
        BY <3>1, <3>2, <3>3 DEF Reply, TypeOK
    <2>2. \A u, w \in Thread :
             /\ u # w /\ handlers'[u].client \in Client
             /\ handlers'[u].client = handlers'[w].client
             => /\ handlers'[u].client \in abandoned
                /\ ~(handlers'[u].attached /\ handlers'[w].attached)
      BY <1>1, <1>2 DEF Waiting, Becomes
    <2> QED
      BY <2>1, <2>2 DEF Waiting
  <1> QED
    BY <1>3, <1>4, <1>5

\* A handler that goes on to another place for the same client.
LEMMA MoveHandlers ==
    ASSUME HandlersInv, NEW t \in Thread, NEW step,
           Becomes(t, handlers[t].op, step, handlers[t].client, handlers[t].attached),
           <<handlers[t].op, step>> \in {<<"Init", "create">>, <<"Use", "lookup">>,
                                         <<"Use", "work">>, <<"Reset", "drop">>},
           "overlap" \in history' <=> "overlap" \in history,
           abandoned' = abandoned, state' = state
    PROVE  Shape' /\ Alone' /\ Waiting'
  <1> USE DEF HandlersInv
  <1>1. Shape'
    BY DEF Shape, ShapeOK, Becomes
  <1>2. Alone'
    BY DEF Alone, Becomes
  <1>3. Waiting'
    BY DEF Waiting, Becomes
  <1> QED
    BY <1>1, <1>2, <1>3

\* The process that ends has no handlers.
LEMMA EndHandlers ==
    ASSUME NEW how, End(how)
    PROVE  Shape' /\ Alone' /\ Waiting'
  BY EndBecomes, ServiceAssumption DEF Shape, ShapeOK, Alone, Waiting, Exclusive

\* A request finds the storages and the server as they are.
LEMMA RequestOwnership ==
    ASSUME OwnershipInv, NEW t \in Thread, Request(t)
    PROVE  OwnershipInv'
  <1> USE DEF OwnershipInv
  <1>0. IsolationInv'
    BY RequestIsolation DEF HandlersInv
  <1>1. ASSUME NEW op, NEW step, NEW v, NEW c \in Client \cup {None},
               Arrive(t, op, c, step, v),
               <<op, step>> \in {<<"Init", "check">>, <<"Use", "check">>, <<"Reset", "clear">>,
                                 <<"Exchange", "keys">>, <<"Close", "close">>},
               c \in Client <=> op \in {"Init", "Use"},
               IF c \in Client
               THEN state[c] # "calling" /\ state' = [state EXCEPT ![c] = "calling"]
               ELSE state' = state,
               op = "Use" => state[c] = "ready"
        PROVE  OwnershipInv'
    <2>1. Shape' /\ Alone' /\ Waiting'
      BY <1>1, RequestHandlers
    <2>2. Becomes(t, op, step, c, TRUE) /\ handlers[t] = Idle
      BY <1>1, ArriveBecomes DEF HandlersInv, IsolationInv
    <2>3. /\ UNCHANGED <<conf, storages, has_cryptor, ended, abandoned, runner,
                         server_running>>
          /\ history \subseteq history' /\ history' \subseteq history \cup {"overlap", "early"}
          /\ Accepting
      BY <1>1 DEF Arrive, runner_vars
    <2>4. TypeOK
      BY DEF HandlersInv, IsolationInv
    <2>5. Reserved'
      BY <1>1, <2>2, <2>3 DEF Reserved, Id, Becomes
    <2>6. Owned'
      BY <1>1, <2>2, <2>3, <2>4 DEF Owned, Id, Becomes, TypeOK
    <2>7. CryptorSet'
      BY <1>1, <2>2, <2>3 DEF CryptorSet, Becomes, Arrive, Accepting
    <2>8. FlagSet'
      BY <2>2, <2>3 DEF FlagSet, Becomes, Accepting
    <2>9. CrashJustified'
      BY <2>3 DEF CrashJustified
    <2> QED
      BY <1>0, <2>1, <2>5, <2>6, <2>7, <2>8, <2>9 DEF HandlersInv
  <1>2. ASSUME NEW c \in Client, InitOram(c, t) PROVE OwnershipInv'
    BY <1>1, <1>2 DEF InitOram, CallBy
  <1>3. ASSUME NEW c \in Client, NEW v \in Val, Use(c, v, t) PROVE OwnershipInv'
    BY <1>1, <1>3 DEF Use, CallBy
  <1>4. CASE ResetServer(t) \/ CloseConnection(t) \/ KeyNegotiate(t)
    BY <1>1, <1>4, ServiceAssumption DEF ResetServer, CloseConnection, KeyNegotiate
  <1> QED
    BY <1>2, <1>3, <1>4 DEF Request

\* A handler that returns, and has changed neither storages nor cryptor, keeps
\* the rest of the invariant, if the client that is told it has a storage has it.
LEMMA ReplyOwnership ==
    ASSUME OwnershipInv, NEW t \in Thread, NEW ok, Reply(t, ok),
           UNCHANGED <<conf, storages, has_cryptor, ended, abandoned, runner, history>>,
           server_running' = server_running,
           ok => handlers[t].op # "Init"
    PROVE  Reserved' /\ Owned' /\ CryptorSet' /\ FlagSet' /\ CrashJustified'
  <1> USE DEF OwnershipInv
  <1>1. Becomes(t, "none", "none", None, FALSE)
    BY ReplyBecomes DEF HandlersInv, IsolationInv
  <1>2. TypeOK /\ ShapeOK(handlers[t])
    BY DEF HandlersInv, IsolationInv, Shape
  <1>3. Reserved'
    BY <1>1 DEF Reserved, Id, Becomes
  <1>4. Owned'
    <2> SUFFICES ASSUME history \cap {"overlap", "reset"} = {} PROVE Owned'
      BY DEF Owned
    <2>1. \A u \in Thread : handlers'[u].op = "Use" => storages[Id(u)'] = handlers'[u].client
      BY <1>1 DEF Owned, Id, Becomes
    <2>2. \A c \in Client : state'[c] = "ready" => storages[conf[c].id] = c
      <3> SUFFICES ASSUME NEW c \in Client, state'[c] = "ready"
                   PROVE  storages[conf[c].id] = c
        OBVIOUS
      <3>1. state[c] = "ready" \/ (handlers[t].client = c /\ handlers[t].op = "Use")
        BY <1>2 DEF Reply, TypeOK, ShapeOK
      <3> QED
        BY <3>1 DEF Owned, Id
    <2> QED
      BY <2>1, <2>2 DEF Owned
  <1>5. CryptorSet'
    BY <1>1 DEF CryptorSet, Becomes
  <1>6. FlagSet'
    BY <1>1 DEF FlagSet, Becomes
  <1>7. CrashJustified'
    BY DEF CrashJustified
  <1> QED
    BY <1>3, <1>4, <1>5, <1>6, <1>7

\* The process that ends keeps everything but the reason.
LEMMA EndOwnership ==
    ASSUME OwnershipInv, NEW how, End(how),
           UNCHANGED <<conf, has_cryptor, abandoned, history, runner, server_running>>,
           \A i \in Ids : storages[i] \in Client => storages'[i] = storages[i]
    PROVE  Reserved' /\ Owned' /\ CryptorSet' /\ FlagSet'
  <1>1. Reserved' /\ CryptorSet' /\ FlagSet'
    BY EndBecomes DEF OwnershipInv, Reserved, CryptorSet, FlagSet
  <1>2. Owned'
    BY EndBecomes DEF OwnershipInv, HandlersInv, IsolationInv, TypeOK, Owned
  <1> QED
    BY <1>1, <1>2

\* A step of a handler.
LEMMA HandleOwnership ==
    ASSUME OwnershipInv, NEW t \in Thread, Handle(t)
    PROVE  OwnershipInv'
  <1> USE DEF OwnershipInv
  <1>0. IsolationInv' /\ TypeOK /\ ended = "no"
    BY HandleIsolation DEF HandlersInv, IsolationInv, Handle
  <1>h. /\ handlers[t] \in Handler /\ PlaceOK(handlers[t]) /\ ShapeOK(handlers[t])
        /\ handlers[t].op \in {"Init", "Use"} => Id(t) \in Ids
    BY <1>0 DEF HandlersInv, IsolationInv, TypeOK, Places, Shape, ShapeOK, Id
  <1>1. CASE CheckInitRequest(t)
    <2>1. /\ UNCHANGED <<conf, storages, has_cryptor, ended, abandoned, runner, history>>
          /\ server_running' = server_running /\ handlers[t].op = "Init"
      BY <1>1 DEF CheckInitRequest, At, runner_vars, ghosts
    <2>2. CASE InitAllowed(Id(t)) /\ GoTo(t, "create") /\ UNCHANGED state
      <3>1. Becomes(t, "Init", "create", handlers[t].client, handlers[t].attached)
        BY <1>0, <2>1, <2>2, GoToBecomes
      <3>2. Shape' /\ Alone' /\ Waiting'
        BY <2>1, <2>2, <3>1, MoveHandlers
      <3>3. Reserved'
        BY <2>1, <2>2, <3>1 DEF Reserved, Id, Becomes, InitAllowed
      <3>4. Owned' /\ CryptorSet' /\ FlagSet' /\ CrashJustified'
        BY <2>1, <2>2, <3>1 DEF Owned, CryptorSet, FlagSet, CrashJustified, Id, Becomes
      <3> QED
        BY <1>0, <3>2, <3>3, <3>4 DEF HandlersInv
    <2>3. CASE Reply(t, FALSE)
      BY <1>0, <2>1, <2>3, ReplyHandlers, ReplyOwnership DEF HandlersInv
    <2> QED
      BY <1>1, <2>2, <2>3 DEF CheckInitRequest
  <1>2. CASE CreateStorage(t)
    <2> DEFINE d == handlers[t].client
    <2>1. /\ UNCHANGED <<conf, has_cryptor, ended, abandoned, runner, history>>
          /\ server_running' = server_running /\ Reply(t, TRUE)
          /\ handlers[t].op = "Init" /\ handlers[t].step = "create"
          /\ storages' = [storages EXCEPT ![Id(t)] = d]
          /\ d \in Client
      BY <1>2, <1>h DEF CreateStorage, At, runner_vars, ghosts, PlaceOK
    <2>2. Becomes(t, "none", "none", None, FALSE)
      BY <1>0, <2>1, ReplyBecomes
    <2>3. Shape' /\ Alone' /\ Waiting'
      BY <2>1, ReplyHandlers
    <2>4. "overlap" \notin history =>
             /\ storages[Id(t)] = "absent"
             /\ \A u \in Thread : u # t => handlers[u].op = "none" /\ handlers[u].step = "none"
      BY <2>1 DEF Reserved, HandlersInv, Alone, Exclusive, Shape, ShapeOK
    <2>5. Reserved'
      BY <2>1, <2>2, <2>4 DEF Reserved, Becomes
    <2>6. Owned'
      <3> SUFFICES ASSUME history \cap {"overlap", "reset"} = {} PROVE Owned'
        BY <2>1 DEF Owned
      <3>1. \A c \in Client : state'[c] = "ready" => storages'[conf[c].id] = c
        <4> SUFFICES ASSUME NEW c \in Client, state'[c] = "ready"
                     PROVE  storages'[conf[c].id] = c
          OBVIOUS
        <4>1. conf[c].id \in Ids /\ Id(t) \in Ids
          BY <1>0, <1>h, <2>1 DEF TypeOK
        <4>2. CASE c = d
          BY <1>0, <2>1, <4>1, <4>2 DEF TypeOK, Id
        <4>3. CASE c # d
          <5>1. state[c] = "ready"
            BY <1>0, <2>1, <4>3 DEF Reply, TypeOK
          <5>2. storages[conf[c].id] = c /\ c # "absent"
            BY <5>1, ServiceAssumption DEF Owned
          <5> QED
            BY <1>0, <2>1, <2>4, <4>1, <5>2 DEF TypeOK
        <4> QED
          BY <4>2, <4>3
      <3> QED
        BY <2>1, <2>2, <2>4, <3>1 DEF Owned, Becomes
    <2>7. CryptorSet' /\ FlagSet' /\ CrashJustified'
      BY <2>1, <2>2 DEF CryptorSet, FlagSet, CrashJustified, Becomes
    <2> QED
      BY <1>0, <2>3, <2>5, <2>6, <2>7 DEF HandlersInv
  <1>3. CASE CheckIdValid(t)
    <2>1. /\ UNCHANGED <<conf, storages, has_cryptor, ended, abandoned, runner, history>>
          /\ server_running' = server_running /\ handlers[t].op = "Use"
      BY <1>3 DEF CheckIdValid, At, runner_vars, ghosts
    <2>2. CASE GoTo(t, "lookup") /\ UNCHANGED state
      <3>1. Becomes(t, "Use", "lookup", handlers[t].client, handlers[t].attached)
        BY <1>0, <2>1, <2>2, GoToBecomes
      <3>2. Shape' /\ Alone' /\ Waiting'
        BY <2>1, <2>2, <3>1, MoveHandlers
      <3>3. Reserved' /\ Owned' /\ CryptorSet' /\ FlagSet' /\ CrashJustified'
        BY <2>1, <2>2, <3>1
        DEF Reserved, Owned, CryptorSet, FlagSet, CrashJustified, Id, Becomes
      <3> QED
        BY <1>0, <3>2, <3>3 DEF HandlersInv
    <2>3. CASE Reply(t, FALSE)
      BY <1>0, <2>1, <2>3, ReplyHandlers, ReplyOwnership DEF HandlersInv
    <2> QED
      BY <1>3, <2>2, <2>3 DEF CheckIdValid
  <1>4. CASE CheckStorage(t)
    <2> DEFINE c == handlers[t].client
               s == Indexed(Id(t))[Id(t)]
               cast == s \in Client /\ conf[s].type = conf[c].type
    <2>1. /\ UNCHANGED <<conf, has_cryptor, abandoned, runner, history>>
          /\ server_running' = server_running
          /\ handlers[t].op = "Use" /\ handlers[t].step = "lookup"
          /\ c \in Client /\ Id(t) \in Ids
          /\ storages' = Indexed(Id(t))
      BY <1>4, <1>h DEF CheckStorage, At, runner_vars, ghosts, PlaceOK
    <2>2. /\ \A i \in Ids : storages[i] \in Client => storages'[i] = storages[i]
          /\ \A i \in Ids : storages'[i] = storages[i] \/ storages[i] = "absent"
          /\ storages'[Id(t)] = s
      BY <1>0, <2>1, ServiceAssumption DEF Indexed, TypeOK
    <2>3. "overlap" \notin history => \A u \in Thread : handlers[u].step # "create"
      BY <2>1 DEF HandlersInv, Alone, Shape, ShapeOK, Exclusive
    <2>4. \A u \in Thread : handlers[u].client \in Client => Id(u) \in Ids
      BY <1>0 DEF TypeOK, Id
    <2>5. CASE ~cast /\ End("panicked")
      <3>1. history \cap {"overlap", "reset"} # {}
        <4> SUFFICES ASSUME history \cap {"overlap", "reset"} = {} PROVE FALSE
          OBVIOUS
        <4>1. storages[Id(t)] = c
          BY <2>1 DEF Owned
        <4>2. s = c
          BY <1>0, <2>1, <2>2, <4>1
        <4> QED
          BY <2>1, <2>5, <4>2
      <3>2. CrashJustified'
        BY <2>1, <2>5, <3>1 DEF CrashJustified, End
      <3> QED
        BY <1>0, <2>1, <2>2, <2>5, <3>2, EndHandlers, EndOwnership DEF HandlersInv
    <2>6. CASE /\ cast /\ HashMatches(c, s)
               /\ handlers' = [handlers EXCEPT ![t].step = "work", ![t].ptr = s]
               /\ UNCHANGED <<state, ended>>
      <3>1. Becomes(t, "Use", "work", c, handlers[t].attached)
        BY <1>0, <1>h, <2>1, <2>6 DEF Becomes, TypeOK, Handler
      <3>2. Shape' /\ Alone' /\ Waiting'
        BY <2>1, <2>6, <3>1, MoveHandlers
      <3>3. s = c
        BY <2>6 DEF HashMatches
      <3>4. Reserved'
        BY <1>h, <2>1, <2>2, <2>3, <2>4, <3>1, <3>3
        DEF Reserved, Id, Becomes, HandlersInv, Shape, ShapeOK
      <3>5. Owned'
        <4> SUFFICES ASSUME history \cap {"overlap", "reset"} = {} PROVE Owned'
          BY <2>1 DEF Owned
        <4>1. \A d \in Client : state'[d] = "ready" => storages'[conf'[d].id] = d
          BY <1>0, <2>1, <2>2, <2>6 DEF Owned, TypeOK
        <4>2. \A u \in Thread : handlers'[u].op = "Use" => storages'[Id(u)'] = handlers'[u].client
          <5> SUFFICES ASSUME NEW u \in Thread, handlers'[u].op = "Use"
                       PROVE  storages'[Id(u)'] = handlers'[u].client
            OBVIOUS
          <5>1. /\ handlers[u].op = "Use" /\ handlers[u].client \in Client
                /\ Id(u)' = Id(u) /\ handlers'[u].client = handlers[u].client
            BY <2>1, <3>1 DEF Becomes, Id, HandlersInv, Shape, ShapeOK
          <5> QED
            BY <2>2, <2>4, <5>1 DEF Owned
        <4> QED
          BY <4>1, <4>2 DEF Owned
      <3>6. CryptorSet' /\ FlagSet' /\ CrashJustified'
        BY <2>1, <2>6, <3>1 DEF CryptorSet, FlagSet, CrashJustified, Becomes
      <3> QED
        BY <1>0, <3>2, <3>4, <3>5, <3>6 DEF HandlersInv
    <2>7. CASE cast /\ Reply(t, FALSE) /\ UNCHANGED ended
      <3>1. storages' = storages
        BY <1>0, <2>1, <2>7, ServiceAssumption DEF Indexed, TypeOK
      <3> QED
        BY <1>0, <2>1, <2>7, <3>1, ReplyHandlers, ReplyOwnership DEF HandlersInv
    <2> QED
      BY <1>4, <2>5, <2>6, <2>7 DEF CheckStorage
  <1>5. CASE UseStorage(t)
    <2>1. /\ UNCHANGED <<conf, storages, has_cryptor, abandoned, runner, history>>
          /\ server_running' = server_running
          /\ handlers[t].op = "Use" /\ handlers[t].step = "work"
          /\ handlers[t].ptr = handlers[t].client
      BY <1>5, <1>h DEF UseStorage, At, runner_vars, PlaceOK
    <2>2. CASE ~Alive(handlers[t].ptr) /\ End("undefined")
      <3>1. "overlap" \in history
        BY <1>h, <2>1, <2>2 DEF Reserved, Alive
      <3>2. CrashJustified'
        BY <2>1, <2>2, <3>1 DEF CrashJustified, End
      <3> QED
        BY <1>0, <2>1, <2>2, <3>2, EndHandlers, EndOwnership DEF HandlersInv
    <2>3. CASE Reply(t, TRUE) /\ UNCHANGED ended
      BY <1>0, <2>1, <2>3, ReplyHandlers, ReplyOwnership DEF HandlersInv
    <2> QED
      BY <1>5, <2>2, <2>3 DEF UseStorage
  <1>6. CASE ClearStorages(t)
    <2>1. /\ UNCHANGED <<conf, state, has_cryptor, ended, abandoned, runner>>
          /\ server_running' = server_running
          /\ handlers[t].op = "Reset" /\ GoTo(t, "drop")
          /\ history' = history \cup {"reset"}
      BY <1>6 DEF ClearStorages, At, runner_vars
    <2>2. Becomes(t, "Reset", "drop", handlers[t].client, handlers[t].attached)
      BY <1>0, <2>1, GoToBecomes
    <2>3. Shape' /\ Alone' /\ Waiting'
      BY <2>1, <2>2, MoveHandlers
    <2>4. "overlap" \notin history => \A u \in Thread : u # t => handlers[u].step = "none"
      BY <2>1 DEF HandlersInv, Alone, Shape, ShapeOK, Exclusive
    <2>5. Reserved'
      BY <2>1, <2>2, <2>4 DEF Reserved, Becomes
    <2>6. Owned' /\ CryptorSet' /\ FlagSet' /\ CrashJustified'
      BY <2>1, <2>2 DEF Owned, CryptorSet, FlagSet, CrashJustified, Becomes
    <2> QED
      BY <1>0, <2>3, <2>5, <2>6 DEF HandlersInv
  <1>7. CASE ResetCryptor(t)
    <2>1. /\ UNCHANGED <<conf, storages, ended, abandoned, runner, history>>
          /\ server_running' = server_running
          /\ handlers[t].op = "Reset" /\ handlers[t].step = "drop" /\ Reply(t, TRUE)
      BY <1>7 DEF ResetCryptor, At, runner_vars, ghosts
    <2>2. Becomes(t, "none", "none", None, FALSE)
      BY <1>0, <2>1, ReplyBecomes
    <2>3. state' = state
      BY <1>h, <1>0, <2>1 DEF Reply, ShapeOK, Handler
    <2>4. Shape' /\ Alone' /\ Waiting'
      BY <2>1, ReplyHandlers
    <2>5. "reset" \in history
      BY <2>1 DEF CryptorSet
    <2>6. Reserved' /\ Owned'
      BY <2>1, <2>2, <2>3 DEF Reserved, Owned, Id, Becomes
    <2>7. CryptorSet' /\ FlagSet' /\ CrashJustified'
      BY <2>1, <2>2, <2>5 DEF CryptorSet, FlagSet, CrashJustified, Becomes
    <2> QED
      BY <1>0, <2>4, <2>6, <2>7 DEF HandlersInv
  <1>8. CASE KeyExchange(t)
    <2>1. /\ UNCHANGED <<conf, storages, has_cryptor, abandoned, runner, history>>
          /\ server_running' = server_running
          /\ handlers[t].op = "Exchange"
      BY <1>8 DEF KeyExchange, At, runner_vars, ghosts
    <2>2. CASE ~has_cryptor /\ End("panicked")
      <3>1. history \cap {"overlap", "reset", "early"} # {}
        BY <2>1, <2>2 DEF CryptorSet
      <3>2. CrashJustified'
        BY <2>1, <2>2, <3>1 DEF CrashJustified, End
      <3> QED
        BY <1>0, <2>1, <2>2, <3>2, EndHandlers, EndOwnership DEF HandlersInv
    <2>3. CASE Reply(t, TRUE) /\ UNCHANGED ended
      BY <1>0, <2>1, <2>3, ReplyHandlers, ReplyOwnership DEF HandlersInv
    <2> QED
      BY <1>8, <2>2, <2>3 DEF KeyExchange
  <1>9. CASE Close(t)
    <2>1. /\ UNCHANGED <<conf, storages, has_cryptor, ended, abandoned, runner>>
          /\ server_running' = FALSE
          /\ handlers[t].op = "Close" /\ Reply(t, TRUE)
          /\ history \subseteq history' /\ history' \subseteq history \cup {"close"}
          /\ "close" \in history' => "close" \in history \/ runner # "listening"
      BY <1>9 DEF Close, At
    <2>2. Becomes(t, "none", "none", None, FALSE)
      BY <1>0, <2>1, ReplyBecomes
    <2>3. state' = state
      BY <1>h, <1>0, <2>1 DEF Reply, ShapeOK, Handler
    <2>4. Shape' /\ Alone' /\ Waiting'
      BY <2>1, ReplyHandlers
    <2>5. Reserved' /\ Owned' /\ CryptorSet' /\ CrashJustified'
      BY <2>1, <2>2, <2>3 DEF Reserved, Owned, CryptorSet, CrashJustified, Id, Becomes
    <2>6. FlagSet'
      BY <2>1, <2>2 DEF FlagSet, Becomes
    <2> QED
      BY <1>0, <2>4, <2>5, <2>6 DEF HandlersInv
  <1> QED
    BY <1>1, <1>2, <1>3, <1>4, <1>5, <1>6, <1>7, <1>8, <1>9 DEF Handle

\* A step of Run, and the steps that are nobody's.
LEMMA OtherOwnership ==
    ASSUME OwnershipInv,
           \/ Run
           \/ \E t \in Thread, c \in Client : ConnectionLost(c, t)
           \/ \E t, u \in Thread : DataRace(t, u)
           \/ \E t \in Thread : RaceWithRun(t)
    PROVE  OwnershipInv'
  <1> USE DEF OwnershipInv
  <1>0. IsolationInv' /\ TypeOK
    BY OtherIsolation DEF HandlersInv, IsolationInv
  <1>1. CASE Run
    <2>1. /\ UNCHANGED <<conf, state, handlers, storages, ended, abandoned, history>>
          /\ \/ runner = "starting" /\ runner' = "listening"
                /\ UNCHANGED <<server_running, has_cryptor>>
             \/ runner = "listening" /\ runner' = "flagged" /\ has_cryptor' = has_cryptor
             \/ runner = "flagged" /\ runner' = "running" /\ has_cryptor'
                /\ server_running' = server_running
             \/ /\ runner \in {"running", "draining"} /\ runner' \in {"draining", "stopped"}
                /\ UNCHANGED <<server_running, has_cryptor>>
      BY <1>1 DEF Run, BuildAndStart, SetRunning, StartMonitor, Shutdown, WaitReturns,
         client_vars, ghosts
    <2>2. Shape' /\ Alone' /\ Waiting' /\ Reserved' /\ Owned' /\ CrashJustified'
      BY <2>1 DEF Shape, ShapeOK, Alone, Waiting, Reserved, Owned, CrashJustified, Id,
         HandlersInv
    <2>3. CryptorSet' /\ FlagSet'
      BY <2>1 DEF CryptorSet, FlagSet
    <2> QED
      BY <1>0, <2>2, <2>3 DEF HandlersInv
  <1>2. ASSUME NEW t \in Thread, NEW c \in Client, ConnectionLost(c, t)
        PROVE  OwnershipInv'
    <2>1. /\ UNCHANGED <<conf, storages, has_cryptor, ended, runner, server_running, history>>
          /\ abandoned' = abandoned \cup {c}
          /\ handlers[t].client = c /\ handlers[t].attached
          /\ handlers' = [handlers EXCEPT ![t].attached = FALSE]
          /\ state' = [state EXCEPT ![c] = IF handlers[t].op = "Init" THEN "gone" ELSE "ready"]
      BY <1>2 DEF ConnectionLost, runner_vars
    <2>2. /\ handlers[t] \in Handler /\ handlers[t].op \in {"Init", "Use"}
          /\ Becomes(t, handlers[t].op, handlers[t].step, c, FALSE)
      BY <1>0, <2>1 DEF TypeOK, Handler, Becomes, HandlersInv, Shape, ShapeOK
    <2>3. Shape' /\ Alone'
      BY <2>1, <2>2 DEF Shape, ShapeOK, Alone, Becomes, HandlersInv
    <2>4. Waiting'
      <3>1. \A u \in Thread : u # t /\ handlers[u].client = c => ~handlers[u].attached
        BY <2>1 DEF Waiting, HandlersInv
      <3> QED
        BY <1>0, <2>1, <2>2, <3>1 DEF Waiting, Becomes, HandlersInv, TypeOK
    <2>5. Reserved' /\ CryptorSet' /\ FlagSet' /\ CrashJustified'
      BY <2>1, <2>2 DEF Reserved, CryptorSet, FlagSet, CrashJustified, Id, Becomes
    <2>6. Owned'
      BY <1>0, <2>1, <2>2 DEF Owned, Id, Becomes, TypeOK
    <2> QED
      BY <1>0, <2>3, <2>4, <2>5, <2>6 DEF HandlersInv
  <1>3. ASSUME NEW t \in Thread, NEW u \in Thread, DataRace(t, u)
        PROVE  OwnershipInv'
    <2>1. /\ t # u /\ Races(handlers[t], handlers[u]) /\ End("undefined")
          /\ UNCHANGED <<conf, storages, has_cryptor, abandoned, runner, server_running, history>>
      BY <1>3 DEF DataRace, runner_vars, ghosts
    <2>2. "overlap" \in history \/ abandoned # {}
      <3>1. /\ ShapeOK(handlers[t]) /\ ShapeOK(handlers[u])
            /\ PlaceOK(handlers[t]) /\ PlaceOK(handlers[u])
        BY DEF HandlersInv, IsolationInv, Shape, Places
      <3>2. CASE handlers[t].op \in Exclusive
        BY <2>1, <3>1, <3>2 DEF Races, HandlersInv, Alone, ShapeOK
      <3>3. CASE handlers[t].op \notin Exclusive
        BY <2>1, <3>1, <3>3 DEF Races, HandlersInv, Waiting, ShapeOK, PlaceOK, Exclusive
      <3> QED
        BY <3>2, <3>3
    <2>3. CrashJustified'
      BY <2>1, <2>2 DEF CrashJustified, End
    <2> QED
      BY <1>0, <2>1, <2>3, EndHandlers, EndOwnership DEF HandlersInv
  <1>4. ASSUME NEW t \in Thread, RaceWithRun(t) PROVE OwnershipInv'
    <2>1. /\ runner = "flagged" /\ handlers[t].step \in {"keys", "drop"} /\ End("undefined")
          /\ UNCHANGED <<conf, storages, has_cryptor, abandoned, runner, server_running, history>>
      BY <1>4 DEF RaceWithRun, runner_vars, ghosts
    <2>2. handlers[t].op \in {"Exchange", "Reset"}
      BY <2>1 DEF HandlersInv, Shape, ShapeOK
    <2>3. "early" \in history
      BY <2>1, <2>2 DEF CryptorSet
    <2>4. CrashJustified'
      BY <2>1, <2>3 DEF CrashJustified, End
    <2> QED
      BY <1>0, <2>1, <2>4, EndHandlers, EndOwnership DEF HandlersInv
  <1> QED
    BY <1>1, <1>2, <1>3, <1>4

\* The stronger invariant is inductive as well.
THEOREM Ownership == Spec => []OwnershipInv
  <1>1. Init => OwnershipInv
    BY InitOwnership
  <1>2. OwnershipInv /\ [Next]_vars => OwnershipInv'
    <2> SUFFICES ASSUME OwnershipInv, [Next]_vars PROVE OwnershipInv'
      OBVIOUS
    <2>1. CASE UNCHANGED vars
      <3>1. IsolationInv'
        BY <2>1 DEF vars, OwnershipInv, HandlersInv, IsolationInv, TypeOK, Places, PlaceOK,
           StoredIsKept
      <3>2. Shape' /\ Alone' /\ Waiting'
        BY <2>1 DEF vars, OwnershipInv, HandlersInv, Shape, ShapeOK, Alone, Waiting
      <3>3. Reserved' /\ Owned' /\ CryptorSet' /\ FlagSet' /\ CrashJustified'
        BY <2>1 DEF vars, OwnershipInv, Reserved, Owned, CryptorSet, FlagSet, CrashJustified, Id
      <3> QED
        BY <3>1, <3>2, <3>3 DEF OwnershipInv, HandlersInv
    <2>2. CASE Next
      BY <2>2, RequestOwnership, HandleOwnership, OtherOwnership DEF Next
    <2> QED
      BY <2>1, <2>2
  <1> QED
    BY <1>1, <1>2, PTL DEF Spec

\* As long as Init and Reset have run alone and nobody has reset the server, two
\* clients that were both told that they have created the storage of an id have
\* different ids: the check of CheckInitRequest still holds when the storage is
\* created.
THEOREM RegistrationExclusiveSafe == Spec => []RegistrationExclusive
  <1>1. OwnershipInv => RegistrationExclusive
    BY DEF OwnershipInv, Owned, RegistrationExclusive
  <1> QED
    BY <1>1, Ownership, PTL

\* No interleaving is undefined behaviour, as long as Init and Reset have run alone,
\* no client has abandoned a call and no key exchange or reset came before
\* StartMonitor; and CheckStorage and the key exchange do not panic, unless there was
\* an overlap, a reset or a key exchange before StartMonitor.
THEOREM CrashJustifiedSafe == Spec => []CrashJustified
  BY Ownership, PTL DEF OwnershipInv

\* Once Run has set the flag, a request to close that was handled stays in force.
THEOREM CloseNotForgottenSafe == Spec => []CloseNotForgotten
  <1>1. OwnershipInv => CloseNotForgotten
    BY DEF OwnershipInv, FlagSet, CloseNotForgotten
  <1> QED
    BY <1>1, Ownership, PTL
===============================================================================
