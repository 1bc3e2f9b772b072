--------------------------- MODULE OramClientProofs ---------------------------
(***************************************************************************)
(* The session keys of client and server agree and are kept apart, a       *)
(* client's blocks keep the key they are sealed with, and the end of every *)
(* start is justified, for any processes, clients and scenarios.           *)
(***************************************************************************)
EXTENDS OramClient, TLAPS

-------------------------------------------------------------------------------
(* The inductive invariant: the keys. *)

\* The key pair or session key of a process was made from random number n.
Uses(k, n) ==
    \/ k.pk = n
    \/ k.rx = <<"ephemeral", n>>
    \/ \E s \in 1..MaxKeys : k.rx = ToClient(n, s)

\* No two processes use the same random number.
KeyInv ==
    /\ \A p \in Process : \A n \in 1..MaxKeys : Uses(cryptor[p], n) => n <= fresh
    /\ \A p \in Process :
          \/ cryptor[p].rx = NoKey
          \/ \E n \in 1..MaxKeys :
                \/ cryptor[p].rx = <<"ephemeral", n>>
                \/ \E s \in 1..MaxKeys : cryptor[p].rx = ToClient(n, s)
    /\ \A p, q \in Process : p # q =>
          \A n \in 1..MaxKeys : ~(Uses(cryptor[p], n) /\ Uses(cryptor[q], n))

\* What a handler has got hold of.
HandlerInv ==
    \A c \in Client :
        /\ handler[c].at # "none" => handler[c].pk >= 1
        /\ handler[c].at \in {"session", "answer", "done"} => service.pk >= 1
        /\ handler[c].at = "done" => handler[c].reply >= 1
        /\ handler[c].at = "none" => handler[c] = Quiet

\* A process that waits has sent the public key that it has now.
BusyInv ==
    \A p \in Process : busy[p] # None =>
        /\ ProcessOf[busy[p]] = p
        /\ stage[p] = "running"
        /\ handler[busy[p]].at # "none"
        /\ handler[busy[p]].pk = cryptor[p].pk

\* A handler that is alone has computed the server's keys from what it was sent.
AgreeInv ==
    /\ \A c, d \in Client :
          c # d /\ handler[c].at # "none" /\ handler[c].alone => handler[d] = Quiet
    /\ \A c \in Client : handler[c].alone /\ handler[c].at \in {"answer", "done"} =>
          /\ service.rx = ToServer(handler[c].pk, service.pk)
          /\ service.tx = ToClient(handler[c].pk, service.pk)
          /\ handler[c].at = "done" => handler[c].reply = service.pk

\* Blocks are sealed with the key of the process until Ready is called again.
SealInv ==
    \A c \in Client : c \notin readied => sealed[c] \subseteq {cryptor[ProcessOf[c]].rx}

-------------------------------------------------------------------------------
(* The inductive invariant: the start. *)

\* The configuration is what was given, and nothing is made before it is read.
StageOf(p) ==
    /\ stage[p] # "start" => config[p].id = GivenId(p)
    /\ stage[p] = "start" => config[p] = default_config /\ entry[p] = 1
    /\ config[p].id \in Ids
    /\ stage[p] = "parsing" => FileIsRead(p)
    /\ entry[p] >= 1
    /\ config[p].crt_path = "server.crt" \/ OtherCertificate(p)
    /\ stage[p] # "ended" => cause[p] = "none"
    /\ stage[p] \in {"start", "parsing"} =>
          ~taken[p] /\ \A c \in Clients(p) : object[c] = "none"
    /\ taken[p] => /\ config[p].oram_type = "kPartitionOram"
                   /\ \E c \in Clients(p) : object[c] = "made"

StageInv == \A p \in Process : StageOf(p)

\* No entry of the file that was read so far has the key.
Unread(p, key) == \A i \in 1..(entry[p] - 1) : Entries(scenario[p])[i].key # key

SizeGiven(p) == config[p].block_num \in GivenSizes(p)
TypeGiven(p) == \E t \in GivenTypes(p) : config[p].oram_type = StrToType(t)

\* The size and the type are those that were given, as far as the file has been read.
AsGiven(p) ==
    /\ stage[p] = "running" => SizeGiven(p) /\ TypeGiven(p)
    /\ stage[p] = "parsing" =>
          /\ \/ SizeGiven(p)
             \/ Unread(p, "BlockNum") /\ config[p].block_num = default_config.block_num
          /\ \/ TypeGiven(p)
             \/ Unread(p, "OramType") /\ config[p].oram_type = default_config.oram_type

GivenInv == \A p \in Process : AsGiven(p)

\* EndJustified for one process.
EndOf(p) ==
    /\ cause[p] = "InitOram" =>
          \/ OtherCertificate(p) \/ faults > 0 \/ starts[p] > 1
          \/ GivenId(p) >= kMaximumOramStorageNum
          \/ \E c \in Clients(p) : object[c] # "none"
          \/ \E q \in Process \ {p} : GivenId(q) = GivenId(p)
    /\ cause[p] = "null" => \E c \in Clients(p) : object[c] = "made"
    /\ cause[p] = "size" =>
          /\ "SquareRootOram" \in GivenTypes(p)
          /\ \E m \in GivenSizes(p) : ~FitsCipher(m)
    /\ cause[p] = "fill" => faults > 0
    /\ cause[p] = "entry" => FileIsRead(p)

\* The constructor of this client has created a storage on the server.
Stored(c) == object[c] # "none" /\ config[ProcessOf[c]].oram_type \in RpcTypes

\* Every storage has been asked for by a process, and no two clients share one.
StorageInv ==
    /\ \A id \in storages : \E q \in Process :
          /\ GivenId(q) = id
          /\ faults > 0 \/ starts[q] > 1 \/ \E c \in Clients(q) : object[c] # "none"
    /\ \A c \in Client : Stored(c) => config[ProcessOf[c]].id \in storages
    /\ \A c, d \in Client : c # d /\ Stored(c) /\ Stored(d) =>
          config[ProcessOf[c]].id # config[ProcessOf[d]].id

KeysInv == KeyInv /\ HandlerInv /\ BusyInv /\ AgreeInv /\ SealInv /\ RuinJustified

StartInv == scenario \in Scenarios /\ StageInv /\ GivenInv /\ StorageInv /\ EndJustified

IInv == TypeOK /\ KeysInv /\ StartInv

-------------------------------------------------------------------------------
(* Keys. *)

LEMMA Bounds ==
    /\ MaxKeys \in Nat /\ MaxStarts \in Nat \ {0} /\ MaxFaults \in Nat
    /\ None \notin Client
    /\ \A c \in Client : ProcessOf[c] \in Process
    /\ Ids \subseteq Nat /\ kMaximumOramStorageNum \in Nat
BY ClientAssumption

\* Keys that were made in different ways are different, and so are keys that were
\* made from different numbers.
LEMMA KeyShapes ==
    /\ \A m, n : <<"ephemeral", m>> = <<"ephemeral", n>> => m = n
    /\ \A m, n, s : <<"ephemeral", m>> # ToClient(n, s)
    /\ \A m, n, s, t : ToClient(m, s) = ToClient(n, t) => m = n
    /\ \A m, s : NoKey # <<"ephemeral", m>> /\ NoKey # ToClient(m, s)
<1>1. \A m, n, s : <<"ephemeral", m>> # ToClient(n, s)
  <2> SUFFICES ASSUME NEW m, NEW n, NEW s, <<"ephemeral", m>> = ToClient(n, s)
               PROVE  FALSE
    OBVIOUS
  <2>1. <<"ephemeral", m>>[1] = "ephemeral" /\ ToClient(n, s)[1] = "to client"
    BY DEF ToClient
  <2> QED
    BY <2>1
<1>2. \A m, s : NoKey # <<"ephemeral", m>> /\ NoKey # ToClient(m, s)
  <2> TAKE m, s
  <2>1. /\ NoKey[1] = "none" /\ <<"ephemeral", m>>[1] = "ephemeral"
        /\ ToClient(m, s)[1] = "to client"
    BY DEF NoKey, ToClient
  <2> QED
    BY <2>1
<1> QED
  BY <1>1, <1>2 DEF ToClient

LEMMA KeyTypes ==
    ASSUME NEW m \in 1..MaxKeys, NEW n \in 1..MaxKeys
    PROVE  /\ NoKey \in Keys
           /\ <<"ephemeral", m>> \in Keys /\ <<"mixed", m>> \in Keys
           /\ ToClient(m, n) \in Keys /\ ToServer(m, n) \in Keys
BY DEF Keys, ToClient, ToServer

\* A process whose cryptor uses, besides what it used before, only a new random
\* number keeps the numbers apart.
LEMMA NewKey ==
    ASSUME IInv, fresh' >= fresh, fresh' \in 0..MaxKeys,
           NEW p \in Process, NEW k, cryptor' = [cryptor EXCEPT ![p] = k],
           \A n \in 1..MaxKeys :
              Uses(k, n) => Uses(cryptor[p], n) \/ (n = fresh' /\ n > fresh),
           \/ k.rx = NoKey
           \/ \E n \in 1..MaxKeys :
                 \/ k.rx = <<"ephemeral", n>>
                 \/ \E s \in 1..MaxKeys : k.rx = ToClient(n, s)
    PROVE  KeyInv'
<1>1. /\ \A q \in Process : cryptor'[q] = IF q = p THEN k ELSE cryptor[q]
      /\ fresh \in Nat /\ fresh' \in Nat
  BY Bounds DEF IInv, TypeOK
<1>2. \A q \in Process : \A n \in 1..MaxKeys :
         Uses(cryptor[q], n) => n <= fresh
  BY DEF IInv, KeysInv, KeyInv
<1>3. \A q, r \in Process : q # r =>
         \A n \in 1..MaxKeys : ~(Uses(cryptor[q], n) /\ Uses(cryptor[r], n))
  BY DEF IInv, KeysInv, KeyInv
<1>4. \A q \in Process : \A n \in 1..MaxKeys :
         Uses(cryptor'[q], n) => n <= fresh'
  <2> SUFFICES ASSUME NEW q \in Process, NEW n \in 1..MaxKeys, Uses(cryptor'[q], n)
               PROVE  n <= fresh'
    OBVIOUS
  <2>1. Uses(cryptor[q], n) \/ n = fresh'
    BY <1>1
  <2>2. Uses(cryptor[q], n) => n <= fresh
    BY <1>2
  <2> QED
    BY <1>1, <2>1, <2>2
<1>5. \A q, r \in Process : q # r =>
         \A n \in 1..MaxKeys : ~(Uses(cryptor'[q], n) /\ Uses(cryptor'[r], n))
  <2> SUFFICES ASSUME NEW q \in Process, NEW r \in Process, q # r,
                      NEW n \in 1..MaxKeys, Uses(cryptor'[q], n), Uses(cryptor'[r], n)
               PROVE  FALSE
    OBVIOUS
  <2>1. ASSUME NEW t \in Process, Uses(cryptor'[t], n)
        PROVE  Uses(cryptor[t], n) \/ (t = p /\ n > fresh)
    BY <1>1, <2>1
  <2>2. \A t \in Process : Uses(cryptor[t], n) => ~(n > fresh)
    BY <1>1, <1>2
  <2> QED
    BY <1>3, <2>1, <2>2
<1>6. \A q \in Process :
         \/ cryptor'[q].rx = NoKey
         \/ \E n \in 1..MaxKeys :
               \/ cryptor'[q].rx = <<"ephemeral", n>>
               \/ \E s \in 1..MaxKeys : cryptor'[q].rx = ToClient(n, s)
  BY <1>1 DEF IInv, KeysInv, KeyInv
<1> HIDE DEF Uses
<1> QED
  BY <1>4, <1>5, <1>6 DEF KeyInv, Uses

\* As long as no cryptor of a process changes the numbers stay apart.
LEMMA SameKeys ==
    ASSUME IInv, cryptor' = cryptor, fresh' >= fresh, fresh' \in Nat
    PROVE  KeyInv'
<1>1. \A q \in Process : \A n \in 1..MaxKeys :
         Uses(cryptor[q], n) => n <= fresh
  BY DEF IInv, KeysInv, KeyInv
<1>2. \A n \in 1..MaxKeys : n <= fresh => n <= fresh'
  BY Bounds DEF IInv, TypeOK
<1>3. \A q \in Process : \A n \in 1..MaxKeys :
         Uses(cryptor'[q], n) => n <= fresh'
  BY <1>1, <1>2
<1> QED
  BY <1>3 DEF IInv, KeysInv, KeyInv, Uses

-------------------------------------------------------------------------------
(* What a step leaves alone. *)

\* What was given to the processes never changes.
LEMMA Given ==
    ASSUME scenario' = scenario
    PROVE  \A p : /\ GivenId(p)' = GivenId(p)
                  /\ FileIsRead(p)' = FileIsRead(p)
                  /\ OtherCertificate(p)' = OtherCertificate(p)
                  /\ GivenTypes(p)' = GivenTypes(p)
                  /\ GivenSizes(p)' = GivenSizes(p)
BY DEF GivenId, FlagsCount, FileIsRead, OtherCertificate, GivenTypes, GivenSizes, GivenFor

\* A process whose configuration and place in the file stay.
LEMMA SameGiven ==
    ASSUME NEW p, AsGiven(p), scenario' = scenario,
           config'[p] = config[p], entry'[p] = entry[p],
           stage'[p] \in {stage[p], "ended"}
    PROVE  AsGiven(p)'
<1>1. \A key : Unread(p, key)' = Unread(p, key)
  BY DEF Unread
<1>2. SizeGiven(p)' = SizeGiven(p) /\ TypeGiven(p)' = TypeGiven(p)
  BY Given DEF SizeGiven, TypeGiven
<1> HIDE DEF Unread, SizeGiven, TypeGiven
<1> QED
  BY <1>1, <1>2 DEF AsGiven

\* Steps that read no configuration.
LEMMA SameGivenInv ==
    ASSUME IInv, scenario' = scenario, config' = config, entry' = entry,
           \A p \in Process : stage'[p] \in {stage[p], "ended"}
    PROVE  GivenInv'
BY SameGiven DEF IInv, StartInv, GivenInv

\* Steps that do not touch the start.
LEMMA SameStart ==
    ASSUME IInv,
           scenario' = scenario, config' = config, entry' = entry, stage' = stage,
           cause' = cause, taken' = taken, object' = object, storages' = storages,
           starts' = starts, faults' >= faults, faults' \in Nat
    PROVE  StartInv'
<1>1. /\ faults \in Nat /\ (faults > 0 => faults' > 0)
      /\ \A p : GivenId(p)' = GivenId(p)
      /\ \A p : FileIsRead(p)' = FileIsRead(p)
      /\ \A p : OtherCertificate(p)' = OtherCertificate(p)
      /\ \A p : GivenTypes(p)' = GivenTypes(p) /\ GivenSizes(p)' = GivenSizes(p)
  BY Bounds, Given DEF IInv, TypeOK
<1>2. StageInv'
  BY <1>1 DEF IInv, StartInv, StageInv, StageOf, Clients
<1>3. StorageInv'
  <2>1. \A c : Stored(c)' = Stored(c)
    BY DEF Stored
  <2> QED
    BY <1>1, <2>1 DEF IInv, StartInv, StorageInv
<1>4. EndJustified'
  BY <1>1 DEF IInv, StartInv, EndJustified, Clients
<1>5. GivenInv'
  BY SameGivenInv
<1> QED
  BY <1>2, <1>3, <1>4, <1>5 DEF IInv, StartInv

\* Steps that do not touch the keys.
LEMMA SameKeysInv ==
    ASSUME IInv,
           cryptor' = cryptor, busy' = busy, service' = service, handler' = handler,
           fresh' = fresh, sealed' = sealed, ruined' = ruined, readied' = readied,
           \A c \in Client : object'[c] = "filled" => object[c] = "filled",
           \A p \in Process : busy[p] # None => stage'[p] = stage[p]
    PROVE  KeysInv'
<1>1. KeyInv'
  BY SameKeys, Bounds DEF IInv, TypeOK
<1>2. HandlerInv' /\ AgreeInv'
  BY DEF IInv, KeysInv, HandlerInv, AgreeInv
<1>3. BusyInv'
  BY DEF IInv, KeysInv, BusyInv
<1>4. SealInv' /\ RuinJustified'
  BY DEF IInv, KeysInv, SealInv, RuinJustified
<1> QED
  BY <1>1, <1>2, <1>3, <1>4 DEF KeysInv

\* An RPC may fail.
LEMMA RpcCount ==
    ASSUME IInv, NEW outcome, Rpc(outcome)
    PROVE  /\ faults \in Nat /\ faults' \in Nat /\ faults' >= faults
           /\ faults' \in 0..MaxFaults
           /\ outcome # "answered" => faults' > 0
BY Bounds DEF IInv, TypeOK, Rpc

-------------------------------------------------------------------------------
(* The session key. *)

LEMMA ReadyAloneStep ==
    ASSUME IInv, NEW c \in Client, ReadyAlone(c)
    PROVE  IInv'
<1> DEFINE p == ProcessOf[c]
           k == NoNeedForSessionKey(p)
<1>1. /\ p \in Process /\ Idle(c) /\ fresh < MaxKeys
      /\ cryptor' = [cryptor EXCEPT ![p] = k]
      /\ fresh' = fresh + 1 /\ readied' = readied \cup Sealed(p)
      /\ stage' = stage /\ cause' = cause /\ taken' = taken /\ busy' = busy
      /\ object' = object /\ sealed' = sealed /\ ruined' = ruined /\ faults' = faults
      /\ scenario' = scenario /\ config' = config /\ entry' = entry /\ starts' = starts
      /\ storages' = storages /\ service' = service /\ handler' = handler
  BY Bounds DEF ReadyAlone, parse_vars, server_vars, Random
<1>2. /\ fresh \in Nat /\ fresh + 1 \in 1..MaxKeys /\ fresh' > fresh
      /\ faults \in Nat
  BY <1>1, Bounds DEF IInv, TypeOK
<1>3. /\ cryptor \in [Process -> Cryptor] /\ cryptor[p] \in Cryptor
      /\ k.pk = cryptor[p].pk /\ k.rx = <<"ephemeral", fresh + 1>> /\ k \in Cryptor
  BY <1>1, <1>2, KeyTypes DEF IInv, TypeOK, Cryptor, NoNeedForSessionKey, Random
<1> HIDE DEF k
<1>4. TypeOK'
  <2>1. readied' \subseteq Client
    BY <1>1 DEF IInv, TypeOK, Sealed, Clients
  <2>2. cryptor' \in [Process -> Cryptor] /\ fresh' \in 0..MaxKeys
    BY <1>1, <1>2, <1>3
  <2> QED
    BY <1>1, <2>1, <2>2 DEF IInv, TypeOK
<1>5. StartInv'
  BY <1>1, <1>2, SameStart
<1>6. KeyInv'
  <2>1. \A n \in 1..MaxKeys :
           Uses(k, n) => Uses(cryptor[p], n) \/ (n = fresh' /\ n > fresh)
    BY <1>1, <1>2, <1>3, KeyShapes DEF Uses
  <2>2. fresh' \in 0..MaxKeys /\ fresh' >= fresh
    BY <1>1, <1>2
  <2> QED
    BY <1>1, <1>2, <1>3, <2>1, <2>2, NewKey
<1>7. HandlerInv' /\ AgreeInv'
  BY <1>1 DEF IInv, KeysInv, HandlerInv, AgreeInv
<1>8. BusyInv'
  BY <1>1, <1>3 DEF IInv, KeysInv, BusyInv, TypeOK
<1>9. SealInv' /\ RuinJustified'
  BY <1>1, <1>3 DEF IInv, KeysInv, SealInv, RuinJustified, Sealed, Clients, TypeOK
<1> QED
  BY <1>4, <1>5, <1>6, <1>7, <1>8, <1>9 DEF IInv, KeysInv

\* What is known of a handler in every state.
Handler == [at : {"none", "sample", "session", "answer", "done"},
            pk : 0..MaxKeys, reply : 0..MaxKeys, alone : BOOLEAN]

LEMMA KeyNegotiateStep ==
    ASSUME IInv, NEW c \in Client, NEW outcome, KeyNegotiate(c, outcome)
    PROVE  IInv'
<1> DEFINE p == ProcessOf[c]
           k == [cryptor[p] EXCEPT !.pk = fresh + 1]
           sent == Connects(p) /\ outcome # "request_lost"
           others == {d \in Client \ {c} : handler[d] # Quiet}
<1>1. /\ p \in Process /\ Idle(c) /\ fresh < MaxKeys /\ handler[c] = Quiet
      /\ Rpc(outcome)
      /\ cryptor' = [cryptor EXCEPT ![p] = k]
      /\ fresh' = fresh + 1
      /\ busy' = [busy EXCEPT ![p] = IF sent THEN c ELSE None]
      /\ handler' = IF sent THEN Called(c, fresh + 1) ELSE handler
      /\ stage' = stage /\ cause' = cause /\ taken' = taken
      /\ object' = object /\ sealed' = sealed /\ ruined' = ruined /\ readied' = readied
      /\ scenario' = scenario /\ config' = config /\ entry' = entry /\ starts' = starts
      /\ storages' = storages /\ service' = service
  BY Bounds DEF KeyNegotiate, parse_vars, data_vars, Random, SampleKeyPair
<1>2. /\ fresh \in Nat /\ fresh + 1 \in 1..MaxKeys /\ fresh' > fresh
      /\ faults' \in 0..MaxFaults /\ faults' >= faults /\ faults' \in Nat
  BY <1>1, RpcCount, Bounds DEF IInv, TypeOK
<1>3. /\ cryptor \in [Process -> Cryptor] /\ cryptor[p] \in Cryptor
      /\ k.pk = fresh + 1 /\ k.rx = cryptor[p].rx /\ k.tx = cryptor[p].tx /\ k \in Cryptor
  <2>1. cryptor \in [Process -> Cryptor] /\ cryptor[p] \in Cryptor
    BY <1>1 DEF IInv, TypeOK
  <2>2. fresh + 1 \in 0..MaxKeys
    BY <1>1, <1>2
  <2> QED
    BY <2>1, <2>2 DEF Cryptor
<1> HIDE DEF k, sent
<1>4. ASSUME sent
      PROVE  /\ handler' \in [Client -> Handler]
             /\ handler'[c].at = "sample" /\ handler'[c].pk = fresh + 1
             /\ handler'[c].alone <=> others = {}
             /\ \A d \in Client \ {c} :
                   /\ handler'[d].at = handler[d].at /\ handler'[d].pk = handler[d].pk
                   /\ handler'[d].reply = handler[d].reply
                   /\ handler[d] = Quiet => handler'[d] = Quiet
                   /\ handler[d] # Quiet => ~handler'[d].alone
  <2> DEFINE free == (others = {})
             new == [at |-> "sample", pk |-> fresh + 1, reply |-> 0, alone |-> free]
             old(d) == [handler[d] EXCEPT !.alone = @ /\ d \notin others]
  <2>1. handler' = [d \in Client |-> IF d = c THEN new ELSE old(d)]
    BY <1>1, <1>4 DEF Called
  <2>2. /\ new \in Handler /\ new.at = "sample" /\ new.pk = fresh + 1
        /\ new.alone <=> others = {}
    <3>1. fresh + 1 \in 0..MaxKeys
      BY <1>2, Bounds
    <3>2. free \in BOOLEAN /\ (free <=> others = {})
      OBVIOUS
    <3> HIDE DEF others, free
    <3>3. 0 \in 0..MaxKeys
      BY Bounds
    <3> QED
      BY <3>1, <3>2, <3>3 DEF Handler
  <2>3. ASSUME NEW d \in Client \ {c}
        PROVE  /\ old(d) \in Handler
               /\ old(d).at = handler[d].at /\ old(d).pk = handler[d].pk
               /\ old(d).reply = handler[d].reply
               /\ handler[d] = Quiet => old(d) = Quiet
               /\ handler[d] # Quiet => ~old(d).alone
    <3>1. handler[d] \in Handler
      BY DEF IInv, TypeOK, Handler
    <3>2. d \in others <=> handler[d] # Quiet
      OBVIOUS
    <3> QED
      BY <3>1, <3>2 DEF Quiet, Handler
  <2> HIDE DEF new, old, others
  <2>4. \A d \in Client : handler'[d] = IF d = c THEN new ELSE old(d)
    BY <2>1
  <2> QED
    BY <2>1, <2>2, <2>3, <2>4
<1>5. TypeOK'
  <2>1. cryptor' \in [Process -> Cryptor] /\ fresh' \in 0..MaxKeys
    BY <1>1, <1>2, <1>3
  <2>2. busy' \in [Process -> Client \cup {None}]
    BY <1>1 DEF IInv, TypeOK
  <2>3. handler' \in [Client -> Handler]
    BY <1>1, <1>4 DEF IInv, TypeOK, Handler
  <2> QED
    BY <1>1, <1>2, <2>1, <2>2, <2>3 DEF IInv, TypeOK, Handler
<1>6. StartInv'
  BY <1>1, <1>2, SameStart
<1>7. KeyInv'
  <2>1. \A n \in 1..MaxKeys :
           Uses(k, n) => Uses(cryptor[p], n) \/ (n = fresh' /\ n > fresh)
    BY <1>1, <1>2, <1>3 DEF Uses
  <2>2. \/ k.rx = NoKey
        \/ \E n \in 1..MaxKeys :
              \/ k.rx = <<"ephemeral", n>>
              \/ \E s \in 1..MaxKeys : k.rx = ToClient(n, s)
    BY <1>1, <1>3 DEF IInv, KeysInv, KeyInv
  <2>3. fresh' \in 0..MaxKeys /\ fresh' >= fresh
    BY <1>1, <1>2
  <2> QED
    BY <1>1, <2>1, <2>2, <2>3, NewKey
<1>8. HandlerInv'
  BY <1>1, <1>2, <1>4 DEF IInv, KeysInv, HandlerInv
<1>9. AgreeInv'
  <2>1. CASE ~sent
    BY <1>1, <2>1 DEF IInv, KeysInv, AgreeInv
  <2>2. CASE sent
    <3>1. \A d \in Client \ {c} : handler'[d].at # "none" /\ handler'[d].alone => FALSE
      BY <1>4, <2>2 DEF Quiet
    <3>2. handler'[c].alone => \A d \in Client \ {c} : handler'[d] = Quiet
      BY <1>4, <2>2
    <3>3. \A d, e \in Client :
             d # e /\ handler'[d].at # "none" /\ handler'[d].alone => handler'[e] = Quiet
      BY <3>1, <3>2
    <3>4. \A d \in Client : handler'[d].alone => handler'[d].at \notin {"answer", "done"}
      BY <1>4, <2>2, <3>1
    <3> QED
      BY <3>3, <3>4 DEF AgreeInv
  <2> QED
    BY <2>1, <2>2
<1>10. BusyInv'
  <2>1. ASSUME NEW q \in Process, busy'[q] # None
        PROVE  /\ ProcessOf[busy'[q]] = q /\ stage'[q] = "running"
               /\ handler'[busy'[q]].at # "none"
               /\ handler'[busy'[q]].pk = cryptor'[q].pk
    <3>1. CASE q = p
      <4>1. sent /\ busy'[q] = c
        BY <1>1, <2>1, <3>1 DEF IInv, TypeOK
      <4>2. handler'[c].at = "sample" /\ handler'[c].pk = fresh + 1
        BY <1>4, <4>1
      <4>3. cryptor'[q].pk = fresh + 1
        BY <1>1, <1>3, <3>1
      <4> QED
        BY <1>1, <3>1, <4>1, <4>2, <4>3 DEF Idle
    <3>2. CASE q # p
      <4>1. /\ busy'[q] = busy[q] /\ cryptor'[q] = cryptor[q]
            /\ busy[q] \in Client
        BY <1>1, <2>1, <3>2 DEF IInv, TypeOK
      <4>2. /\ ProcessOf[busy[q]] = q /\ stage[q] = "running"
            /\ handler[busy[q]].at # "none" /\ handler[busy[q]].pk = cryptor[q].pk
        BY <2>1, <4>1 DEF IInv, KeysInv, BusyInv
      <4>3. busy[q] # c
        BY <3>2, <4>2
      <4>4. handler'[busy[q]].at = handler[busy[q]].at
            /\ handler'[busy[q]].pk = handler[busy[q]].pk
        BY <1>1, <1>4, <4>1, <4>3
      <4> QED
        BY <1>1, <4>1, <4>2, <4>4
    <3> QED
      BY <3>1, <3>2
  <2> QED
    BY <2>1 DEF BusyInv
<1>11. SealInv' /\ RuinJustified'
  <2>1. \A q \in Process : cryptor'[q].rx = cryptor[q].rx
    BY <1>1, <1>3
  <2> QED
    BY <1>1, <2>1, Bounds DEF IInv, KeysInv, SealInv, RuinJustified
<1> QED
  BY <1>5, <1>6, <1>7, <1>8, <1>9, <1>10, <1>11 DEF IInv, KeysInv

\* A step of the handler of one client, with what it may do to the server's cryptor.
LEMMA ServerStep ==
    ASSUME IInv, NEW c \in Client, handler[c].at \in {"sample", "session", "answer"},
           stage' = stage, cause' = cause, taken' = taken, cryptor' = cryptor,
           busy' = busy, storages' = storages, faults' = faults, scenario' = scenario,
           config' = config, entry' = entry, starts' = starts, object' = object,
           sealed' = sealed, ruined' = ruined, readied' = readied,
           fresh' \in 0..MaxKeys, fresh' >= fresh,
           NEW k \in Cryptor, service' = k, k.pk >= 1,
           NEW h \in Handler, handler' = [handler EXCEPT ![c] = h],
           h.at \in {"session", "answer", "done"},
           h.pk = handler[c].pk, h.alone = handler[c].alone,
           h.at = "done" => h.reply >= 1,
           handler[c].alone /\ h.at \in {"answer", "done"} =>
              /\ k.rx = ToServer(handler[c].pk, k.pk)
              /\ k.tx = ToClient(handler[c].pk, k.pk)
              /\ h.at = "done" => h.reply = k.pk
    PROVE  IInv'
<1>1. /\ handler \in [Client -> Handler]
      /\ \A d \in Client : handler'[d] = IF d = c THEN h ELSE handler[d]
      /\ faults \in Nat /\ fresh' \in Nat /\ h # Quiet /\ handler[c] # Quiet
  BY Bounds DEF IInv, TypeOK, Handler, Quiet
<1>2. TypeOK'
  <2>1. handler' \in [Client -> Handler]
    BY <1>1
  <2> QED
    BY <2>1 DEF IInv, TypeOK, Handler
<1>3. StartInv'
  BY <1>1, SameStart
<1>4. KeyInv'
  BY <1>1, SameKeys
<1>5. HandlerInv'
  BY <1>1 DEF IInv, KeysInv, HandlerInv
<1>6. AgreeInv'
  <2>1. \A d, e \in Client :
           d # e /\ handler'[d].at # "none" /\ handler'[d].alone => handler'[e] = Quiet
    BY <1>1 DEF IInv, KeysInv, AgreeInv
  <2>2. \A d \in Client \ {c} :
           handler[d].alone => handler[d].at \notin {"answer", "done"}
    BY <1>1 DEF IInv, KeysInv, AgreeInv
  <2> QED
    BY <1>1, <2>1, <2>2 DEF AgreeInv
<1>7. BusyInv'
  <2>1. \A d \in Client : /\ handler[d].at # "none" => handler'[d].at # "none"
                          /\ handler'[d].pk = handler[d].pk
    BY <1>1
  <2>2. \A q \in Process : busy[q] # None => busy[q] \in Client
    BY DEF IInv, TypeOK
  <2> QED
    BY <2>1, <2>2 DEF IInv, KeysInv, BusyInv
<1>8. SealInv' /\ RuinJustified'
  BY DEF IInv, KeysInv, SealInv, RuinJustified
<1> QED
  BY <1>2, <1>3, <1>4, <1>5, <1>6, <1>7, <1>8 DEF IInv, KeysInv

LEMMA ServerSampleKeyPairStep ==
    ASSUME IInv, NEW c \in Client, ServerSampleKeyPair(c)
    PROVE  IInv'
<1> DEFINE h == [handler[c] EXCEPT !.at = "session"]
           k == [service EXCEPT !.pk = fresh + 1]
<1>1. /\ handler[c].at = "sample" /\ fresh < MaxKeys
      /\ service' = k /\ fresh' = fresh + 1 /\ handler' = [handler EXCEPT ![c] = h]
      /\ stage' = stage /\ cause' = cause /\ taken' = taken /\ cryptor' = cryptor
      /\ busy' = busy /\ storages' = storages /\ faults' = faults
      /\ scenario' = scenario /\ config' = config /\ entry' = entry
      /\ starts' = starts /\ object' = object /\ sealed' = sealed
      /\ ruined' = ruined /\ readied' = readied
  BY DEF ServerSampleKeyPair, SampleKeyPair, Random, parse_vars, data_vars
<1>2. handler[c] \in Handler /\ service \in Cryptor
  BY DEF IInv, TypeOK, Handler
<1>3. fresh' \in 0..MaxKeys /\ fresh' >= fresh /\ fresh + 1 \in 1..MaxKeys
  BY <1>1, Bounds DEF IInv, TypeOK
<1>4. k \in Cryptor /\ k.pk >= 1
  BY <1>2, <1>3 DEF Cryptor
<1>5. /\ h \in Handler /\ h.at = "session" /\ h.pk = handler[c].pk
      /\ h.alone = handler[c].alone
  BY <1>2 DEF Handler
<1> HIDE DEF h, k
<1> QED
  BY <1>1, <1>3, <1>4, <1>5, ServerStep

LEMMA ServerSampleSessionKeyStep ==
    ASSUME IInv, NEW c \in Client, ServerSampleSessionKey(c)
    PROVE  IInv'
<1> DEFINE h == [handler[c] EXCEPT !.at = "answer"]
           pk == handler[c].pk
<1>1. /\ handler[c].at = "session" /\ handler' = [handler EXCEPT ![c] = h]
      /\ stage' = stage /\ cause' = cause /\ taken' = taken /\ cryptor' = cryptor
      /\ busy' = busy /\ storages' = storages /\ faults' = faults
      /\ scenario' = scenario /\ config' = config /\ entry' = entry
      /\ starts' = starts /\ object' = object /\ sealed' = sealed
      /\ ruined' = ruined /\ readied' = readied
  BY DEF ServerSampleSessionKey, parse_vars, data_vars
<1>2. handler[c] \in Handler /\ service \in Cryptor /\ fresh \in 0..MaxKeys
  BY DEF IInv, TypeOK, Handler
<1>3. pk \in 1..MaxKeys /\ service.pk \in 1..MaxKeys /\ fresh \in Nat
  BY <1>1, <1>2, Bounds DEF IInv, KeysInv, HandlerInv, Handler, Cryptor
<1>4. /\ h \in Handler /\ h.at = "answer" /\ h.pk = pk /\ h.alone = handler[c].alone
  BY <1>2 DEF Handler
<1> HIDE DEF h
<1>5. CASE service' = ServerSession(service, pk) /\ fresh' = fresh
  <2> DEFINE k == ServerSession(service, pk)
  <2>1. /\ k \in Cryptor /\ k.pk = service.pk
        /\ k.rx = ToServer(pk, service.pk) /\ k.tx = ToClient(pk, service.pk)
    BY <1>2, <1>3, KeyTypes DEF Cryptor, ServerSession
  <2> HIDE DEF k
  <2>2. service' = k /\ k.pk >= 1 /\ fresh' \in 0..MaxKeys /\ fresh' >= fresh
    BY <1>2, <1>3, <1>5, <2>1 DEF k
  <2>3. k.rx = ToServer(pk, k.pk) /\ k.tx = ToClient(pk, k.pk)
    BY <2>1
  <2> QED
    BY <1>1, <1>4, <2>1, <2>2, <2>3, ServerStep
<1>6. CASE /\ Racing(c)
           /\ service' = [service EXCEPT !.setup = TRUE, !.rx = <<"mixed", fresh + 1>>,
                                         !.tx = <<"mixed", fresh + 1>>]
           /\ fresh' = fresh + 1
  <2> DEFINE k == [service EXCEPT !.setup = TRUE, !.rx = <<"mixed", fresh + 1>>,
                                  !.tx = <<"mixed", fresh + 1>>]
  <2>1. ~handler[c].alone /\ fresh < MaxKeys
    BY <1>1, <1>6 DEF Racing, IInv, KeysInv, AgreeInv, Quiet
  <2>2. fresh + 1 \in 1..MaxKeys /\ fresh' \in 0..MaxKeys /\ fresh' >= fresh
    BY <1>3, <1>6, <2>1, Bounds
  <2>3. k \in Cryptor /\ k.pk = service.pk
    BY <1>2, <2>2, KeyTypes DEF Cryptor
  <2> HIDE DEF k
  <2>4. service' = k /\ k.pk >= 1
    BY <1>3, <1>6, <2>3 DEF k
  <2> QED
    BY <1>1, <1>4, <2>1, <2>2, <2>3, <2>4, ServerStep
<1> QED
  BY <1>5, <1>6 DEF ServerSampleSessionKey, Random

LEMMA ServerAnswersStep ==
    ASSUME IInv, NEW c \in Client, ServerAnswers(c)
    PROVE  IInv'
<1> DEFINE h(r) == [handler[c] EXCEPT !.at = "done", !.reply = r]
<1>1. /\ handler[c].at = "answer" /\ service' = service
      /\ stage' = stage /\ cause' = cause /\ taken' = taken /\ cryptor' = cryptor
      /\ busy' = busy /\ storages' = storages /\ faults' = faults
      /\ scenario' = scenario /\ config' = config /\ entry' = entry
      /\ starts' = starts /\ object' = object /\ sealed' = sealed
      /\ ruined' = ruined /\ readied' = readied
  BY DEF ServerAnswers, parse_vars, data_vars
<1>2. handler[c] \in Handler /\ service \in Cryptor /\ fresh \in 0..MaxKeys
  BY DEF IInv, TypeOK, Handler
<1>3. service.pk \in 1..MaxKeys /\ fresh \in Nat
  BY <1>1, <1>2, Bounds DEF IInv, KeysInv, HandlerInv, Handler, Cryptor
<1>4. ASSUME NEW r \in 1..MaxKeys
      PROVE  /\ h(r) \in Handler /\ h(r).at = "done" /\ h(r).pk = handler[c].pk
             /\ h(r).alone = handler[c].alone /\ h(r).reply = r
  <2>1. r \in 0..MaxKeys
    BY Bounds
  <2> DEFINE g == handler[c]
             f == [g EXCEPT !.at = "done", !.reply = r]
  <2>2. g \in Handler /\ f = h(r)
    BY <1>2
  <2> HIDE DEF g, h
  <2>3. f.at = "done" /\ f.reply = r /\ f.pk = g.pk
    BY <2>2 DEF Handler
  <2>4. f.alone = g.alone
    BY <2>2 DEF Handler
  <2>5. f \in Handler
    BY <2>1, <2>2 DEF Handler
  <2> HIDE DEF f
  <2> QED
    BY <2>2, <2>3, <2>4, <2>5, Zenon DEF g
<1>5. CASE handler' = [handler EXCEPT ![c] = h(service.pk)] /\ fresh' = fresh
  <2>1. handler[c].alone => /\ service.rx = ToServer(handler[c].pk, service.pk)
                            /\ service.tx = ToClient(handler[c].pk, service.pk)
    BY <1>1 DEF IInv, KeysInv, AgreeInv
  <2> DEFINE g == h(service.pk)
  <2>2. /\ g \in Handler /\ g.at = "done" /\ g.pk = handler[c].pk
        /\ g.alone = handler[c].alone /\ g.reply = service.pk
    BY <1>3, <1>4, Zenon
  <2>3. /\ handler' = [handler EXCEPT ![c] = g]
        /\ fresh' \in 0..MaxKeys /\ fresh' >= fresh
    BY <1>2, <1>3, <1>5
  <2>4. service.pk >= 1 /\ g.reply >= 1
    BY <1>3, <2>2
  <2> HIDE DEF g
  <2> QED
    BY <1>1, <1>2, <2>1, <2>2, <2>3, <2>4, ServerStep
<1>6. CASE /\ Racing(c) /\ handler' = [handler EXCEPT ![c] = h(fresh + 1)]
           /\ fresh' = fresh + 1
  <2>1. ~handler[c].alone /\ fresh < MaxKeys
    BY <1>1, <1>6 DEF Racing, IInv, KeysInv, AgreeInv, Quiet
  <2>2. fresh + 1 \in 1..MaxKeys /\ fresh' \in 0..MaxKeys /\ fresh' >= fresh
    BY <1>3, <1>6, <2>1, Bounds
  <2> DEFINE g == h(fresh + 1)
  <2>3. /\ g \in Handler /\ g.at = "done" /\ g.pk = handler[c].pk
        /\ g.alone = handler[c].alone /\ g.reply = fresh + 1
    BY <1>4, <2>2, Zenon
  <2>4. handler' = [handler EXCEPT ![c] = g]
    BY <1>6
  <2>5. service.pk >= 1 /\ g.reply >= 1
    BY <1>3, <2>3
  <2> HIDE DEF g
  <2> QED
    BY <1>1, <1>2, <2>1, <2>2, <2>3, <2>4, <2>5, ServerStep
<1> QED
  BY <1>5, <1>6 DEF ServerAnswers, Random

\* A handler that has come to its end.
LEMMA HandlerGone ==
    ASSUME IInv, NEW c \in Client, service' = service,
           handler' = [handler EXCEPT ![c] = Quiet]
    PROVE  HandlerInv' /\ AgreeInv' /\ handler' \in [Client -> Handler]
<1>1. /\ handler \in [Client -> Handler] /\ Quiet \in Handler /\ Quiet.at = "none"
      /\ \A d \in Client : handler'[d] = IF d = c THEN Quiet ELSE handler[d]
  BY Bounds DEF IInv, TypeOK, Handler, Quiet
<1> HIDE DEF Quiet
<1> QED
  BY <1>1 DEF IInv, KeysInv, HandlerInv, AgreeInv

LEMMA NegotiatedStep ==
    ASSUME IInv, NEW c \in Client, Negotiated(c)
    PROVE  IInv'
<1> DEFINE p == ProcessOf[c]
           pk == cryptor[p].pk
           k == ClientSession(cryptor[p], handler[c].reply)
<1>1. /\ p \in Process /\ busy[p] = c /\ handler[c].at = "done"
      /\ cryptor' = [cryptor EXCEPT ![p] = k]
      /\ readied' = readied \cup Sealed(p) /\ busy' = [busy EXCEPT ![p] = None]
      /\ handler' = [handler EXCEPT ![c] = Quiet]
      /\ stage' = stage /\ cause' = cause /\ taken' = taken /\ storages' = storages
      /\ service' = service /\ object' = object /\ sealed' = sealed
      /\ ruined' = ruined /\ fresh' = fresh /\ faults' = faults
      /\ scenario' = scenario /\ config' = config /\ entry' = entry /\ starts' = starts
  BY Bounds DEF Negotiated, parse_vars
<1>2. /\ cryptor \in [Process -> Cryptor] /\ cryptor[p] \in Cryptor
      /\ handler[c] \in Handler /\ fresh \in 0..MaxKeys /\ fresh \in Nat /\ faults \in Nat
  BY <1>1, Bounds DEF IInv, TypeOK, Handler
<1>3. handler[c].pk = pk
  BY <1>1, Bounds DEF IInv, KeysInv, BusyInv
<1>4. pk \in 1..MaxKeys /\ handler[c].reply \in 1..MaxKeys
  BY <1>1, <1>2, <1>3, Bounds DEF IInv, KeysInv, HandlerInv, Handler
<1>5. k \in Cryptor /\ k.pk = pk /\ k.rx = ToClient(pk, handler[c].reply)
  BY <1>2, <1>4, KeyTypes DEF Cryptor, ClientSession
<1> HIDE DEF k
<1>6. HandlerInv' /\ AgreeInv' /\ handler' \in [Client -> Handler]
  BY <1>1, HandlerGone
<1>7. TypeOK'
  <2>1. readied' \subseteq Client
    BY <1>1 DEF IInv, TypeOK, Sealed, Clients
  <2>2. cryptor' \in [Process -> Cryptor]
    BY <1>1, <1>2, <1>5
  <2>3. busy' \in [Process -> Client \cup {None}]
    BY <1>1 DEF IInv, TypeOK
  <2> QED
    BY <1>1, <1>6, <2>1, <2>2, <2>3 DEF IInv, TypeOK, Handler
<1>8. StartInv'
  BY <1>1, <1>2, SameStart
<1>9. KeyInv'
  <2>1. \A n \in 1..MaxKeys : Uses(k, n) => n = pk
    BY <1>5, KeyShapes DEF Uses
  <2>2. Uses(cryptor[p], pk)
    BY DEF Uses
  <2>3. \E n \in 1..MaxKeys : \E s \in 1..MaxKeys : k.rx = ToClient(n, s)
    BY <1>4, <1>5
  <2>4. fresh' \in 0..MaxKeys /\ fresh' >= fresh
    BY <1>1, <1>2
  <2> HIDE DEF Uses
  <2>5. \A n \in 1..MaxKeys :
           Uses(k, n) => Uses(cryptor[p], n) \/ (n = fresh' /\ n > fresh)
    BY <2>1, <2>2
  <2> QED
    BY <1>1, <2>3, <2>4, <2>5, NewKey
<1>10. BusyInv'
  <2>1. ASSUME NEW q \in Process, busy'[q] # None
        PROVE  /\ ProcessOf[busy'[q]] = q /\ stage'[q] = "running"
               /\ handler'[busy'[q]].at # "none"
               /\ handler'[busy'[q]].pk = cryptor'[q].pk
    <3>1. q # p /\ busy'[q] = busy[q] /\ busy[q] \in Client /\ cryptor'[q] = cryptor[q]
      BY <1>1, <1>2, <2>1 DEF IInv, TypeOK
    <3>2. /\ ProcessOf[busy[q]] = q /\ stage[q] = "running"
          /\ handler[busy[q]].at # "none" /\ handler[busy[q]].pk = cryptor[q].pk
      BY <2>1, <3>1 DEF IInv, KeysInv, BusyInv
    <3>3. busy[q] # c
      BY <3>1, <3>2
    <3>4. handler'[busy[q]] = handler[busy[q]]
      BY <1>1, <3>1, <3>3 DEF IInv, TypeOK
    <3> QED
      BY <1>1, <3>1, <3>2, <3>4
  <2> QED
    BY <2>1 DEF BusyInv
<1>11. SealInv' /\ RuinJustified'
  BY <1>1, <1>2 DEF IInv, KeysInv, SealInv, RuinJustified, Sealed, Clients
<1> QED
  BY <1>6, <1>7, <1>8, <1>9, <1>10, <1>11 DEF IInv, KeysInv

LEMMA NegotiationFailsStep ==
    ASSUME IInv, NEW c \in Client, NegotiationFails(c)
    PROVE  IInv'
<1> DEFINE p == ProcessOf[c]
<1>1. /\ p \in Process /\ busy' = [busy EXCEPT ![p] = None]
      /\ faults < MaxFaults /\ faults' = faults + 1
      /\ stage' = stage /\ cause' = cause /\ taken' = taken /\ cryptor' = cryptor
      /\ storages' = storages /\ service' = service /\ handler' = handler
      /\ fresh' = fresh /\ object' = object /\ sealed' = sealed /\ ruined' = ruined
      /\ readied' = readied
      /\ scenario' = scenario /\ config' = config /\ entry' = entry /\ starts' = starts
  BY Bounds DEF NegotiationFails, parse_vars, data_vars
<1>2. /\ faults \in Nat /\ faults' \in 0..MaxFaults /\ faults' >= faults /\ faults' \in Nat
      /\ fresh \in Nat
  BY <1>1, Bounds DEF IInv, TypeOK
<1>3. TypeOK'
  <2>1. busy' \in [Process -> Client \cup {None}]
    BY <1>1 DEF IInv, TypeOK
  <2> QED
    BY <1>1, <1>2, <2>1 DEF IInv, TypeOK
<1>4. StartInv'
  BY <1>1, <1>2, SameStart
<1>5. KeyInv'
  BY <1>1, <1>2, SameKeys
<1>6. HandlerInv' /\ AgreeInv'
  BY <1>1 DEF IInv, KeysInv, HandlerInv, AgreeInv
<1>7. BusyInv'
  <2>1. \A q \in Process : busy'[q] # None => busy'[q] = busy[q]
    BY <1>1 DEF IInv, TypeOK
  <2> QED
    BY <1>1, <2>1 DEF IInv, KeysInv, BusyInv
<1>8. SealInv' /\ RuinJustified'
  BY <1>1 DEF IInv, KeysInv, SealInv, RuinJustified
<1> QED
  BY <1>3, <1>4, <1>5, <1>6, <1>7, <1>8 DEF IInv, KeysInv

LEMMA HandlerEndsStep ==
    ASSUME IInv, NEW c \in Client, HandlerEnds(c)
    PROVE  IInv'
<1>1. /\ busy[ProcessOf[c]] # c
      /\ handler' = [handler EXCEPT ![c] = Quiet]
      /\ stage' = stage /\ cause' = cause /\ taken' = taken /\ cryptor' = cryptor
      /\ busy' = busy /\ storages' = storages /\ service' = service
      /\ fresh' = fresh /\ object' = object /\ sealed' = sealed /\ ruined' = ruined
      /\ readied' = readied /\ faults' = faults
      /\ scenario' = scenario /\ config' = config /\ entry' = entry /\ starts' = starts
  BY DEF HandlerEnds, parse_vars, data_vars
<1>2. faults \in Nat /\ fresh \in Nat
  BY Bounds DEF IInv, TypeOK
<1>3. HandlerInv' /\ AgreeInv' /\ handler' \in [Client -> Handler]
  BY <1>1, HandlerGone
<1>4. TypeOK'
  BY <1>1, <1>3 DEF IInv, TypeOK, Handler
<1>5. StartInv'
  BY <1>1, <1>2, SameStart
<1>6. KeyInv'
  BY <1>1, <1>2, SameKeys
<1>7. BusyInv'
  <2>1. ASSUME NEW q \in Process, busy[q] # None
        PROVE  handler'[busy[q]] = handler[busy[q]]
    <3>1. ProcessOf[busy[q]] = q /\ busy[q] \in Client
      BY <2>1 DEF IInv, TypeOK, KeysInv, BusyInv
    <3>2. busy[q] # c
      BY <1>1, <3>1
    <3> QED
      BY <1>1, <3>1, <3>2 DEF IInv, TypeOK
  <2> QED
    BY <1>1, <2>1 DEF IInv, KeysInv, BusyInv
<1>8. SealInv' /\ RuinJustified'
  BY <1>1 DEF IInv, KeysInv, SealInv, RuinJustified
<1> QED
  BY <1>3, <1>4, <1>5, <1>6, <1>7, <1>8 DEF IInv, KeysInv

-------------------------------------------------------------------------------
(* The start. *)

\* In a step of one process the others stay as they are.
LEMMA OtherProcesses ==
    ASSUME IInv, NEW p \in Process, scenario' = scenario, faults' >= faults, faults' \in Nat,
           \A q \in Process \ {p} :
              /\ stage'[q] = stage[q] /\ config'[q] = config[q] /\ entry'[q] = entry[q]
              /\ cause'[q] = cause[q] /\ taken'[q] = taken[q] /\ starts'[q] = starts[q],
           \A d \in Client : ProcessOf[d] # p => object'[d] = object[d],
           StageOf(p)', EndOf(p)'
    PROVE  StageInv' /\ EndJustified'
<1>1. faults \in Nat /\ (faults > 0 => faults' > 0)
  BY Bounds DEF IInv, TypeOK
<1>2. ASSUME NEW q \in Process, q # p
      PROVE  StageOf(q)' /\ EndOf(q)'
  <2>1. StageOf(q) /\ EndOf(q)
    BY DEF IInv, StartInv, StageInv, EndJustified, EndOf
  <2>2. \A d \in Clients(q) : object'[d] = object[d]
    BY <1>2 DEF Clients
  <2>3. Clients(q)' = Clients(q)
    BY DEF Clients
  <2>4. StageOf(q)'
    BY <1>2, <2>1, <2>2, <2>3, Given DEF StageOf
  <2>5. EndOf(q)'
    BY <1>1, <1>2, <2>1, <2>2, <2>3, Given DEF EndOf
  <2> QED
    BY <2>4, <2>5
<1>3. StageInv'
  BY <1>2 DEF StageInv
<1>4. EndJustified'
  BY <1>2 DEF EndJustified, EndOf
<1> QED
  BY <1>3, <1>4

\* Steps that ask the server for nothing.
LEMMA SameStorages ==
    ASSUME IInv, scenario' = scenario, storages' = storages,
           faults' >= faults, faults' \in Nat,
           \A q \in Process : starts[q] > 1 => starts'[q] > 1,
           \A d \in Client :
              /\ object[d] # "none" => object'[d] # "none" \/ starts'[ProcessOf[d]] > 1
              /\ Stored(d)' => Stored(d) /\ config'[ProcessOf[d]].id = config[ProcessOf[d]].id
    PROVE  StorageInv'
<1>1. faults \in Nat /\ (faults > 0 => faults' > 0)
  BY Bounds DEF IInv, TypeOK
<1>2. ASSUME NEW id \in storages
      PROVE  \E q \in Process :
                /\ GivenId(q)' = id
                /\ faults' > 0 \/ starts'[q] > 1 \/ \E c \in Clients(q) : object'[c] # "none"
  <2>1. PICK q \in Process :
           /\ GivenId(q) = id
           /\ faults > 0 \/ starts[q] > 1 \/ \E c \in Clients(q) : object[c] # "none"
    BY <1>2 DEF IInv, StartInv, StorageInv
  <2>2. faults' > 0 \/ starts'[q] > 1 \/ \E c \in Clients(q) : object'[c] # "none"
    BY <1>1, <2>1 DEF Clients
  <2> QED
    BY <2>1, <2>2, Given
<1>3. \A d \in Client : Stored(d)' => config'[ProcessOf[d]].id \in storages'
  BY DEF IInv, StartInv, StorageInv
<1>4. \A c, d \in Client : c # d /\ Stored(c)' /\ Stored(d)' =>
         config'[ProcessOf[c]].id # config'[ProcessOf[d]].id
  BY DEF IInv, StartInv, StorageInv
<1> HIDE DEF Stored
<1> QED
  BY <1>2, <1>3, <1>4 DEF StorageInv, Clients

\* The end of a process that was running, and that waited for nothing.
LEMMA EndStep ==
    ASSUME IInv, NEW p \in Process, NEW why, End(p, why)
    PROVE  /\ stage'[p] = "ended" /\ cause'[p] = why
           /\ \A q \in Process \ {p} : stage'[q] = stage[q] /\ cause'[q] = cause[q]
           /\ stage' \in [Process -> {"start", "parsing", "running", "ended"}]
           /\ why \in {"none", "exception", "entry", "InitOram", "null", "type", "size",
                       "key", "fill", "front", "left"} =>
              cause' \in [Process -> {"none", "exception", "entry", "InitOram",
                                     "null", "type", "size", "key", "fill", "front", "left"}]
BY DEF IInv, TypeOK, End

LEMMA AccessStep ==
    ASSUME IInv, NEW c \in Client, Access(c)
    PROVE  IInv'
<1> DEFINE p == ProcessOf[c]
<1>1. /\ object[c] = "filled"
      /\ ruined' = [ruined EXCEPT ![c] = @ \/ ~(sealed[c] \subseteq {cryptor[p].rx})]
      /\ stage' = stage /\ cause' = cause /\ taken' = taken /\ cryptor' = cryptor
      /\ busy' = busy /\ storages' = storages /\ service' = service /\ handler' = handler
      /\ fresh' = fresh /\ object' = object /\ sealed' = sealed
      /\ readied' = readied /\ faults' = faults
      /\ scenario' = scenario /\ config' = config /\ entry' = entry /\ starts' = starts
  BY DEF Access, parse_vars, server_vars
<1>2. faults \in Nat /\ fresh \in Nat
  BY Bounds DEF IInv, TypeOK
<1>3. \A d \in Client : ruined'[d] => ruined[d] \/ (d = c /\ ~(sealed[c] \subseteq {cryptor[p].rx}))
  BY <1>1 DEF IInv, TypeOK
<1>4. TypeOK'
  <2>1. ruined' \in [Client -> BOOLEAN]
    BY <1>1, Zenon DEF IInv, TypeOK
  <2> QED
    BY <1>1, <2>1 DEF IInv, TypeOK
<1>5. StartInv'
  BY <1>1, <1>2, SameStart
<1>6. KeyInv'
  BY <1>1, <1>2, SameKeys
<1>7. HandlerInv' /\ AgreeInv' /\ BusyInv'
  BY <1>1 DEF IInv, KeysInv, HandlerInv, AgreeInv, BusyInv
<1>8. SealInv'
  BY <1>1 DEF IInv, KeysInv, SealInv
<1>9. RuinJustified'
  BY <1>1, <1>3 DEF IInv, KeysInv, SealInv, RuinJustified
<1> QED
  BY <1>4, <1>5, <1>6, <1>7, <1>8, <1>9 DEF IInv, KeysInv

\* A process that ends, with its clients as they are.
LEMMA EndOnly ==
    ASSUME IInv, NEW p \in Process, stage[p] = "running", busy[p] = None,
           NEW why \in {"null", "type", "size", "key", "front"}, End(p, why),
           why = "null" => taken[p],
           why = "size" => /\ "SquareRootOram" \in GivenTypes(p)
                           /\ \E m \in GivenSizes(p) : ~FitsCipher(m),
           object' = object, sealed' = sealed, ruined' = ruined, readied' = readied,
           taken' = taken, cryptor' = cryptor, busy' = busy, storages' = storages,
           service' = service, handler' = handler, fresh' = fresh, faults' = faults,
           scenario' = scenario, config' = config, entry' = entry, starts' = starts
    PROVE  IInv'
<1>1. /\ faults \in Nat /\ StageOf(p) /\ EndOf(p)
  BY Bounds DEF IInv, TypeOK, StartInv, StageInv, EndJustified, EndOf
<1>2. /\ stage'[p] = "ended" /\ cause'[p] = why
      /\ \A q \in Process \ {p} : stage'[q] = stage[q] /\ cause'[q] = cause[q]
      /\ stage' \in [Process -> {"start", "parsing", "running", "ended"}]
      /\ cause' \in [Process -> {"none", "exception", "entry", "InitOram",
                                "null", "type", "size", "key", "fill", "front", "left"}]
  BY EndStep
<1>3. TypeOK'
  BY <1>2 DEF IInv, TypeOK
<1>4. KeysInv'
  BY <1>2, SameKeysInv
<1>5. StageOf(p)' /\ EndOf(p)'
  BY <1>1, <1>2, Given DEF StageOf, EndOf, Clients
<1>6. StageInv' /\ EndJustified'
  BY <1>1, <1>2, <1>5, OtherProcesses
<1>7. StorageInv'
  BY <1>1, SameStorages DEF Stored
<1>8. GivenInv'
  BY <1>2, SameGivenInv
<1> QED
  BY <1>3, <1>4, <1>6, <1>7, <1>8 DEF IInv, StartInv

LEMMA FillEndsStep ==
    ASSUME IInv, NEW c \in Client, FillEnds(c)
    PROVE  IInv'
<1> DEFINE p == ProcessOf[c]
<1>1. /\ p \in Process /\ stage[p] = "running" /\ busy[p] = None
      /\ object' = object /\ sealed' = sealed /\ ruined' = ruined /\ readied' = readied
      /\ taken' = taken /\ cryptor' = cryptor /\ busy' = busy /\ storages' = storages
      /\ service' = service /\ handler' = handler /\ fresh' = fresh /\ faults' = faults
      /\ scenario' = scenario /\ config' = config /\ entry' = entry /\ starts' = starts
  BY Bounds DEF FillEnds, Idle, parse_vars, server_vars, data_vars
<1>2. End(p, "front") \/ End(p, "key")
  BY DEF FillEnds
<1> QED
  BY <1>1, <1>2, EndOnly

\* A fill of a client, or one that fails; with the Path ORAM the process then ends.
LEMMA FillWithDataStep ==
    ASSUME IInv, NEW c \in Client, NEW outcome, FillWithData(c, outcome)
    PROVE  IInv'
<1> DEFINE p == ProcessOf[c]
<1>1. /\ p \in Process /\ Idle(c) /\ object[c] # "none" /\ Rpc(outcome)
      /\ config[p].oram_type \in RpcTypes
      /\ object' \in {object, [object EXCEPT ![c] = "filled"]}
      /\ sealed' \in {sealed, [sealed EXCEPT ![c] = KeysOf(c)]}
      /\ ruined' = ruined /\ readied' = readied
      /\ taken' = taken /\ cryptor' = cryptor
      /\ busy' = busy /\ storages' = storages /\ service' = service /\ handler' = handler
      /\ fresh' = fresh
      /\ scenario' = scenario /\ config' = config /\ entry' = entry /\ starts' = starts
      /\ \/ outcome # "answered" /\ End(p, "fill")
         \/ stage' = stage /\ cause' = cause
  BY Bounds DEF FillWithData, parse_vars, server_vars
<1>2. /\ fresh \in Nat /\ stage[p] = "running" /\ busy[p] = None
      /\ StageOf(p) /\ EndOf(p) /\ cause[p] = "none" /\ ~taken[p]
      /\ faults \in Nat /\ faults' \in Nat /\ faults' >= faults /\ faults' \in 0..MaxFaults
      /\ outcome # "answered" => faults' > 0
  <2>1. /\ fresh \in Nat /\ stage[p] = "running" /\ busy[p] = None
        /\ StageOf(p) /\ EndOf(p)
    BY <1>1, Bounds DEF IInv, TypeOK, Idle, StartInv, StageInv, EndJustified, EndOf
  <2>2. cause[p] = "none" /\ ~taken[p]
    BY <1>1, <2>1 DEF StageOf, RpcTypes
  <2> QED
    BY <1>1, <2>1, <2>2, RpcCount
<1>3. /\ stage' \in [Process -> {"start", "parsing", "running", "ended"}]
      /\ cause' \in [Process -> {"none", "exception", "entry", "InitOram",
                                "null", "type", "size", "key", "fill", "front", "left"}]
      /\ \A q \in Process \ {p} : stage'[q] = stage[q] /\ cause'[q] = cause[q]
      /\ \/ stage'[p] = "running" /\ cause'[p] = "none"
         \/ stage'[p] = "ended" /\ cause'[p] = "fill" /\ faults' > 0
  <2>1. CASE outcome # "answered" /\ End(p, "fill")
    BY <1>1, <1>2, <2>1, EndStep
  <2>2. CASE stage' = stage /\ cause' = cause
    BY <1>2, <2>2 DEF IInv, TypeOK
  <2> QED
    BY <1>1, <2>1, <2>2
<1>4. /\ object' \in [Client -> {"none", "made", "filled"}]
      /\ \A d \in Client : (object'[d] = "none" <=> object[d] = "none")
                           /\ (d # c => object'[d] = object[d])
  <2>1. object \in [Client -> {"none", "made", "filled"}]
    BY DEF IInv, TypeOK
  <2> QED
    BY <1>1, <2>1
<1>5. KeysOf(c) \subseteq sealed[c] \cup {cryptor[p].rx}
  BY DEF KeysOf
<1>6. /\ sealed' \in [Client -> SUBSET Keys]
      /\ \A d \in Client : \/ sealed'[d] = sealed[d]
                           \/ d = c /\ sealed'[d] \subseteq sealed[c] \cup {cryptor[p].rx}
  <2>1. sealed \in [Client -> SUBSET Keys] /\ cryptor[p].rx \in Keys
    BY <1>1 DEF IInv, TypeOK, Cryptor
  <2> HIDE DEF p
  <2> QED
    BY <1>1, <1>5, <2>1
<1> HIDE DEF p
<1>7. TypeOK'
  BY <1>1, <1>2, <1>3, <1>4, <1>6 DEF IInv, TypeOK
<1>8. KeyInv'
  BY <1>1, <1>2, SameKeys
<1>9. HandlerInv' /\ AgreeInv'
  BY <1>1 DEF IInv, KeysInv, HandlerInv, AgreeInv
<1>10. BusyInv'
  BY <1>1, <1>2, <1>3 DEF IInv, KeysInv, BusyInv
<1>11. SealInv' /\ RuinJustified'
  BY <1>1, <1>6 DEF IInv, KeysInv, SealInv, RuinJustified, p
<1>12. StageOf(p)' /\ EndOf(p)'
  BY <1>1, <1>2, <1>3, Given DEF StageOf, EndOf
<1>13. StageInv' /\ EndJustified'
  <2>1. \A d \in Client : ProcessOf[d] # p => object'[d] = object[d]
    BY <1>4 DEF p
  <2> HIDE DEF StageOf, EndOf
  <2> QED
    BY <1>1, <1>2, <1>3, <1>12, <2>1, OtherProcesses
<1>14. StorageInv'
  BY <1>1, <1>2, <1>4, SameStorages DEF Stored
<1>15. GivenInv'
  BY <1>1, <1>2, <1>3, SameGivenInv
<1> QED
  BY <1>1, <1>7, <1>8, <1>9, <1>10, <1>11, <1>13, <1>14, <1>15 DEF IInv, KeysInv, StartInv

LEMMA LeaveStep ==
    ASSUME IInv, NEW p \in Process, Leave(p)
    PROVE  IInv'
<1>1. /\ stage[p] = "running" /\ End(p, "left") /\ busy' = [busy EXCEPT ![p] = None]
      /\ taken' = taken /\ cryptor' = cryptor /\ fresh' = fresh /\ faults' = faults
      /\ scenario' = scenario /\ config' = config /\ entry' = entry /\ starts' = starts
      /\ storages' = storages /\ service' = service /\ handler' = handler
      /\ object' = object /\ sealed' = sealed /\ ruined' = ruined /\ readied' = readied
  BY DEF Leave, parse_vars, server_vars, data_vars
<1>2. faults \in Nat /\ fresh \in Nat /\ StageOf(p) /\ EndOf(p)
  BY Bounds DEF IInv, TypeOK, StartInv, StageInv, EndJustified, EndOf
<1>3. /\ stage'[p] = "ended" /\ cause'[p] = "left"
      /\ \A q \in Process \ {p} : stage'[q] = stage[q] /\ cause'[q] = cause[q]
      /\ stage' \in [Process -> {"start", "parsing", "running", "ended"}]
      /\ cause' \in [Process -> {"none", "exception", "entry", "InitOram",
                                "null", "type", "size", "key", "fill", "front", "left"}]
  BY <1>1, EndStep
<1>4. TypeOK'
  <2>1. busy' \in [Process -> Client \cup {None}]
    BY <1>1 DEF IInv, TypeOK
  <2> QED
    BY <1>1, <1>3, <2>1 DEF IInv, TypeOK
<1>5. KeyInv'
  BY <1>1, <1>2, SameKeys
<1>6. HandlerInv' /\ AgreeInv' /\ SealInv' /\ RuinJustified'
  BY <1>1 DEF IInv, KeysInv, HandlerInv, AgreeInv, SealInv, RuinJustified
<1>7. BusyInv'
  <2>1. \A q \in Process : busy'[q] # None => busy'[q] = busy[q] /\ q # p
    BY <1>1 DEF IInv, TypeOK
  <2> QED
    BY <1>1, <1>3, <2>1 DEF IInv, KeysInv, BusyInv
<1>8. StageOf(p)' /\ EndOf(p)'
  BY <1>1, <1>2, <1>3, Given DEF StageOf, EndOf, Clients
<1>9. StageInv' /\ EndJustified'
  BY <1>1, <1>2, <1>3, <1>8, OtherProcesses
<1>10. StorageInv'
  BY <1>1, <1>2, SameStorages DEF Stored
<1>11. GivenInv'
  BY <1>1, <1>3, SameGivenInv
<1> QED
  BY <1>1, <1>4, <1>5, <1>6, <1>7, <1>9, <1>10, <1>11 DEF IInv, KeysInv, StartInv

\* Only one name stands for the Square Root ORAM.
LEMMA SquareType == \A t : StrToType(t) = "kSquareOram" => t = "SquareRootOram"
BY DEF StrToType

LEMMA ConstructOtherStep ==
    ASSUME IInv, NEW c \in Client, ConstructOther(c)
    PROVE  IInv'
<1> DEFINE p == ProcessOf[c]
           type == config[p].oram_type
<1>1. /\ p \in Process /\ Idle(c) /\ object[c] = "none"
      /\ sealed' = sealed /\ ruined' = ruined /\ readied' = readied
      /\ cryptor' = cryptor /\ busy' = busy /\ storages' = storages
      /\ service' = service /\ handler' = handler /\ fresh' = fresh /\ faults' = faults
      /\ scenario' = scenario /\ config' = config /\ entry' = entry /\ starts' = starts
  BY Bounds DEF ConstructOther, parse_vars, server_vars
<1>2. /\ faults \in Nat /\ stage[p] = "running" /\ busy[p] = None
      /\ StageOf(p) /\ c \in Clients(p)
  BY <1>1, Bounds DEF IInv, TypeOK, Idle, StartInv, StageInv, Clients
<1>3. ASSUME NEW why \in {"null", "type", "size"}, End(p, why), object' = object,
             taken' = taken, why = "null" => taken[p], why = "size" => Asserts(p)
      PROVE  IInv'
  <2>1. ASSUME Asserts(p)
        PROVE  /\ "SquareRootOram" \in GivenTypes(p)
               /\ \E m \in GivenSizes(p) : ~FitsCipher(m)
    <3>1. SizeGiven(p) /\ TypeGiven(p)
      BY <1>1, <1>2 DEF IInv, StartInv, GivenInv, AsGiven
    <3>2. type = "kSquareOram" /\ ~FitsCipher(config[p].block_num)
      BY <2>1 DEF Asserts
    <3> QED
      BY <3>1, <3>2, SquareType DEF SizeGiven, TypeGiven
  <2> HIDE DEF p
  <2> QED
    BY <1>1, <1>2, <1>3, <2>1, EndOnly
<1>4. ASSUME type = "kPartitionOram",
             taken' = [taken EXCEPT ![p] = TRUE],
             object' = [object EXCEPT ![c] = "made"],
             stage' = stage, cause' = cause
      PROVE  IInv'
  <2>1. /\ \A d \in Client : object'[d] = IF d = c THEN "made" ELSE object[d]
        /\ taken'[p] = TRUE /\ \A q \in Process \ {p} : taken'[q] = taken[q]
    BY <1>1, <1>4 DEF IInv, TypeOK
  <2>2. TypeOK'
    <3>1. object' \in [Client -> {"none", "made", "filled"}] /\ taken' \in [Process -> BOOLEAN]
      BY <1>1, <1>4 DEF IInv, TypeOK
    <3> QED
      BY <1>1, <1>4, <3>1 DEF IInv, TypeOK
  <2>3. KeysInv'
    BY <1>1, <1>4, <2>1, SameKeysInv
  <2>4. StageOf(p)' /\ EndOf(p)'
    <3>1. cause'[p] = "none" /\ stage'[p] = "running"
      BY <1>2, <1>4 DEF StageOf
    <3>2. \E d \in Clients(p)' : object'[d] = "made"
      BY <1>2, <2>1 DEF Clients
    <3>3. StageOf(p)'
      BY <1>1, <1>2, <1>4, <3>1, <3>2, Given DEF StageOf
    <3>4. EndOf(p)'
      BY <3>1 DEF EndOf
    <3> QED
      BY <3>3, <3>4
  <2>5. StageInv' /\ EndJustified'
    <3>1. \A q \in Process \ {p} :
             /\ stage'[q] = stage[q] /\ config'[q] = config[q] /\ entry'[q] = entry[q]
             /\ cause'[q] = cause[q] /\ taken'[q] = taken[q] /\ starts'[q] = starts[q]
      BY <1>1, <1>4, <2>1
    <3>2. \A d \in Client : ProcessOf[d] # p => object'[d] = object[d]
      BY <2>1
    <3>3. faults' >= faults /\ faults' \in Nat
      BY <1>1, <1>2
    <3> HIDE DEF StageOf, EndOf
    <3> QED
      BY <1>1, <2>4, <3>1, <3>2, <3>3, OtherProcesses
  <2>6. StorageInv'
    <3>1. type \notin RpcTypes
      BY <1>4 DEF RpcTypes
    <3>2. \A d \in Client : Stored(d)' => Stored(d)
      BY <1>1, <2>1, <3>1 DEF Stored
    <3> QED
      BY <1>1, <1>2, <2>1, <3>2, SameStorages
  <2>7. GivenInv'
    BY <1>1, <1>4, SameGivenInv
  <2> QED
    BY <1>1, <2>2, <2>3, <2>5, <2>6, <2>7 DEF IInv, StartInv
<1>5. \/ End(p, "null") /\ object' = object /\ taken' = taken /\ taken[p]
      \/ End(p, "type") /\ object' = object /\ taken' = taken
      \/ End(p, "size") /\ object' = object /\ taken' = taken /\ Asserts(p)
      \/ /\ type = "kPartitionOram"
         /\ taken' = [taken EXCEPT ![p] = TRUE]
         /\ object' = [object EXCEPT ![c] = "made"]
         /\ stage' = stage /\ cause' = cause
  BY DEF ConstructOther
<1> QED
  BY <1>3, <1>4, <1>5

LEMMA Defaults ==
    /\ default_config.id = 0 /\ default_config.crt_path = "server.crt"
    /\ "id" \in DOMAIN default_config /\ "crt_path" \in DOMAIN default_config
    /\ "block_num" \in DOMAIN default_config /\ "oram_type" \in DOMAIN default_config
    /\ default_config.oram_type = StrToType("PathOram")
BY DEF default_config, StrToType

\* What a file gives: the value of each entry, or the default when there is none.
LEMMA GivenByFile ==
    ASSUME NEW p, FileIsRead(p), NEW key, NEW flag, NEW default
    PROVE  /\ \A e \in ToSet(Entries(scenario[p])) :
                 e.key = key => e.val \in GivenFor(p, key, flag, default)
           /\ (\A e \in ToSet(Entries(scenario[p])) : e.key # key)
                 => GivenFor(p, key, flag, default) = {default}
<1>1. ~FlagsCount(p)
  BY DEF FileIsRead, FlagsCount
<1> QED
  BY <1>1 DEF GivenFor

LEMMA RestartStep ==
    ASSUME IInv, NEW p \in Process, Restart(p)
    PROVE  IInv'
<1>1. /\ stage[p] = "ended" /\ starts[p] < MaxStarts
      /\ starts' = [starts EXCEPT ![p] = starts[p] + 1]
      /\ stage' = [stage EXCEPT ![p] = "start"] /\ cause' = [cause EXCEPT ![p] = "none"]
      /\ config' = [config EXCEPT ![p] = default_config]
      /\ entry' = [entry EXCEPT ![p] = 1] /\ taken' = [taken EXCEPT ![p] = FALSE]
      /\ cryptor' = [cryptor EXCEPT ![p] = Blank]
      /\ object' = [c \in Client |-> IF c \in Clients(p) THEN "none" ELSE object[c]]
      /\ sealed' = [c \in Client |-> IF c \in Clients(p) THEN {} ELSE sealed[c]]
      /\ ruined' = [c \in Client |-> c \notin Clients(p) /\ ruined[c]]
      /\ readied' = readied \ Clients(p)
      /\ scenario' = scenario /\ busy' = busy /\ storages' = storages
      /\ service' = service /\ handler' = handler /\ fresh' = fresh /\ faults' = faults
  BY DEF Restart, server_vars
<1>2. /\ faults \in Nat /\ fresh \in 0..MaxKeys /\ fresh \in Nat
      /\ starts[p] \in Nat /\ starts[p] >= 1 /\ starts[p] + 1 \in 1..MaxStarts
  BY <1>1, Bounds DEF IInv, TypeOK
<1>3. /\ stage'[p] = "start" /\ cause'[p] = "none" /\ config'[p] = default_config
      /\ entry'[p] = 1 /\ taken'[p] = FALSE /\ cryptor'[p] = Blank /\ starts'[p] > 1
      /\ \A q \in Process \ {p} :
            /\ stage'[q] = stage[q] /\ config'[q] = config[q] /\ entry'[q] = entry[q]
            /\ cause'[q] = cause[q] /\ taken'[q] = taken[q] /\ starts'[q] = starts[q]
            /\ cryptor'[q] = cryptor[q]
  BY <1>1, <1>2 DEF IInv, TypeOK
<1>4. /\ \A d \in Client : d \in Clients(p) <=> ProcessOf[d] = p
      /\ \A d \in Client : ProcessOf[d] = p => object'[d] = "none" /\ sealed'[d] = {}
      /\ \A d \in Client : ProcessOf[d] # p =>
            /\ object'[d] = object[d] /\ sealed'[d] = sealed[d]
            /\ d \in readied' <=> d \in readied
      /\ \A d \in Client : ruined'[d] => ruined[d] /\ ProcessOf[d] # p
  BY <1>1 DEF Clients
<1>5. TypeOK'
  <2>1. /\ Blank \in Cryptor /\ NoKey \in Keys
    BY Bounds DEF Blank, Cryptor, Keys
  <2>2. /\ stage' \in [Process -> {"start", "parsing", "running", "ended"}]
        /\ cause' \in [Process -> {"none", "exception", "entry", "InitOram",
                                  "null", "type", "size", "key", "fill", "front", "left"}]
        /\ entry' \in [Process -> Nat] /\ starts' \in [Process -> 1..MaxStarts]
    BY <1>1, <1>2 DEF IInv, TypeOK
  <2>3. taken' \in [Process -> BOOLEAN] /\ ruined' \in [Client -> BOOLEAN]
    BY <1>1, <1>4 DEF IInv, TypeOK
  <2>4. cryptor' \in [Process -> Cryptor] /\ sealed' \in [Client -> SUBSET Keys]
    BY <1>1, <2>1 DEF IInv, TypeOK
  <2>5. object' \in [Client -> {"none", "made", "filled"}] /\ readied' \subseteq Client
    BY <1>1 DEF IInv, TypeOK
  <2>6. DOMAIN config' = Process
        /\ \A q \in Process : DOMAIN config'[q] = DOMAIN default_config
    BY <1>1, <1>3 DEF IInv, TypeOK
  <2> QED
    BY <1>1, <2>2, <2>3, <2>4, <2>5, <2>6 DEF IInv, TypeOK
<1>6. KeyInv'
  <2>1. Blank.rx = NoKey /\ \A n \in 1..MaxKeys : ~Uses(Blank, n)
    BY KeyShapes DEF Uses, Blank
  <2>2. fresh' \in 0..MaxKeys /\ fresh' >= fresh
    BY <1>1, <1>2
  <2> QED
    BY <1>1, <2>1, <2>2, NewKey
<1>7. HandlerInv' /\ AgreeInv'
  BY <1>1 DEF IInv, KeysInv, HandlerInv, AgreeInv
<1>8. BusyInv'
  BY <1>1, <1>3 DEF IInv, KeysInv, BusyInv
<1>9. SealInv' /\ RuinJustified'
  BY <1>3, <1>4, Bounds DEF IInv, KeysInv, SealInv, RuinJustified
<1>10. StageOf(p)' /\ EndOf(p)'
  <2>1. 0 \in Ids
    BY ScenarioAssumption
  <2>2. \A d \in Clients(p)' : object'[d] = "none"
    BY <1>4 DEF Clients
  <2>3. StageOf(p)'
    BY <1>3, <2>1, <2>2, Defaults DEF StageOf
  <2>4. EndOf(p)'
    BY <1>3 DEF EndOf
  <2> QED
    BY <2>3, <2>4
<1>11. StageInv' /\ EndJustified'
  <2>1. \A q \in Process \ {p} :
           /\ stage'[q] = stage[q] /\ config'[q] = config[q] /\ entry'[q] = entry[q]
           /\ cause'[q] = cause[q] /\ taken'[q] = taken[q] /\ starts'[q] = starts[q]
    BY <1>3
  <2>2. \A d \in Client : ProcessOf[d] # p => object'[d] = object[d]
    BY <1>4
  <2>3. scenario' = scenario /\ faults' >= faults /\ faults' \in Nat
    BY <1>1, <1>2
  <2> HIDE DEF StageOf, EndOf
  <2> QED
    BY <1>10, <2>1, <2>2, <2>3, OtherProcesses
<1>12. StorageInv'
  <2>1. \A q \in Process : starts[q] > 1 => starts'[q] > 1
    BY <1>3
  <2>2. \A d \in Client : object[d] # "none" => object'[d] # "none" \/ starts'[ProcessOf[d]] > 1
    BY <1>3, <1>4
  <2>3. \A d \in Client :
           Stored(d)' => Stored(d) /\ config'[ProcessOf[d]].id = config[ProcessOf[d]].id
    BY <1>3, <1>4, Bounds DEF Stored
  <2> HIDE DEF Stored
  <2> QED
    BY <1>1, <1>2, <2>1, <2>2, <2>3, SameStorages
<1>13. GivenInv'
  <2>1. AsGiven(p)'
    BY <1>3 DEF AsGiven
  <2>2. ASSUME NEW q \in Process, q # p
        PROVE  AsGiven(q)'
    BY <1>1, <1>3, <2>2, SameGiven DEF IInv, StartInv, GivenInv
  <2> QED
    BY <2>1, <2>2 DEF GivenInv
<1> QED
  BY <1>1, <1>5, <1>6, <1>7, <1>8, <1>9, <1>11, <1>12, <1>13 DEF IInv, KeysInv, StartInv

\* A step of a process that is starting.
LEMMA StartupStep ==
    ASSUME IInv, NEW p \in Process, stage[p] \in {"start", "parsing"},
           DOMAIN config' = Process, DOMAIN config'[p] = DOMAIN default_config,
           entry' \in [Process -> Nat],
           stage' \in [Process -> {"start", "parsing", "running", "ended"}],
           cause' \in [Process -> {"none", "exception", "entry", "InitOram",
                                 "null", "type", "size", "key", "fill", "front", "left"}],
           \A q \in Process \ {p} :
              /\ stage'[q] = stage[q] /\ config'[q] = config[q] /\ entry'[q] = entry[q]
              /\ cause'[q] = cause[q],
           scenario' = scenario, starts' = starts, taken' = taken, cryptor' = cryptor,
           busy' = busy, fresh' = fresh, faults' = faults, storages' = storages,
           service' = service, handler' = handler, object' = object, sealed' = sealed,
           ruined' = ruined, readied' = readied,
           StageOf(p)', EndOf(p)', AsGiven(p)'
    PROVE  IInv'
<1>1. faults \in Nat /\ \A d \in Client : ProcessOf[d] = p => object[d] = "none"
  BY Bounds DEF IInv, TypeOK, StartInv, StageInv, StageOf, Clients
<1>2. TypeOK'
  <2>1. \A q \in Process : DOMAIN config'[q] = DOMAIN default_config
    BY DEF IInv, TypeOK
  <2> QED
    BY <2>1 DEF IInv, TypeOK
<1>3. KeysInv'
  <2>1. \A q \in Process : busy[q] # None => stage'[q] = stage[q]
    BY DEF IInv, KeysInv, BusyInv
  <2> QED
    BY <2>1, SameKeysInv
<1>4. StageInv' /\ EndJustified'
  <2>1. \A q \in Process \ {p} :
           /\ stage'[q] = stage[q] /\ config'[q] = config[q] /\ entry'[q] = entry[q]
           /\ cause'[q] = cause[q] /\ taken'[q] = taken[q] /\ starts'[q] = starts[q]
    OBVIOUS
  <2>2. faults' >= faults /\ faults' \in Nat
    BY <1>1
  <2> HIDE DEF StageOf, EndOf
  <2> QED
    BY <2>1, <2>2, OtherProcesses
<1>5. StorageInv'
  <2>1. \A d \in Client :
           Stored(d)' => Stored(d) /\ config'[ProcessOf[d]].id = config[ProcessOf[d]].id
    BY <1>1, Bounds DEF Stored
  <2> QED
    BY <1>1, <2>1, SameStorages
<1>6. GivenInv'
  <2>1. ASSUME NEW q \in Process, q # p
        PROVE  AsGiven(q)'
    BY <2>1, SameGiven DEF IInv, StartInv, GivenInv
  <2> QED
    BY <2>1 DEF GivenInv
<1> QED
  BY <1>2, <1>3, <1>4, <1>5, <1>6 DEF IInv, StartInv

\* The configuration from the command line.
LEMMA CommandLine ==
    ASSUME NEW s \in Scenarios, NEW p \in Process, NEW k, k = DoCommandLine(s[p].flags)
    PROVE  /\ DOMAIN k = DOMAIN default_config
           /\ k.id = IF "id" \in DOMAIN s[p].flags THEN s[p].flags.id ELSE 0
           /\ k.crt_path = "server.crt" \/ "crt_path" \in DOMAIN s[p].flags
           /\ k.block_num = IF "block_num" \in DOMAIN s[p].flags
                            THEN s[p].flags.block_num ELSE default_config.block_num
           /\ k.oram_type = IF "oram_type" \in DOMAIN s[p].flags
                            THEN StrToType(s[p].flags.oram_type) ELSE StrToType("PathOram")
BY Defaults DEF DoCommandLine

LEMMA ReadConfigStep ==
    ASSUME IInv, NEW p \in Process, ReadConfig(p)
    PROVE  IInv'
<1> DEFINE found == Parse(scenario[p])
<1>1. /\ stage[p] = "start"
      /\ scenario' = scenario /\ entry' = entry /\ starts' = starts /\ taken' = taken
      /\ cryptor' = cryptor /\ busy' = busy /\ fresh' = fresh /\ faults' = faults
      /\ storages' = storages /\ service' = service /\ handler' = handler
      /\ object' = object /\ sealed' = sealed /\ ruined' = ruined /\ readied' = readied
  BY DEF ReadConfig, server_vars, data_vars
<1>2. \/ /\ found = "kFileNotFound" /\ cause' = cause
         /\ config' = [config EXCEPT ![p] = DoCommandLine(scenario[p].flags)]
         /\ stage' = [stage EXCEPT ![p] = "running"]
      \/ /\ found = "kFileIOError" /\ config' = config /\ cause' = cause
         /\ stage' = [stage EXCEPT ![p] = "running"]
      \/ /\ found = "throws" /\ config' = config
         /\ stage' = [stage EXCEPT ![p] = "ended"]
         /\ cause' = [cause EXCEPT ![p] = "exception"]
      \/ /\ found = "reads" /\ config' = config /\ cause' = cause
         /\ stage' = [stage EXCEPT ![p] = "parsing"]
  BY DEF ReadConfig, Enter, End
<1>3. /\ scenario \in Scenarios /\ StageOf(p) /\ DOMAIN config = Process
      /\ config[p] = default_config /\ cause[p] = "none" /\ ~taken[p]
      /\ \A d \in Clients(p) : object[d] = "none"
  BY <1>1 DEF IInv, TypeOK, StartInv, StageInv, StageOf
<1>4. /\ stage' \in [Process -> {"start", "parsing", "running", "ended"}]
      /\ cause' \in [Process -> {"none", "exception", "entry", "InitOram",
                                "null", "type", "size", "key", "fill", "front", "left"}]
      /\ \A q \in Process \ {p} :
            stage'[q] = stage[q] /\ cause'[q] = cause[q] /\ config'[q] = config[q]
      /\ DOMAIN config' = Process
  <2>1. /\ stage \in [Process -> {"start", "parsing", "running", "ended"}]
        /\ cause \in [Process -> {"none", "exception", "entry", "InitOram",
                                 "null", "type", "size", "key", "fill", "front", "left"}]
    BY DEF IInv, TypeOK
  <2>2. stage' \in [Process -> {"start", "parsing", "running", "ended"}]
    BY <1>2, <2>1
  <2>3. cause' \in [Process -> {"none", "exception", "entry", "InitOram",
                               "null", "type", "size", "key", "fill", "front", "left"}]
    BY <1>2, <2>1
  <2>4. \A q \in Process \ {p} : stage'[q] = stage[q] /\ cause'[q] = cause[q]
    BY <1>2, <2>1
  <2>5. \A q \in Process \ {p} : config'[q] = config[q]
    BY <1>2, <1>3
  <2>6. DOMAIN config' = Process
    BY <1>2, <1>3
  <2> QED
    BY <2>2, <2>3, <2>4, <2>5, <2>6
<1>5. stage'[p] \in {"running", "ended", "parsing"} /\ cause'[p] \in {"none", "exception"}
      /\ (stage'[p] # "ended" => cause'[p] = "none")
      /\ (stage'[p] = "parsing" => FileIsRead(p))
  BY <1>2, <1>3 DEF IInv, TypeOK, FileIsRead
<1>6. /\ DOMAIN config'[p] = DOMAIN default_config
      /\ config'[p].id = GivenId(p) /\ config'[p].id \in Ids
      /\ config'[p].crt_path = "server.crt" \/ OtherCertificate(p)
  <2>1. CASE found = "kFileNotFound"
    <3>1. config'[p] = DoCommandLine(scenario[p].flags)
      BY <1>2, <1>3, <2>1
    <3>2. FlagsCount(p)
      BY <2>1 DEF FlagsCount
    <3>3. /\ DOMAIN config'[p] = DOMAIN default_config
          /\ config'[p].id = IF "id" \in DOMAIN scenario[p].flags
                             THEN scenario[p].flags.id ELSE 0
          /\ config'[p].crt_path = "server.crt" \/ "crt_path" \in DOMAIN scenario[p].flags
      BY <1>3, <3>1, CommandLine
    <3>4. 0 \in Ids /\ ("id" \in DOMAIN scenario[p].flags => scenario[p].flags.id \in Ids)
      BY <1>3, ScenarioAssumption
    <3> QED
      BY <3>2, <3>3, <3>4 DEF GivenId, OtherCertificate
  <2>2. CASE found # "kFileNotFound"
    <3>1. config'[p] = default_config /\ ~FlagsCount(p)
      BY <1>2, <1>3, <2>2 DEF FlagsCount
    <3>2. 0 \in Ids
      BY ScenarioAssumption
    <3> QED
      BY <3>1, <3>2, Defaults DEF GivenId
  <2> QED
    BY <2>1, <2>2
<1>7. entry[p] >= 1
  BY <1>3 DEF StageOf
<1>8. StageOf(p)'
  BY <1>1, <1>3, <1>5, <1>6, <1>7, Given DEF StageOf, Clients
<1>9. EndOf(p)'
  BY <1>5 DEF EndOf
<1>10. entry' \in [Process -> Nat]
  BY <1>1 DEF IInv, TypeOK
<1>11. AsGiven(p)'
  <2>1. CASE found = "reads"
    <3>1. stage'[p] = "parsing" /\ config'[p] = default_config /\ entry'[p] = 1
      BY <1>1, <1>2, <1>3, <2>1 DEF IInv, TypeOK, StageOf
    <3>2. Unread(p, "BlockNum")' /\ Unread(p, "OramType")'
      BY <3>1 DEF Unread
    <3> QED
      BY <3>1, <3>2 DEF AsGiven
  <2>2. CASE found # "reads"
    <3>1. ~FileIsRead(p)
      BY <2>2 DEF FileIsRead
    <3>2. /\ GivenSizes(p) = IF FlagsCount(p) /\ "block_num" \in DOMAIN scenario[p].flags
                             THEN {scenario[p].flags["block_num"]}
                             ELSE {default_config.block_num}
          /\ GivenTypes(p) = IF FlagsCount(p) /\ "oram_type" \in DOMAIN scenario[p].flags
                             THEN {scenario[p].flags["oram_type"]} ELSE {"PathOram"}
      BY <3>1 DEF GivenSizes, GivenTypes, GivenFor
    <3>3. /\ config'[p].block_num \in GivenSizes(p)
          /\ \E t \in GivenTypes(p) : config'[p].oram_type = StrToType(t)
      <4>1. CASE found = "kFileNotFound"
        <5>1. config'[p] = DoCommandLine(scenario[p].flags) /\ FlagsCount(p)
          BY <1>2, <1>3, <4>1 DEF FlagsCount
        <5> QED
          BY <1>3, <3>2, <5>1, CommandLine
      <4>2. CASE found # "kFileNotFound"
        <5>1. config'[p] = default_config /\ ~FlagsCount(p)
          BY <1>2, <1>3, <2>2, <4>2 DEF FlagsCount
        <5> QED
          BY <3>2, <5>1, Defaults
      <4> QED
        BY <4>1, <4>2
    <3>4. stage'[p] # "parsing"
      BY <1>2, <1>3, <2>2 DEF IInv, TypeOK
    <3> QED
      BY <1>1, <3>3, <3>4, Given DEF AsGiven, SizeGiven, TypeGiven
  <2> QED
    BY <2>1, <2>2
<1> HIDE DEF StageOf, EndOf, AsGiven
<1> QED
  BY <1>1, <1>4, <1>6, <1>8, <1>9, <1>10, <1>11, StartupStep

\* Every key of the file sets a field, and none sets the id.
LEMMA Fields ==
    \A key \in DOMAIN FieldOf :
        FieldOf[key] \in DOMAIN default_config /\ FieldOf[key] # "id"
        /\ (FieldOf[key] = "crt_path" => key \in {"Id", "ServerCrtPath"})
        /\ (FieldOf[key] = "block_num" => key = "BlockNum")
        /\ (FieldOf[key] = "oram_type" => key = "OramType")
        /\ (key = "BlockNum" => FieldOf[key] = "block_num")
        /\ (key = "OramType" => FieldOf[key] = "oram_type")
BY DEF FieldOf, default_config

LEMMA ParseEntryStep ==
    ASSUME IInv, NEW p \in Process, ParseEntry(p)
    PROVE  IInv'
<1> DEFINE all == Entries(scenario[p])
           e == all[entry[p]]
           status == IF entry[p] <= Len(all) THEN TryExec(e) ELSE "end"
<1>1. /\ stage[p] = "parsing"
      /\ scenario' = scenario /\ starts' = starts /\ taken' = taken
      /\ cryptor' = cryptor /\ busy' = busy /\ fresh' = fresh /\ faults' = faults
      /\ storages' = storages /\ service' = service /\ handler' = handler
      /\ object' = object /\ sealed' = sealed /\ ruined' = ruined /\ readied' = readied
  BY DEF ParseEntry, server_vars, data_vars
<1>2. \/ /\ status = "kOK" /\ stage' = stage /\ cause' = cause
         /\ config' = [config EXCEPT ![p] = DoParse(config[p], e)]
         /\ entry' = [entry EXCEPT ![p] = entry[p] + 1]
      \/ /\ status = "end" /\ config' = config /\ entry' = entry /\ cause' = cause
         /\ stage' = [stage EXCEPT ![p] = "running"]
      \/ /\ status \notin {"kOK", "end"} /\ config' = config /\ entry' = entry
         /\ stage' = [stage EXCEPT ![p] = "ended"]
         /\ cause' = [cause EXCEPT ![p] = "entry"]
  BY DEF ParseEntry, Enter, End, NextEntry
<1>3. /\ scenario \in Scenarios /\ StageOf(p) /\ DOMAIN config = Process
      /\ DOMAIN config[p] = DOMAIN default_config
      /\ FileIsRead(p) /\ cause[p] = "none" /\ ~taken[p]
      /\ \A d \in Clients(p) : object[d] = "none"
      /\ config[p].id = GivenId(p) /\ config[p].id \in Ids
      /\ config[p].crt_path = "server.crt" \/ OtherCertificate(p)
      /\ entry[p] \in Nat /\ entry[p] >= 1
  BY <1>1 DEF IInv, TypeOK, StartInv, StageInv, StageOf
<1>4. /\ stage \in [Process -> {"start", "parsing", "running", "ended"}]
      /\ cause \in [Process -> {"none", "exception", "entry", "InitOram",
                               "null", "type", "size", "key", "fill", "front", "left"}]
      /\ entry \in [Process -> Nat]
  BY DEF IInv, TypeOK
<1>5. stage' \in [Process -> {"start", "parsing", "running", "ended"}]
  BY <1>2, <1>4
<1>6. cause' \in [Process -> {"none", "exception", "entry", "InitOram",
                             "null", "type", "size", "key", "fill", "front", "left"}]
  BY <1>2, <1>4
<1>7. entry' \in [Process -> Nat] /\ entry'[p] >= 1
  BY <1>2, <1>3, <1>4
<1>8. \A q \in Process \ {p} :
         /\ stage'[q] = stage[q] /\ cause'[q] = cause[q] /\ entry'[q] = entry[q]
  BY <1>2, <1>4
<1>9. DOMAIN config' = Process /\ \A q \in Process \ {p} : config'[q] = config[q]
  BY <1>2, <1>3
<1>10. /\ stage'[p] \in {"running", "ended", "parsing"} /\ cause'[p] \in {"none", "entry"}
       /\ stage'[p] # "ended" => cause'[p] = "none"
  BY <1>1, <1>2, <1>3, <1>4
<1>11. /\ Len(all) \in Nat
       /\ \A x : x \in ToSet(all) <=> \E i \in 1..Len(all) : x = all[i]
  <2>1. all = scenario[p].files[IF scenario[p].env = "unset" THEN default_config_path
                                ELSE scenario[p].env]
    BY DEF Entries
  <2>2. (IF scenario[p].env = "unset" THEN default_config_path ELSE scenario[p].env)
           \in DOMAIN scenario[p].files
    BY <1>3 DEF FileIsRead, Parse
  <2>3. DOMAIN all = 1..Len(all) /\ Len(all) \in Nat
    BY <1>3, <2>1, <2>2, ScenarioAssumption
  <2> QED
    BY <2>3 DEF ToSet
<1>12. ASSUME status = "kOK"
       PROVE  /\ e.key \in DOMAIN FieldOf /\ e \in ToSet(all)
              /\ config'[p] = [config[p] EXCEPT ![FieldOf[e.key]] = Converted(e.key, e.val)]
              /\ stage'[p] = "parsing" /\ entry'[p] = entry[p] + 1
  <2>1. entry[p] <= Len(all) /\ TryExec(e) = "kOK"
    BY <1>12
  <2>2. e.key \in DOMAIN FieldOf
    BY <2>1 DEF TryExec
  <2>3. e \in ToSet(all)
    BY <1>3, <1>11, <2>1
  <2>4. config'[p] = [config[p] EXCEPT ![FieldOf[e.key]] = Converted(e.key, e.val)]
    <3>1. config' = [config EXCEPT ![p] = DoParse(config[p], e)]
      BY <1>2, <1>12
    <3> QED
      BY <1>3, <3>1 DEF DoParse
  <2>5. stage'[p] = "parsing" /\ entry'[p] = entry[p] + 1
    <3>1. stage' = stage /\ entry' = [entry EXCEPT ![p] = entry[p] + 1]
      BY <1>2, <1>12
    <3> QED
      BY <1>1, <1>4, <3>1
  <2> QED
    BY <2>2, <2>3, <2>4, <2>5
<1> HIDE DEF e
<1>13. /\ DOMAIN config'[p] = DOMAIN default_config
       /\ config'[p].id = config[p].id
       /\ config'[p].crt_path = "server.crt" \/ OtherCertificate(p)
  <2>1. CASE status # "kOK"
    <3>1. config' = config
      BY <1>2, <2>1
    <3> QED
      BY <1>3, <3>1
  <2>2. CASE status = "kOK"
    <3> HIDE DEF all, status
    <3>1. /\ FieldOf[e.key] \in DOMAIN default_config /\ FieldOf[e.key] # "id"
          /\ FieldOf[e.key] = "crt_path" => e.key \in {"Id", "ServerCrtPath"}
      BY <1>12, <2>2, Fields
    <3>2. DOMAIN config'[p] = DOMAIN default_config /\ config'[p].id = config[p].id
      BY <1>3, <1>12, <2>2, <3>1, Defaults
    <3>3. CASE FieldOf[e.key] # "crt_path"
      <4>1. config'[p].crt_path = config[p].crt_path
        BY <1>3, <1>12, <2>2, <3>3, Defaults
      <4> QED
        BY <1>3, <3>2, <4>1
    <3>4. CASE FieldOf[e.key] = "crt_path" /\ e.key = "Id"
      <4>1. OtherCertificate(p)
        BY <1>3, <1>12, <2>2, <3>4 DEF OtherCertificate, all
      <4> QED
        BY <3>2, <4>1
    <3>5. CASE FieldOf[e.key] = "crt_path" /\ e.key = "ServerCrtPath"
      <4>1. config'[p].crt_path = e.val
        BY <1>3, <1>12, <2>2, <3>5, Defaults DEF Converted
      <4>2. e.val # "server.crt" => OtherCertificate(p)
        BY <1>3, <1>12, <2>2, <3>5 DEF OtherCertificate, all
      <4> QED
        BY <3>2, <4>1, <4>2
    <3> QED
      BY <3>1, <3>3, <3>4, <3>5
  <2> QED
    BY <2>1, <2>2
<1>14. AsGiven(p)'
  <2>1. /\ \/ SizeGiven(p)
           \/ Unread(p, "BlockNum") /\ config[p].block_num = default_config.block_num
        /\ \/ TypeGiven(p)
           \/ Unread(p, "OramType") /\ config[p].oram_type = default_config.oram_type
    BY <1>1 DEF IInv, StartInv, GivenInv, AsGiven
  <2>2. CASE status \notin {"kOK", "end"}
    <3>1. stage'[p] = "ended"
      BY <1>2, <1>4, <2>2
    <3> QED
      BY <3>1 DEF AsGiven
  <2>3. CASE status = "end"
    <3>1. config' = config /\ stage'[p] = "running" /\ ~(entry[p] <= Len(all))
      BY <1>2, <1>4, <2>3 DEF TryExec
    <3>2. \A key : Unread(p, key) => \A x \in ToSet(all) : x.key # key
      BY <1>3, <1>11, <3>1 DEF Unread
    <3>3. /\ Unread(p, "BlockNum") => GivenSizes(p) = {default_config.block_num}
          /\ Unread(p, "OramType") => GivenTypes(p) = {"PathOram"}
      BY <1>3, <3>2, GivenByFile DEF GivenSizes, GivenTypes
    <3>4. SizeGiven(p) /\ TypeGiven(p)
      BY <2>1, <3>3, Defaults DEF SizeGiven, TypeGiven
    <3>5. SizeGiven(p)' /\ TypeGiven(p)'
      BY <1>1, <3>1, <3>4, Given DEF SizeGiven, TypeGiven
    <3> QED
      BY <3>1, <3>5 DEF AsGiven
  <2>4. CASE status = "kOK"
    <3> HIDE DEF all, status
    <3>1. e = Entries(scenario[p])[entry[p]] /\ e \in ToSet(Entries(scenario[p]))
      BY <1>12, <2>4 DEF e, all
    <3>2. \A key : Unread(p, key) /\ e.key # key => Unread(p, key)'
      BY <1>1, <1>3, <1>12, <2>4, <3>1 DEF Unread
    <3>3. CASE e.key = "BlockNum"
      <4>1. config'[p].block_num = e.val /\ config'[p].oram_type = config[p].oram_type
        BY <1>3, <1>12, <2>4, <3>3, Fields, Defaults DEF Converted
      <4>2. e.val \in GivenSizes(p)
        BY <1>3, <3>1, <3>3, GivenByFile DEF GivenSizes
      <4>3. SizeGiven(p)'
        BY <1>1, <4>1, <4>2, Given DEF SizeGiven
      <4>4. TypeGiven(p) => TypeGiven(p)'
        BY <1>1, <4>1, Given DEF TypeGiven
      <4> QED
        BY <1>12, <2>1, <2>4, <3>2, <3>3, <4>1, <4>3, <4>4 DEF AsGiven
    <3>4. CASE e.key = "OramType"
      <4>1. config'[p].oram_type = StrToType(e.val) /\ config'[p].block_num = config[p].block_num
        BY <1>3, <1>12, <2>4, <3>4, Fields, Defaults DEF Converted
      <4>2. e.val \in GivenTypes(p)
        BY <1>3, <3>1, <3>4, GivenByFile DEF GivenTypes
      <4>3. TypeGiven(p)'
        BY <1>1, <4>1, <4>2, Given DEF TypeGiven
      <4>4. SizeGiven(p) => SizeGiven(p)'
        BY <1>1, <4>1, Given DEF SizeGiven
      <4> QED
        BY <1>12, <2>1, <2>4, <3>2, <3>4, <4>1, <4>3, <4>4 DEF AsGiven
    <3>5. CASE e.key \notin {"BlockNum", "OramType"}
      <4>1. /\ config'[p].oram_type = config[p].oram_type
            /\ config'[p].block_num = config[p].block_num
        BY <1>3, <1>12, <2>4, <3>5, Fields, Defaults
      <4>2. /\ TypeGiven(p) => TypeGiven(p)'
            /\ SizeGiven(p) => SizeGiven(p)'
        BY <1>1, <4>1, Given DEF SizeGiven, TypeGiven
      <4> QED
        BY <1>12, <2>1, <2>4, <3>2, <3>5, <4>1, <4>2 DEF AsGiven
    <3> QED
      BY <3>3, <3>4, <3>5
  <2> QED
    BY <2>2, <2>3, <2>4
<1> HIDE DEF all, status
<1>15. StageOf(p)'
  BY <1>1, <1>3, <1>7, <1>10, <1>13, Given DEF StageOf, Clients
<1>16. EndOf(p)'
  BY <1>1, <1>3, <1>10, Given DEF EndOf
<1> HIDE DEF StageOf, EndOf, AsGiven
<1> QED
  BY <1>1, <1>5, <1>6, <1>7, <1>8, <1>9, <1>13, <1>14, <1>15, <1>16, StartupStep

LEMMA ConstructStep ==
    ASSUME IInv, NEW c \in Client, NEW outcome, Construct(c, outcome)
    PROVE  IInv'
<1> DEFINE p == ProcessOf[c]
           created == Connects(p) /\ outcome # "request_lost" /\ Accepts(config[p].id)
<1>1. /\ p \in Process /\ Idle(c) /\ object[c] = "none"
      /\ config[p].oram_type \in RpcTypes /\ Rpc(outcome)
      /\ storages' = IF created THEN storages \cup {config[p].id} ELSE storages
      /\ service' = service /\ handler' = handler /\ taken' = taken
      /\ cryptor' = cryptor /\ busy' = busy /\ sealed' = sealed /\ ruined' = ruined
      /\ readied' = readied /\ fresh' = fresh
      /\ scenario' = scenario /\ config' = config /\ entry' = entry /\ starts' = starts
  BY Bounds DEF Construct, parse_vars
<1>2. \/ /\ created /\ outcome = "answered" /\ stage' = stage /\ cause' = cause
         /\ object' = [object EXCEPT ![c] = "made"]
      \/ ~(created /\ outcome = "answered") /\ End(p, "InitOram") /\ object' = object
  BY DEF Construct
<1>3. /\ stage[p] = "running" /\ busy[p] = None /\ StageOf(p) /\ EndOf(p)
      /\ c \in Clients(p)
  BY <1>1, Bounds DEF IInv, TypeOK, Idle, StartInv, StageInv, EndJustified, EndOf, Clients
<1>4. /\ faults \in Nat /\ faults' \in Nat /\ faults' >= faults /\ faults' \in 0..MaxFaults
      /\ outcome # "answered" => faults' > 0
      /\ faults > 0 => faults' > 0
  BY <1>1, RpcCount
<1>5. /\ config[p].id = GivenId(p) /\ config[p].id \in Ids /\ cause[p] = "none"
      /\ ~Connects(p) => OtherCertificate(p)
  BY <1>3 DEF StageOf, Connects
<1>6. /\ storages' \subseteq {id \in Ids : id < kMaximumOramStorageNum}
      /\ storages \subseteq storages'
      /\ \A id \in storages' : id \in storages \/ (id = config[p].id /\ created)
  BY <1>1, <1>5 DEF IInv, TypeOK, Accepts
<1>7. ASSUME created, outcome = "answered", stage' = stage, cause' = cause,
             object' = [object EXCEPT ![c] = "made"]
      PROVE  IInv'
  <2>1. \A d \in Client : object'[d] = IF d = c THEN "made" ELSE object[d]
    BY <1>7 DEF IInv, TypeOK
  <2>2. TypeOK'
    <3>1. object' \in [Client -> {"none", "made", "filled"}]
      BY <1>7 DEF IInv, TypeOK
    <3> QED
      BY <1>1, <1>4, <1>6, <1>7, <3>1 DEF IInv, TypeOK
  <2>3. KeysInv'
    BY <1>1, <1>7, <2>1, SameKeysInv
  <2>4. StageOf(p)'
    <3>1. (\E d \in Clients(p) : object[d] = "made") => \E d \in Clients(p)' : object'[d] = "made"
      BY <2>1 DEF Clients
    <3> QED
      BY <1>1, <1>3, <1>7, <3>1, Given DEF StageOf
  <2>5. EndOf(p)'
    BY <1>5, <1>7 DEF EndOf
  <2>6. StageInv' /\ EndJustified'
    <3>1. \A q \in Process \ {p} :
             /\ stage'[q] = stage[q] /\ config'[q] = config[q] /\ entry'[q] = entry[q]
             /\ cause'[q] = cause[q] /\ taken'[q] = taken[q] /\ starts'[q] = starts[q]
      BY <1>1, <1>7
    <3>2. \A d \in Client : ProcessOf[d] # p => object'[d] = object[d]
      BY <2>1
    <3> HIDE DEF StageOf, EndOf
    <3> QED
      BY <1>1, <1>4, <2>4, <2>5, <3>1, <3>2, OtherProcesses
  <2>7. StorageInv'
    <3>1. ASSUME NEW id \in storages'
          PROVE  \E q \in Process :
                    /\ GivenId(q)' = id
                    /\ \/ faults' > 0 \/ starts'[q] > 1
                       \/ \E d \in Clients(q)' : object'[d] # "none"
      <4>1. CASE id \in storages
        <5>1. PICK q \in Process :
                 /\ GivenId(q) = id
                 /\ faults > 0 \/ starts[q] > 1 \/ \E d \in Clients(q) : object[d] # "none"
          BY <4>1 DEF IInv, StartInv, StorageInv
        <5>2. (\E d \in Clients(q) : object[d] # "none")
                 => \E d \in Clients(q)' : object'[d] # "none"
          BY <2>1 DEF Clients
        <5> QED
          BY <1>1, <1>4, <5>1, <5>2, Given
      <4>2. CASE id = config[p].id
        <5>1. c \in Clients(p)' /\ object'[c] # "none"
          BY <1>3, <2>1 DEF Clients
        <5> QED
          BY <1>1, <1>5, <4>2, <5>1, Given
      <4> QED
        BY <1>6, <3>1, <4>1, <4>2
    <3>2. \A d \in Client : Stored(d)' => Stored(d) \/ d = c
      BY <1>1, <2>1 DEF Stored
    <3>3. \A d \in Client : Stored(d) => config[ProcessOf[d]].id \in storages
      BY DEF IInv, StartInv, StorageInv
    <3>4. config[p].id \in storages' /\ config[p].id \notin storages
      BY <1>1, <1>7 DEF Accepts
    <3>5. \A d, e \in Client : d # e /\ Stored(d) /\ Stored(e) =>
             config[ProcessOf[d]].id # config[ProcessOf[e]].id
      BY DEF IInv, StartInv, StorageInv
    <3> HIDE DEF Stored
    <3>6. \A d \in Client : Stored(d)' => config'[ProcessOf[d]].id \in storages'
      BY <1>1, <1>6, <3>2, <3>3, <3>4
    <3>7. \A d, e \in Client : d # e /\ Stored(d)' /\ Stored(e)' =>
             config'[ProcessOf[d]].id # config'[ProcessOf[e]].id
      BY <1>1, <3>2, <3>3, <3>4, <3>5
    <3> QED
      BY <3>1, <3>6, <3>7 DEF StorageInv
  <2>8. GivenInv'
    BY <1>1, <1>7, SameGivenInv
  <2> QED
    BY <1>1, <2>2, <2>3, <2>6, <2>7, <2>8 DEF IInv, StartInv
<1>8. ASSUME ~(created /\ outcome = "answered"), End(p, "InitOram"), object' = object
      PROVE  IInv'
  <2>1. /\ stage'[p] = "ended" /\ cause'[p] = "InitOram"
        /\ \A q \in Process \ {p} : stage'[q] = stage[q] /\ cause'[q] = cause[q]
        /\ stage' \in [Process -> {"start", "parsing", "running", "ended"}]
        /\ cause' \in [Process -> {"none", "exception", "entry", "InitOram",
                                  "null", "type", "size", "key", "fill", "front", "left"}]
    BY <1>1, <1>8, EndStep
  <2>2. TypeOK'
    BY <1>1, <1>4, <1>6, <1>8, <2>1 DEF IInv, TypeOK
  <2>3. KeysInv'
    BY <1>1, <1>3, <1>8, <2>1, SameKeysInv
  <2>4. StageOf(p)'
    BY <1>1, <1>3, <1>8, <2>1, Given DEF StageOf, Clients
  <2>5. EndOf(p)'
    <3>1. \/ OtherCertificate(p) \/ faults' > 0 \/ starts[p] > 1
          \/ GivenId(p) >= kMaximumOramStorageNum
          \/ \E d \in Clients(p) : object[d] # "none"
          \/ \E q \in Process \ {p} : GivenId(q) = GivenId(p)
      <4>1. CASE outcome # "answered"
        BY <1>4, <4>1
      <4>2. CASE ~Connects(p)
        BY <1>5, <4>2
      <4>3. CASE outcome = "answered" /\ Connects(p)
        <5>1. ~Accepts(config[p].id)
          BY <1>8, <4>3
        <5>2. CASE ~(config[p].id < kMaximumOramStorageNum)
          <6>1. config[p].id \in Nat /\ kMaximumOramStorageNum \in Nat
            BY <1>5, Bounds
          <6> QED
            BY <1>5, <5>2, <6>1
        <5>3. CASE config[p].id \in storages
          <6>1. PICK q \in Process :
                   /\ GivenId(q) = config[p].id
                   /\ faults > 0 \/ starts[q] > 1 \/ \E d \in Clients(q) : object[d] # "none"
            BY <5>3 DEF IInv, StartInv, StorageInv
          <6> QED
            BY <1>4, <1>5, <6>1
        <5> QED
          BY <5>1, <5>2, <5>3 DEF Accepts
      <4> QED
        BY <4>1, <4>2, <4>3
    <3>2. (\E d \in Clients(p) : object[d] # "none")
             => \E d \in Clients(p)' : object'[d] # "none"
      BY <1>8 DEF Clients
    <3> QED
      BY <1>1, <2>1, <3>1, <3>2, Given DEF EndOf
  <2>6. StageInv' /\ EndJustified'
    <3>1. \A q \in Process \ {p} :
             /\ stage'[q] = stage[q] /\ config'[q] = config[q] /\ entry'[q] = entry[q]
             /\ cause'[q] = cause[q] /\ taken'[q] = taken[q] /\ starts'[q] = starts[q]
      BY <1>1, <2>1
    <3> HIDE DEF StageOf, EndOf
    <3> QED
      BY <1>1, <1>4, <1>8, <2>4, <2>5, <3>1, OtherProcesses
  <2>7. StorageInv'
    <3>1. ASSUME NEW id \in storages'
          PROVE  \E q \in Process :
                    /\ GivenId(q)' = id
                    /\ \/ faults' > 0 \/ starts'[q] > 1
                       \/ \E d \in Clients(q)' : object'[d] # "none"
      <4>1. CASE id \in storages
        <5>1. PICK q \in Process :
                 /\ GivenId(q) = id
                 /\ faults > 0 \/ starts[q] > 1 \/ \E d \in Clients(q) : object[d] # "none"
          BY <4>1 DEF IInv, StartInv, StorageInv
        <5>2. (\E d \in Clients(q) : object[d] # "none")
                 => \E d \in Clients(q)' : object'[d] # "none"
          BY <1>8 DEF Clients
        <5> QED
          BY <1>1, <1>4, <5>1, <5>2, Given
      <4>2. CASE id = config[p].id /\ created
        <5>1. faults' > 0
          BY <1>4, <1>8, <4>2
        <5> QED
          BY <1>1, <1>5, <4>2, <5>1, Given
      <4> QED
        BY <1>6, <3>1, <4>1, <4>2
    <3>2. \A d \in Client : Stored(d)' <=> Stored(d)
      BY <1>1, <1>8 DEF Stored
    <3> HIDE DEF Stored
    <3>3. \A d \in Client : Stored(d)' => config'[ProcessOf[d]].id \in storages'
      BY <1>1, <1>6, <3>2 DEF IInv, StartInv, StorageInv
    <3>4. \A d, e \in Client : d # e /\ Stored(d)' /\ Stored(e)' =>
             config'[ProcessOf[d]].id # config'[ProcessOf[e]].id
      BY <1>1, <3>2 DEF IInv, StartInv, StorageInv
    <3> QED
      BY <3>1, <3>3, <3>4 DEF StorageInv
  <2>8. GivenInv'
    BY <1>1, <2>1, SameGivenInv
  <2> QED
    BY <1>1, <2>2, <2>3, <2>6, <2>7, <2>8 DEF IInv, StartInv
<1> QED
  BY <1>2, <1>7, <1>8

-------------------------------------------------------------------------------
(* The theorems. *)

LEMMA InitInv == Init => IInv
<1> SUFFICES ASSUME Init PROVE IInv
  OBVIOUS
<1>1. Blank \in Cryptor /\ NoKey \in Keys /\ Quiet \in Handler
  BY Bounds DEF Blank, Cryptor, Keys, Quiet, Handler
<1>2. 0 \in 0..MaxKeys /\ 0 \in 0..MaxFaults /\ 1 \in 1..MaxStarts
  BY Bounds
<1>3. TypeOK
  BY <1>1, <1>2 DEF Init, TypeOK, Handler
<1>4. KeyInv
  <2>1. Blank.rx = NoKey /\ \A n \in 1..MaxKeys : ~Uses(Blank, n)
    BY KeyShapes DEF Uses, Blank
  <2> HIDE DEF Uses
  <2> QED
    BY <2>1 DEF Init, KeyInv
<1>5. HandlerInv /\ BusyInv /\ AgreeInv
  BY DEF Init, HandlerInv, BusyInv, AgreeInv, Quiet
<1>6. SealInv /\ RuinJustified
  BY DEF Init, SealInv, RuinJustified
<1>7. StageInv
  BY Defaults, ScenarioAssumption DEF Init, StageInv, StageOf, Clients
<1>8. StorageInv
  BY DEF Init, StorageInv, Stored
<1>9. EndJustified
  BY DEF Init, EndJustified
<1>10. GivenInv
  BY DEF Init, GivenInv, AsGiven
<1> QED
  BY <1>3, <1>4, <1>5, <1>6, <1>7, <1>8, <1>9, <1>10 DEF IInv, KeysInv, StartInv, Init

LEMMA StepInv ==
    ASSUME IInv, [Next]_vars
    PROVE  IInv'
<1>1. CASE Startup
  BY <1>1, ReadConfigStep, ParseEntryStep DEF Startup
<1>2. CASE Negotiation
  BY <1>2, ServerSampleKeyPairStep, ServerSampleSessionKeyStep, ServerAnswersStep,
     NegotiatedStep, HandlerEndsStep DEF Negotiation
<1>3. CASE Call
  BY <1>3, ConstructStep, KeyNegotiateStep, ConstructOtherStep, ReadyAloneStep,
     NegotiationFailsStep, FillEndsStep, FillWithDataStep, AccessStep, LeaveStep, RestartStep DEF Call
<1>4. CASE UNCHANGED vars
  <2>1. /\ scenario' = scenario /\ config' = config /\ entry' = entry /\ stage' = stage
        /\ cause' = cause /\ taken' = taken /\ object' = object /\ storages' = storages
        /\ starts' = starts /\ faults' = faults
        /\ cryptor' = cryptor /\ busy' = busy /\ service' = service
        /\ handler' = handler /\ fresh' = fresh /\ sealed' = sealed
        /\ ruined' = ruined /\ readied' = readied
    BY <1>4 DEF vars
  <2>2. faults' \in Nat /\ faults' >= faults
    BY <2>1, Bounds DEF IInv, TypeOK
  <2>3. TypeOK'
    BY <2>1 DEF IInv, TypeOK
  <2>4. KeysInv'
    BY <2>1, SameKeysInv
  <2>5. StartInv'
    BY <2>1, <2>2, SameStart
  <2> QED
    BY <2>3, <2>4, <2>5 DEF IInv
<1> QED
  BY <1>1, <1>2, <1>3, <1>4 DEF Next

\* The invariant on which the properties rest, of every process, client, storage and
\* handler together.
THEOREM Invariance == Spec => []IInv
<1>1. Init => IInv
  BY InitInv
<1>2. IInv /\ [Next]_vars => IInv'
  BY StepInv
<1> QED
  BY <1>1, <1>2, PTL DEF Spec

\* The key a process encrypts its blocks with is never in the hands of another one,
\* and blocks are destroyed only after somebody in the process called Ready again
\* (base/oram_crypto.cc: the Cryptor is one object per process and per server).
THEOREM KeysKeptSafe == Spec => []KeysKept
<1>1. IInv => KeysKept
  <2> SUFFICES ASSUME IInv PROVE KeysApart
    BY DEF KeysKept, IInv, KeysInv
  <2>1. ASSUME NEW p \in Process, NEW q \in Process, p # q, cryptor[p].rx # NoKey,
               cryptor[p].rx = cryptor[q].rx
        PROVE  FALSE
    <3>1. PICK n \in 1..MaxKeys :
             \/ cryptor[p].rx = <<"ephemeral", n>>
             \/ \E s \in 1..MaxKeys : cryptor[p].rx = ToClient(n, s)
      BY <2>1 DEF IInv, KeysInv, KeyInv
    <3>2. Uses(cryptor[p], n) /\ Uses(cryptor[q], n)
      BY <2>1, <3>1 DEF Uses
    <3> HIDE DEF Uses
    <3> QED
      BY <2>1, <3>2 DEF IInv, KeysInv, KeyInv
  <2> QED
    BY <2>1 DEF KeysApart
<1> QED
  BY <1>1, Invariance, PTL

\* A negotiation that no other handler overlapped leaves the client and the server
\* with the same two keys (OramClient::Ready and OramServer's KeyExchange).
THEOREM KeysAgreeSafe == Spec => KeysAgree
<1> DEFINE Agrees ==
       \A c \in Client :
           LET p == ProcessOf[c] IN
           busy[p] = c /\ busy'[p] = None /\ cryptor'[p] # cryptor[p] /\ handler[c].alone
               => cryptor'[p].rx = service.tx /\ cryptor'[p].tx = service.rx
<1>1. IInv /\ [Next]_vars => Agrees
  <2> SUFFICES ASSUME IInv, [Next]_vars, NEW c \in Client,
                      busy[ProcessOf[c]] = c, busy'[ProcessOf[c]] = None,
                      cryptor'[ProcessOf[c]] # cryptor[ProcessOf[c]], handler[c].alone
               PROVE  /\ cryptor'[ProcessOf[c]].rx = service.tx
                      /\ cryptor'[ProcessOf[c]].tx = service.rx
    OBVIOUS
  <2> DEFINE p == ProcessOf[c]
  <2>1. /\ p \in Process /\ c # None /\ busy' # busy /\ cryptor' # cryptor
        /\ stage[p] = "running"
    BY Bounds DEF IInv, KeysInv, BusyInv
  <2>2. \E d \in Client : Negotiated(d) \/ \E outcome : KeyNegotiate(d, outcome)
    <3>1. ~UNCHANGED vars /\ ~Startup
      BY <2>1 DEF vars, Startup, ReadConfig, ParseEntry
    <3>2. CASE Negotiation
      BY <2>1, <3>2 DEF Negotiation, ServerSampleKeyPair, ServerSampleSessionKey,
         ServerAnswers, HandlerEnds
    <3>3. CASE Call
      <4>1. ASSUME NEW d \in Client
            PROVE  /\ ~ConstructOther(d) /\ ~ReadyAlone(d) /\ ~NegotiationFails(d)
                   /\ ~FillEnds(d) /\ ~Access(d)
                   /\ \A outcome : ~Construct(d, outcome) /\ ~FillWithData(d, outcome)
        BY <2>1 DEF ConstructOther, ReadyAlone, NegotiationFails, FillEnds, Access,
           Construct, FillWithData
      <4>2. ASSUME NEW q \in Process
            PROVE  ~Leave(q) /\ ~Restart(q)
        BY <2>1 DEF Leave, Restart
      <4> QED
        BY <3>3, <4>1, <4>2 DEF Call
    <3> QED
      BY <3>1, <3>2, <3>3 DEF Next
  <2>3. PICK d \in Client : Negotiated(d) \/ \E outcome : KeyNegotiate(d, outcome)
    BY <2>2
  <2>4. ProcessOf[d] = p
    BY <2>1, <2>3 DEF Negotiated, KeyNegotiate, IInv, TypeOK
  <2>5. \A outcome : ~KeyNegotiate(d, outcome)
    BY <2>1, <2>4 DEF KeyNegotiate, Idle
  <2>6. d = c /\ Negotiated(c)
    BY <2>3, <2>4, <2>5 DEF Negotiated
  <2>7. /\ handler[c].at = "done" /\ cryptor[p] \in Cryptor
        /\ cryptor' = [cryptor EXCEPT ![p] = ClientSession(cryptor[p], handler[c].reply)]
        /\ cryptor \in [Process -> Cryptor]
    BY <2>1, <2>6 DEF Negotiated, IInv, TypeOK
  <2>8. /\ service.rx = ToServer(handler[c].pk, service.pk)
        /\ service.tx = ToClient(handler[c].pk, service.pk)
        /\ handler[c].reply = service.pk /\ handler[c].pk = cryptor[p].pk
    BY <2>1, <2>7 DEF IInv, KeysInv, AgreeInv, BusyInv
  <2>9. /\ cryptor'[p].rx = ToClient(cryptor[p].pk, service.pk)
        /\ cryptor'[p].tx = ToServer(cryptor[p].pk, service.pk)
    BY <2>1, <2>7, <2>8 DEF ClientSession, Cryptor
  <2> QED
    BY <2>8, <2>9
<1>2. []IInv /\ [][Next]_vars => [][Agrees]_vars
  BY <1>1, PTL
<1>3. Spec => [][Agrees]_vars
  BY <1>2, Invariance, PTL DEF Spec
<1> QED
  BY <1>3 DEF KeysAgree

\* How a start ends is decided by the files, the flags and the clients before it: only
\* an id that is too large or taken, another certificate, an RPC that failed or a size
\* that the cipher cannot permute ends a process in the constructor
\* (parse/oram_parse.cc, client/oram_client.cc, server/oram_server.cc,
\* core/square_root_oram_controller.cc).
THEOREM StartJustifiedSafe == Spec => []StartJustified
<1>1. IInv => StartJustified
  BY DEF StartJustified, IInv, StartInv
<1> QED
  BY <1>1, Invariance, PTL
===============================================================================
