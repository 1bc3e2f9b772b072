------------------------------ MODULE OramClient ------------------------------
(***************************************************************************)
(* Client processes from start-up on (tests/oram_test_client,              *)
(* client/oram_client): configuration, the construction of OramClient      *)
(* objects, the session key, and whether the blocks can be read back.  The *)
(* Cryptor (base/oram_crypto) is one object per process, shared by all     *)
(* clients in it, and one in the server, shared by all KeyExchange         *)
(* handlers, which run without locks.                                      *)
(*                                                                         *)
(* A process does one call at a time.  A key is a term that says what it   *)
(* was made from.  What a call does to the blocks is the subject of the    *)
(* other modules; here the blocks of a client are sealed with a key, and   *)
(* an access under another key destroys them, because the status of        *)
(* DecryptBlock is not looked at and what did not decrypt is written back. *)
(***************************************************************************)
EXTENDS OramParse, FiniteSets, SequencesExt

CONSTANTS
    Process,
    Client,          \* OramClient objects
    ProcessOf,       \* the process each is created in
    Scenarios,       \* what environment, files and flags the processes may find
    Ids,             \* storage ids
    kMaximumOramStorageNum,
    None,
    MaxKeys,         \* bound: random keys and key pairs
    MaxStarts,       \* bound: times a process is started
    MaxFaults        \* bound: RPCs that fail

Clients(p) == {c \in Client : ProcessOf[c] = p}

ASSUME ClientAssumption ==
    /\ ProcessOf \in [Client -> Process]
    /\ None \notin Client
    /\ Ids \subseteq Nat /\ kMaximumOramStorageNum \in Nat
    /\ MaxKeys \in Nat /\ MaxStarts \in Nat \ {0} /\ MaxFaults \in Nat

\* What the processes may find: files are lists of entries, or of lines of data, and
\* the ids are those of the configuration or of a flag.
ASSUME ScenarioAssumption ==
    /\ 0 \in Ids
    /\ \A s \in Scenarios : \A p \in Process :
          /\ \A f \in DOMAIN s[p].files :
                Len(s[p].files[f]) \in Nat
                /\ DOMAIN s[p].files[f] = 1..Len(s[p].files[f])
          /\ "id" \in DOMAIN s[p].flags => s[p].flags.id \in Ids

VARIABLES
    stage,           \* of each process
    scenario, config,
    entry,           \* the next entry of the file
    cause,           \* ghost: why a process has ended
    taken,           \* whether the Partition ORAM's instance was moved out
    cryptor,         \* of each process
    busy,            \* the client a process waits for in KeyNegotiate
    object,          \* of each client: none, made or filled
    sealed,          \* the keys the blocks of a client are encrypted with
    ruined,          \* whether they were destroyed
    storages,        \* server: ids in use
    service,         \* server: key pair and session keys
    handler,         \* server: KeyExchange of each client
    fresh,           \* random keys made so far
    starts, faults,
    readied          \* ghost: clients whose process called Ready after a fill

vars == <<stage, scenario, config, entry, cause, taken, cryptor, busy, object,
          sealed, ruined, storages, service, handler, fresh, starts, faults, readied>>

parse_vars == <<scenario, config, entry, starts>>
server_vars == <<storages, service, handler>>
data_vars == <<object, sealed, ruined, readied>>

NoKey == <<"none">>
Blank == [setup |-> FALSE, pk |-> 0, rx |-> NoKey, tx |-> NoKey]
\* alone (ghost): no other handler has run at the same time.
Quiet == [at |-> "none", pk |-> 0, reply |-> 0, alone |-> TRUE]

Init ==
    /\ stage = [p \in Process |-> "start"]
    /\ scenario \in Scenarios
    /\ config = [p \in Process |-> default_config]
    /\ entry = [p \in Process |-> 1]
    /\ cause = [p \in Process |-> "none"]
    /\ taken = [p \in Process |-> FALSE]
    /\ cryptor = [p \in Process |-> Blank]
    /\ busy = [p \in Process |-> None]
    /\ object = [c \in Client |-> "none"]
    /\ sealed = [c \in Client |-> {}]
    /\ ruined = [c \in Client |-> FALSE]
    /\ storages = {}
    /\ service = Blank
    /\ handler = [c \in Client |-> Quiet]
    /\ fresh = 0
    /\ starts = [p \in Process |-> 1]
    /\ faults = 0
    /\ readied = {}

-------------------------------------------------------------------------------
(* Start-up. *)

End(p, why) ==
    /\ stage' = [stage EXCEPT ![p] = "ended"]
    /\ cause' = [cause EXCEPT ![p] = why]

Enter(p, s) == stage' = [stage EXCEPT ![p] = s] /\ UNCHANGED cause

\* main falls back to the command line only when no file was found; a file that is
\* not YAML leaves the default configuration.
ReadConfig(p) ==
    LET found == Parse(scenario[p]) IN
    /\ stage[p] = "start"
    /\ \/ /\ found = "kFileNotFound"
          /\ config' = [config EXCEPT ![p] = DoCommandLine(scenario[p].flags)]
          /\ Enter(p, "running")
       \/ found = "kFileIOError" /\ UNCHANGED config /\ Enter(p, "running")
       \/ found = "throws" /\ UNCHANGED config /\ End(p, "exception")
       \/ found = "reads" /\ UNCHANGED config /\ Enter(p, "parsing")
    /\ UNCHANGED <<scenario, entry, starts, taken, cryptor, busy, fresh, faults>>
    /\ UNCHANGED <<server_vars, data_vars>>

\* Mutant of NextEntry: the iterator stays.
NextEntryStays(p) == entry[p]

NextEntry(p) == entry[p] + 1

\* One iteration of Parse's loop.
ParseEntry(p) ==
    LET all == Entries(scenario[p])
        status == IF entry[p] <= Len(all) THEN TryExec(all[entry[p]]) ELSE "end" IN
    /\ stage[p] = "parsing"
    /\ \/ /\ status = "kOK"
          /\ config' = [config EXCEPT ![p] = DoParse(@, all[entry[p]])]
          /\ entry' = [entry EXCEPT ![p] = NextEntry(p)]
          /\ UNCHANGED <<stage, cause>>
       \/ status = "end" /\ Enter(p, "running") /\ UNCHANGED <<config, entry>>
       \/ status \notin {"kOK", "end"} /\ End(p, "entry") /\ UNCHANGED <<config, entry>>
    /\ UNCHANGED <<scenario, starts, taken, cryptor, busy, fresh, faults>>
    /\ UNCHANGED <<server_vars, data_vars>>

Outcomes == {"answered", "request_lost", "reply_lost"}

\* A channel that was given no certificate of the server cannot connect.
Connects(p) == config[p].crt_path = "server.crt"

Rpc(outcome) ==
    IF outcome = "answered" THEN UNCHANGED faults
    ELSE faults < MaxFaults /\ faults' = faults + 1

Idle(c) == stage[ProcessOf[c]] = "running" /\ busy[ProcessOf[c]] = None

RpcTypes == {"kPathOram", "kSquareOram", "kLinearOram"}

\* CheckInitRequest of the server.
Accepts(id) == id \notin storages /\ id < kMaximumOramStorageNum

\* The rounded up square root of m, and whether the blocks with one dummy for each
\* access of an epoch are a power of two.  Bound: 2^30 blocks.
SquareRoot(m) == CHOOSE r \in 0..m : r * r >= m /\ (r = 0 \/ (r - 1) * (r - 1) < m)
FitsCipher(m) == \E k \in 0..30 : m + SquareRoot(m) = 2^k

\* The constructor of the Square Root ORAM asserts it.
Asserts(p) == config[p].oram_type = "kSquareOram" /\ ~FitsCipher(config[p].block_num)

\* The constructor with one of the types whose InitOram calls the server.
Construct(c, outcome) ==
    LET p == ProcessOf[c]
        created == Connects(p) /\ outcome # "request_lost" /\ Accepts(config[p].id) IN
    /\ Idle(c) /\ object[c] = "none" /\ config[p].oram_type \in RpcTypes /\ ~Asserts(p)
    /\ Rpc(outcome)
    /\ storages' = IF created THEN storages \cup {config[p].id} ELSE storages
    /\ \/ /\ created /\ outcome = "answered"
          /\ object' = [object EXCEPT ![c] = "made"]
          /\ UNCHANGED <<stage, cause>>
       \/ ~(created /\ outcome = "answered") /\ End(p, "InitOram") /\ UNCHANGED object
    /\ UNCHANGED <<service, handler, taken, cryptor, busy, sealed, ruined,
                   readied, fresh>>
    /\ UNCHANGED parse_vars

\* With the Partition ORAM, which sets up nothing before Run: the static instance
\* is moved out, and a second client gets a null pointer.  Other types end the
\* process, and so does a Square Root ORAM of a size that its cipher cannot permute.
ConstructOther(c) ==
    LET p == ProcessOf[c]
        type == config[p].oram_type IN
    /\ Idle(c) /\ object[c] = "none"
    /\ \/ /\ type = "kPartitionOram" /\ ~taken[p]
          /\ taken' = [taken EXCEPT ![p] = TRUE]
          /\ object' = [object EXCEPT ![c] = "made"]
          /\ UNCHANGED <<stage, cause>>
       \/ type = "kPartitionOram" /\ taken[p] /\ End(p, "null") /\ UNCHANGED <<taken, object>>
       \/ type \in {"kCuckooOram", "kOds", "kInvalid"} /\ End(p, "type")
          /\ UNCHANGED <<taken, object>>
       \/ Asserts(p) /\ End(p, "size") /\ UNCHANGED <<taken, object>>
    /\ UNCHANGED <<cryptor, busy, sealed, ruined, readied, fresh, faults>>
    /\ UNCHANGED <<parse_vars, server_vars>>

-------------------------------------------------------------------------------
(* The session key. *)

Random == fresh + 1
Sealed(p) == {c \in Clients(p) : sealed[c] # {}}

NoNeedForSessionKey(p) ==
    [cryptor[p] EXCEPT !.setup = TRUE, !.rx = <<"ephemeral", Random>>]

\* Ready without a server: an ephemeral key.
ReadyAlone(c) ==
    LET p == ProcessOf[c] IN
    /\ Idle(c) /\ object[c] # "none" /\ config[p].disable_debugging
    /\ fresh < MaxKeys
    /\ cryptor' = [cryptor EXCEPT ![p] = NoNeedForSessionKey(p)]
    /\ fresh' = Random
    /\ readied' = readied \cup Sealed(p)
    /\ UNCHANGED <<stage, cause, taken, busy, object, sealed, ruined, faults>>
    /\ UNCHANGED <<parse_vars, server_vars>>

\* Mutant of SampleKeyPair: the session keys go with the old pair.
SampleKeyPairResets(k, n) == [k EXCEPT !.pk = n, !.rx = NoKey, !.tx = NoKey]

SampleKeyPair(k, n) == [k EXCEPT !.pk = n]

\* A KeyExchange arrives, with the client's public key.
Called(c, pk) ==
    LET others == {d \in Client \ {c} : handler[d] # Quiet} IN
    [d \in Client |->
        IF d = c THEN [at |-> "sample", pk |-> pk, reply |-> 0, alone |-> others = {}]
        ELSE [handler[d] EXCEPT !.alone = @ /\ d \notin others]]

\* Ready with KeyNegotiate: a new key pair, and its public key to the server.
KeyNegotiate(c, outcome) ==
    LET p == ProcessOf[c]
        sent == Connects(p) /\ outcome # "request_lost" IN
    /\ Idle(c) /\ object[c] # "none" /\ ~config[p].disable_debugging
    /\ handler[c] = Quiet /\ fresh < MaxKeys
    /\ outcome # "reply_lost" /\ Rpc(outcome)
    /\ cryptor' = [cryptor EXCEPT ![p] = SampleKeyPair(@, Random)]
    /\ fresh' = Random
    /\ busy' = [busy EXCEPT ![p] = IF sent THEN c ELSE None]
    /\ handler' = IF sent THEN Called(c, Random) ELSE handler
    /\ UNCHANGED <<stage, cause, taken, storages, service>>
    /\ UNCHANGED <<parse_vars, data_vars>>

\* The handler, one step per use of the server's cryptor.
ServerSampleKeyPair(c) ==
    /\ handler[c].at = "sample" /\ fresh < MaxKeys
    /\ service' = SampleKeyPair(service, Random)
    /\ fresh' = Random
    /\ handler' = [handler EXCEPT ![c].at = "session"]
    /\ UNCHANGED <<stage, cause, taken, cryptor, busy, storages, faults>>
    /\ UNCHANGED <<parse_vars, data_vars>>

\* The keys of the two directions, from the public keys of client and server.
ToClient(client, server) == <<"to client", client, server>>
ToServer(client, server) == <<"to server", client, server>>

\* Mutant of ServerSession: the server computes the client's keys.
ServerSessionAsClient(k, peer) ==
    [k EXCEPT !.setup = TRUE, !.rx = ToClient(peer, k.pk), !.tx = ToServer(peer, k.pk)]

\* SampleSessionKey for the two types.
ServerSession(k, peer) ==
    [k EXCEPT !.setup = TRUE, !.rx = ToServer(peer, k.pk), !.tx = ToClient(peer, k.pk)]
ClientSession(k, peer) ==
    [k EXCEPT !.setup = TRUE, !.rx = ToClient(k.pk, peer), !.tx = ToServer(k.pk, peer)]

\* Another handler may be writing the cryptor at the moment; what is read or written
\* then can be a mixture that nobody else has.
Racing(c) ==
    \E d \in Client \ {c} : handler[d].at \in {"sample", "session"} /\ fresh < MaxKeys

ServerSampleSessionKey(c) ==
    /\ handler[c].at = "session"
    /\ \/ service' = ServerSession(service, handler[c].pk) /\ UNCHANGED fresh
       \/ /\ Racing(c)
          /\ service' = [service EXCEPT !.setup = TRUE, !.rx = <<"mixed", Random>>,
                                        !.tx = <<"mixed", Random>>]
          /\ fresh' = Random
    /\ handler' = [handler EXCEPT ![c].at = "answer"]
    /\ UNCHANGED <<stage, cause, taken, cryptor, busy, storages, faults>>
    /\ UNCHANGED <<parse_vars, data_vars>>

\* The answer carries the key pair that the cryptor has now.
ServerAnswers(c) ==
    /\ handler[c].at = "answer"
    /\ \/ handler' = [handler EXCEPT ![c].at = "done", ![c].reply = service.pk]
          /\ UNCHANGED fresh
       \/ /\ Racing(c)
          /\ handler' = [handler EXCEPT ![c].at = "done", ![c].reply = Random]
          /\ fresh' = Random
    /\ UNCHANGED <<stage, cause, taken, cryptor, busy, storages, service, faults>>
    /\ UNCHANGED <<parse_vars, data_vars>>

\* The client computes its session keys.
Negotiated(c) ==
    LET p == ProcessOf[c] IN
    /\ busy[p] = c /\ handler[c].at = "done"
    /\ cryptor' = [cryptor EXCEPT ![p] = ClientSession(@, handler[c].reply)]
    /\ readied' = readied \cup Sealed(p)
    /\ busy' = [busy EXCEPT ![p] = None]
    /\ handler' = [handler EXCEPT ![c] = Quiet]
    /\ UNCHANGED <<stage, cause, taken, storages, service, object, sealed,
                   ruined, fresh, faults>>
    /\ UNCHANGED parse_vars

\* The connection breaks: Ready returns an error, which main does not look at.
NegotiationFails(c) ==
    LET p == ProcessOf[c] IN
    /\ busy[p] = c /\ faults < MaxFaults
    /\ faults' = faults + 1
    /\ busy' = [busy EXCEPT ![p] = None]
    /\ UNCHANGED <<stage, cause, taken, cryptor, storages, service, handler, fresh>>
    /\ UNCHANGED <<parse_vars, data_vars>>

\* A handler whose client has given up comes to its end.
HandlerEnds(c) ==
    /\ handler[c].at = "done" /\ busy[ProcessOf[c]] # c
    /\ handler' = [handler EXCEPT ![c] = Quiet]
    /\ UNCHANGED <<stage, cause, taken, cryptor, busy, storages, service,
                   fresh, faults>>
    /\ UNCHANGED <<parse_vars, data_vars>>

-------------------------------------------------------------------------------
(* The blocks. *)

\* The lines of the file whose blocks are to be stored: none when it cannot be read.
ReadDataFromFile(p) ==
    IF config[p].filepath \in DOMAIN scenario[p].files
    THEN scenario[p].files[config[p].filepath] ELSE <<>>

\* Whether a fill encrypts anything, a bucket of dummies at least.  Random data, when
\* no file is given, are never empty.
Encrypts(p) ==
    \/ config[p].oram_type # "kLinearOram"
    \/ config[p].filepath = "" \/ ReadDataFromFile(p) # <<>>

\* Encrypt asserts that a key is set up.  The Partition ORAM has no Path ORAM.
FillEnds(c) ==
    LET p == ProcessOf[c] IN
    /\ Idle(c) /\ object[c] # "none"
    /\ \/ config[p].oram_type = "kPartitionOram" /\ End(p, "front")
       \/ /\ config[p].oram_type # "kPartitionOram"
          /\ Encrypts(p) /\ ~cryptor[p].setup /\ End(p, "key")
    /\ UNCHANGED <<taken, cryptor, busy, fresh, faults>>
    /\ UNCHANGED <<parse_vars, server_vars, data_vars>>

\* Blocks of the Linear ORAM replace those that were there; the server appends those of
\* the others.
KeysOf(c) ==
    LET p == ProcessOf[c]
        new == IF Encrypts(p) THEN {cryptor[p].rx} ELSE {} IN
    IF config[p].oram_type = "kLinearOram" THEN new ELSE sealed[c] \cup new

\* A fill, the first or another one.  When it fails the Path ORAM aborts; the others
\* return an error, and the Linear ORAM counts as filled all the same.
FillWithData(c, outcome) ==
    LET p == ProcessOf[c]
        type == config[p].oram_type IN
    /\ Idle(c) /\ object[c] # "none" /\ type \in RpcTypes
    /\ cryptor[p].setup \/ ~Encrypts(p)
    /\ Rpc(outcome)
    /\ object' = IF outcome = "answered" \/ type = "kLinearOram"
                 THEN [object EXCEPT ![c] = "filled"] ELSE object
    /\ sealed' = IF outcome = "request_lost" THEN sealed
                 ELSE [sealed EXCEPT ![c] = KeysOf(c)]
    /\ \/ outcome # "answered" /\ type = "kPathOram" /\ End(p, "fill")
       \/ ~(outcome # "answered" /\ type = "kPathOram") /\ UNCHANGED <<stage, cause>>
    /\ UNCHANGED <<ruined, readied, taken, cryptor, busy, fresh>>
    /\ UNCHANGED <<parse_vars, server_vars>>

Access(c) ==
    LET p == ProcessOf[c] IN
    /\ Idle(c) /\ object[c] = "filled"
    /\ ruined' = [ruined EXCEPT ![c] = @ \/ ~(sealed[c] \subseteq {cryptor[p].rx})]
    /\ UNCHANGED <<stage, cause, object, sealed, readied, taken, cryptor, busy, fresh, faults>>
    /\ UNCHANGED <<parse_vars, server_vars>>

\* main returns, or the process is killed.
Leave(p) ==
    /\ stage[p] = "running"
    /\ End(p, "left")
    /\ busy' = [busy EXCEPT ![p] = None]
    /\ UNCHANGED <<taken, cryptor, fresh, faults>>
    /\ UNCHANGED <<parse_vars, server_vars, data_vars>>

\* The program is started again.  The server still has its storages.
Restart(p) ==
    /\ stage[p] = "ended" /\ starts[p] < MaxStarts
    /\ starts' = [starts EXCEPT ![p] = @ + 1]
    /\ stage' = [stage EXCEPT ![p] = "start"]
    /\ cause' = [cause EXCEPT ![p] = "none"]
    /\ config' = [config EXCEPT ![p] = default_config]
    /\ entry' = [entry EXCEPT ![p] = 1]
    /\ taken' = [taken EXCEPT ![p] = FALSE]
    /\ cryptor' = [cryptor EXCEPT ![p] = Blank]
    /\ object' = [c \in Client |-> IF c \in Clients(p) THEN "none" ELSE object[c]]
    /\ sealed' = [c \in Client |-> IF c \in Clients(p) THEN {} ELSE sealed[c]]
    /\ ruined' = [c \in Client |-> c \notin Clients(p) /\ ruined[c]]
    /\ readied' = readied \ Clients(p)
    /\ UNCHANGED <<scenario, busy, server_vars, fresh, faults>>

-------------------------------------------------------------------------------
Startup == \E p \in Process : ReadConfig(p) \/ ParseEntry(p)

Negotiation ==
    \E c \in Client :
        \/ ServerSampleKeyPair(c) \/ ServerSampleSessionKey(c) \/ ServerAnswers(c)
        \/ Negotiated(c) \/ HandlerEnds(c)

Call ==
    \/ \E c \in Client :
        \/ \E outcome \in Outcomes :
              Construct(c, outcome) \/ KeyNegotiate(c, outcome) \/ FillWithData(c, outcome)
        \/ ConstructOther(c) \/ ReadyAlone(c) \/ NegotiationFails(c)
        \/ FillEnds(c) \/ Access(c)
    \/ \E p \in Process : Leave(p) \/ Restart(p)

Next == Startup \/ Negotiation \/ Call

Spec == Init /\ [][Next]_vars

\* A process that starts goes on, and so do the threads of the server.
FairSpec == Spec /\ WF_vars(Startup) /\ WF_vars(Negotiation)

-------------------------------------------------------------------------------
(* Properties. *)

Keys == {NoKey} \cup ({"ephemeral", "mixed"} \X (1..MaxKeys))
                \cup ({"to client", "to server"} \X (1..MaxKeys) \X (1..MaxKeys))
Cryptor == [setup : BOOLEAN, pk : 0..MaxKeys, rx : Keys, tx : Keys]

\* Every variable has its type.
TypeOK ==
    /\ stage \in [Process -> {"start", "parsing", "running", "ended"}]
    /\ DOMAIN config = Process
    /\ \A p \in Process : DOMAIN config[p] = DOMAIN default_config
    /\ entry \in [Process -> Nat]
    /\ cause \in [Process -> {"none", "exception", "entry", "InitOram", "null", "type",
                              "size", "key", "fill", "front", "left"}]
    /\ taken \in [Process -> BOOLEAN]
    /\ cryptor \in [Process -> Cryptor] /\ service \in Cryptor
    /\ busy \in [Process -> Client \cup {None}]
    /\ object \in [Client -> {"none", "made", "filled"}]
    /\ sealed \in [Client -> SUBSET Keys]
    /\ ruined \in [Client -> BOOLEAN]
    /\ storages \subseteq {id \in Ids : id < kMaximumOramStorageNum}
    /\ handler \in [Client -> [at : {"none", "sample", "session", "answer", "done"},
                               pk : 0..MaxKeys, reply : 0..MaxKeys,
                               alone : BOOLEAN]]
    /\ fresh \in 0..MaxKeys /\ faults \in 0..MaxFaults
    /\ starts \in [Process -> 1..MaxStarts]
    /\ readied \subseteq Client

\* A negotiation that no other KeyExchange handler overlapped, one of a client that
\* has given up included, leaves client and server with the same two keys, each for
\* the other direction.
KeysAgree ==
    [][\A c \in Client :
           LET p == ProcessOf[c] IN
           busy[p] = c /\ busy'[p] = None /\ cryptor'[p] # cryptor[p] /\ handler[c].alone
               => cryptor'[p].rx = service.tx /\ cryptor'[p].tx = service.rx]_vars

\* The key that seals a client's blocks is never in the hands of another process,
\* nor is the key it reads with, even when handlers overlap.
KeysApart ==
    \A p, q \in Process :
        p # q /\ cryptor[p].rx # NoKey => cryptor[p].rx # cryptor[q].rx

\* The blocks of a client are destroyed only after somebody in its process has
\* called Ready again: neither a failed negotiation, nor a fill that is repeated or
\* fails, nor another client that is made, filled or used does it.
RuinJustified == \A c \in Client : ruined[c] => c \in readied

\* Keys are kept apart, and kept as long as blocks are sealed with them.
KeysKept == KeysApart /\ RuinJustified

\* What the files and the flags ask for, said without the parser.
FileIsRead(p) == Parse(scenario[p]) = "reads"
FlagsCount(p) == Parse(scenario[p]) = "kFileNotFound"
GivenId(p) ==
    IF FlagsCount(p) /\ "id" \in DOMAIN scenario[p].flags THEN scenario[p].flags.id ELSE 0
OtherCertificate(p) ==
    \/ FlagsCount(p) /\ "crt_path" \in DOMAIN scenario[p].flags
    \/ FileIsRead(p) /\ \E e \in ToSet(Entries(scenario[p])) :
          e.key = "Id" \/ (e.key = "ServerCrtPath" /\ e.val # "server.crt")

\* The values that the files or the flags give a key, or its default.
GivenFor(p, key, flag, default) ==
    LET entries == IF FileIsRead(p) THEN ToSet(Entries(scenario[p])) ELSE {}
        values == {e.val : e \in {x \in entries : x.key = key}} IN
    IF FlagsCount(p) /\ flag \in DOMAIN scenario[p].flags THEN {scenario[p].flags[flag]}
    ELSE IF values = {} THEN {default} ELSE values

GivenTypes(p) == GivenFor(p, "OramType", "oram_type", "PathOram")
GivenSizes(p) == GivenFor(p, "BlockNum", "block_num", default_config.block_num)

\* A process ends in the constructor only for a reason in what it was given: another
\* certificate, which an Id in the file is; an RPC that failed; an id that is too large,
\* or that a client of this or of another process, or this process before its restart,
\* has taken; with the Partition ORAM, a client before this one; with the Square Root
\* ORAM, a size that does not fit.  A fill aborts only after an RPC that failed.
EndJustified ==
    \A p \in Process :
        /\ cause[p] = "InitOram" =>
              \/ OtherCertificate(p) \/ faults > 0 \/ starts[p] > 1
              \/ GivenId(p) >= kMaximumOramStorageNum
              \/ \E c \in Clients(p) : object[c] # "none"
              \/ \E q \in Process \ {p} : GivenId(q) = GivenId(p)
        /\ cause[p] = "null" => \E c \in Clients(p) : object[c] = "made"
        /\ cause[p] = "size" =>
              /\ "SquareRootOram" \in GivenTypes(p)
              /\ \E m \in GivenSizes(p) : ~FitsCipher(m)
        /\ cause[p] = "fill" => faults > 0
        /\ cause[p] = "entry" => FileIsRead(p)

\* How a start ends is decided by the files, the flags and the clients before it.
StartJustified == TypeOK /\ EndJustified

\* Every start ends in a process that runs or one that has ended, and every key
\* exchange that has reached the server in an answer or an error.
StartupEnds ==
    /\ \A p \in Process : []<>(stage[p] \in {"running", "ended"})
    /\ \A c \in Client : handler[c].at \in {"session", "answer"} ~> handler[c] = Quiet
===============================================================================
