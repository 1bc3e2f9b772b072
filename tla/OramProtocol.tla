----------------------------- MODULE OramProtocol -----------------------------
(***************************************************************************)
(* The messages of the protocol (protos/messages.proto, through the        *)
(* generated messages.pb.h and messages.pb.cc) and the table of its RPCs   *)
(* (messages.grpc.pb.cc).                                                  *)
(***************************************************************************)
EXTENDS ProtoWire

-------------------------------------------------------------------------------
(* What the accessors of a new object return (messages.pb.h). *)

RequestHeader == [instance_hash |-> <<>>, version |-> <<>>, id |-> 0]
PrintOramTreeRequest == [id |-> 0]
HelloMessage == [content |-> <<>>, iv |-> <<>>]
KeyExchangeRequest == [public_key_client |-> <<>>]
KeyExchangeResponse == [public_key_server |-> <<>>]
InitFlatOramRequest == [header |-> Absent, capacity |-> 0, block_size |-> 0]
InitSqrtOramRequest ==
    [header |-> Absent, capacity |-> 0, squared_m |-> 0, block_size |-> 0]
LoadSqrtOramRequest == [header |-> Absent, contents |-> <<>>]
FlatVectorMessage == [header |-> Absent, content |-> <<>>]
SqrtMessage == [header |-> Absent, content |-> <<>>]
WriteSqrtMessage ==
    [header |-> Absent, content |-> <<>>, write_to_cache |-> FALSE, pos |-> 0]
SqrtPermMessage == [header |-> Absent, perms |-> <<>>]
InitTreeOramRequest ==
    [header |-> Absent, bucket_size |-> 0, bucket_num |-> 0, block_size |-> 0]
ReadFlatRequest == [header |-> Absent]
ReadSqrtRequest == [header |-> Absent, tag |-> 0, read_from |-> 0]
ReadPathRequest == [header |-> Absent, path |-> 0, level |-> 0]
ReadPathResponse == [bucket |-> <<>>]
WritePathRequest ==
    [header |-> Absent, path |-> 0, level |-> 0, bucket |-> <<>>, type |-> Absent,
     offset |-> Absent]
WritePathResponse == [field \in {} |-> 0]

\* google.protobuf.Empty is external, and like WritePathResponse.
Object ==
    [RequestHeader |-> RequestHeader, PrintOramTreeRequest |-> PrintOramTreeRequest,
     HelloMessage |-> HelloMessage, KeyExchangeRequest |-> KeyExchangeRequest,
     KeyExchangeResponse |-> KeyExchangeResponse,
     InitFlatOramRequest |-> InitFlatOramRequest,
     InitSqrtOramRequest |-> InitSqrtOramRequest,
     LoadSqrtOramRequest |-> LoadSqrtOramRequest,
     FlatVectorMessage |-> FlatVectorMessage, SqrtMessage |-> SqrtMessage,
     WriteSqrtMessage |-> WriteSqrtMessage, SqrtPermMessage |-> SqrtPermMessage,
     InitTreeOramRequest |-> InitTreeOramRequest, ReadFlatRequest |-> ReadFlatRequest,
     ReadSqrtRequest |-> ReadSqrtRequest, ReadPathRequest |-> ReadPathRequest,
     ReadPathResponse |-> ReadPathResponse, WritePathRequest |-> WritePathRequest,
     WritePathResponse |-> WritePathResponse, Empty |-> WritePathResponse]

-------------------------------------------------------------------------------
(* How each is written, read, measured and merged (messages.pb.cc). *)

RequestHeaderCodec ==
    <<F(1, "instance_hash", "bytes"), F(2, "version", "bytes"), F(3, "id", "uint32")>>
PrintOramTreeRequestCodec == <<F(1, "id", "uint32")>>
HelloMessageCodec == <<F(1, "content", "bytes"), F(2, "iv", "bytes")>>
KeyExchangeRequestCodec == <<F(1, "public_key_client", "bytes")>>
KeyExchangeResponseCodec == <<F(1, "public_key_server", "bytes")>>
InitFlatOramRequestCodec ==
    <<F(1, "header", "message"), F(2, "capacity", "uint32"),
      F(3, "block_size", "uint32")>>
InitSqrtOramRequestCodec ==
    <<F(1, "header", "message"), F(2, "capacity", "uint32"),
      F(3, "squared_m", "uint32"), F(4, "block_size", "uint32")>>
LoadSqrtOramRequestCodec == <<F(1, "header", "message"), F(2, "contents", "repeated")>>
FlatVectorMessageCodec == <<F(1, "header", "message"), F(2, "content", "bytes")>>
SqrtMessageCodec == <<F(1, "header", "message"), F(2, "content", "bytes")>>
WriteSqrtMessageCodec ==
    <<F(1, "header", "message"), F(2, "content", "bytes"),
      F(3, "write_to_cache", "bool"), F(4, "pos", "uint32")>>
SqrtPermMessageCodec == <<F(1, "header", "message"), F(2, "perms", "packed")>>
InitTreeOramRequestCodec ==
    <<F(1, "header", "message"), F(2, "bucket_size", "uint32"),
      F(3, "bucket_num", "uint32"), F(4, "block_size", "uint32")>>
ReadFlatRequestCodec == <<F(1, "header", "message")>>
ReadSqrtRequestCodec ==
    <<F(1, "header", "message"), F(2, "tag", "uint32"), F(3, "read_from", "uint32")>>
ReadPathRequestCodec ==
    <<F(1, "header", "message"), F(2, "path", "uint32"), F(3, "level", "uint32")>>
ReadPathResponseCodec == <<F(1, "bucket", "repeated")>>
WritePathRequestCodec ==
    <<F(1, "header", "message"), F(2, "path", "uint32"), F(3, "level", "uint32"),
      F(4, "bucket", "repeated"), F(5, "type", "optional"), F(6, "offset", "optional")>>
WritePathResponseCodec == <<>>

Codec ==
    [RequestHeader |-> RequestHeaderCodec,
     PrintOramTreeRequest |-> PrintOramTreeRequestCodec,
     HelloMessage |-> HelloMessageCodec,
     KeyExchangeRequest |-> KeyExchangeRequestCodec,
     KeyExchangeResponse |-> KeyExchangeResponseCodec,
     InitFlatOramRequest |-> InitFlatOramRequestCodec,
     InitSqrtOramRequest |-> InitSqrtOramRequestCodec,
     LoadSqrtOramRequest |-> LoadSqrtOramRequestCodec,
     FlatVectorMessage |-> FlatVectorMessageCodec, SqrtMessage |-> SqrtMessageCodec,
     WriteSqrtMessage |-> WriteSqrtMessageCodec,
     SqrtPermMessage |-> SqrtPermMessageCodec,
     InitTreeOramRequest |-> InitTreeOramRequestCodec,
     ReadFlatRequest |-> ReadFlatRequestCodec,
     ReadSqrtRequest |-> ReadSqrtRequestCodec,
     ReadPathRequest |-> ReadPathRequestCodec,
     ReadPathResponse |-> ReadPathResponseCodec,
     WritePathRequest |-> WritePathRequestCodec,
     WritePathResponse |-> WritePathResponseCodec, Empty |-> WritePathResponseCodec]

-------------------------------------------------------------------------------
(* The RPCs (messages.grpc.pb.cc). *)

oram_server_method_names ==
    <<"InitTreeOram", "InitFlatOram", "InitSqrtOram", "LoadSqrtOram", "PrintOramTree",
      "ReadPath", "WritePath", "ReadFlatMemory", "WriteFlatMemory", "ReadSqrtMemory",
      "WriteSqrtMemory", "SqrtPermute", "CloseConnection", "KeyExchange", "SendHello",
      "ReportServerInformation", "ResetServer">>

\* The methods of the stub: the index of the name they call, and their types.
Rpc(index, request, response) ==
    [index |-> index, request |-> request, response |-> response]

Stub ==
    [InitTreeOram |-> Rpc(0, "InitTreeOramRequest", "Empty"),
     InitFlatOram |-> Rpc(1, "InitFlatOramRequest", "Empty"),
     InitSqrtOram |-> Rpc(2, "InitSqrtOramRequest", "Empty"),
     LoadSqrtOram |-> Rpc(3, "LoadSqrtOramRequest", "Empty"),
     PrintOramTree |-> Rpc(4, "PrintOramTreeRequest", "Empty"),
     ReadPath |-> Rpc(5, "ReadPathRequest", "ReadPathResponse"),
     WritePath |-> Rpc(6, "WritePathRequest", "WritePathResponse"),
     ReadFlatMemory |-> Rpc(7, "ReadFlatRequest", "FlatVectorMessage"),
     WriteFlatMemory |-> Rpc(8, "FlatVectorMessage", "Empty"),
     ReadSqrtMemory |-> Rpc(9, "ReadSqrtRequest", "SqrtMessage"),
     WriteSqrtMemory |-> Rpc(10, "WriteSqrtMessage", "Empty"),
     SqrtPermute |-> Rpc(11, "SqrtPermMessage", "Empty"),
     CloseConnection |-> Rpc(12, "Empty", "Empty"),
     KeyExchange |-> Rpc(13, "KeyExchangeRequest", "KeyExchangeResponse"),
     SendHello |-> Rpc(14, "HelloMessage", "Empty"),
     ReportServerInformation |-> Rpc(15, "Empty", "Empty"),
     ResetServer |-> Rpc(16, "Empty", "Empty")]

\* What the service has registered under each name: the handler it calls, and the
\* types it is called with.
Handler(name, request, response) ==
    [name |-> name, request |-> request, response |-> response]

\* Mutant of Service: two handlers are registered in the wrong order.
ServiceSwapped ==
    <<Handler("InitTreeOram", "InitTreeOramRequest", "Empty"),
      Handler("InitSqrtOram", "InitSqrtOramRequest", "Empty"),
      Handler("InitFlatOram", "InitFlatOramRequest", "Empty")>>

Service ==
    <<Handler("InitTreeOram", "InitTreeOramRequest", "Empty"),
      Handler("InitFlatOram", "InitFlatOramRequest", "Empty"),
      Handler("InitSqrtOram", "InitSqrtOramRequest", "Empty"),
      Handler("LoadSqrtOram", "LoadSqrtOramRequest", "Empty"),
      Handler("PrintOramTree", "PrintOramTreeRequest", "Empty"),
      Handler("ReadPath", "ReadPathRequest", "ReadPathResponse"),
      Handler("WritePath", "WritePathRequest", "WritePathResponse"),
      Handler("ReadFlatMemory", "ReadFlatRequest", "FlatVectorMessage"),
      Handler("WriteFlatMemory", "FlatVectorMessage", "Empty"),
      Handler("ReadSqrtMemory", "ReadSqrtRequest", "SqrtMessage"),
      Handler("WriteSqrtMemory", "WriteSqrtMessage", "Empty"),
      Handler("SqrtPermute", "SqrtPermMessage", "Empty"),
      Handler("CloseConnection", "Empty", "Empty"),
      Handler("KeyExchange", "KeyExchangeRequest", "KeyExchangeResponse"),
      Handler("SendHello", "HelloMessage", "Empty"),
      Handler("ReportServerInformation", "Empty", "Empty"),
      Handler("ResetServer", "Empty", "Empty")>>
===============================================================================
