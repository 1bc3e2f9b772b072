------------------------------- MODULE Messages -------------------------------
(***************************************************************************)
(* How a request or an answer gets from one side to the other.  One        *)
(* behaviour is one message: the sender sets fields, the library asks for  *)
(* the size and lets the message write itself, and the receiver parses,    *)
(* one step per tag.  The receiver may have been built from an earlier     *)
(* protocol that had fewer fields, the body may be there twice, and a body *)
(* that is cut short may be handed to the parser.                          *)
(***************************************************************************)
EXTENDS OramProtocol

CONSTANTS
    MaxSets,         \* bound: calls that set a field
    MaxCut,          \* bound: length of a body that is cut
    Numbers,         \* what a number is set to
    Payloads,        \* what bytes are set to
    Versions         \* the highest field number that a receiver may know

LastNumber == 6

ASSUME MessagesAssumption ==
    /\ MaxSets \in Nat /\ MaxCut \in Nat
    /\ Numbers \subseteq Nat /\ Versions \subseteq 0..LastNumber

VARIABLES
    method, leg,     \* the RPC, and whether it is the request or the response
    version,         \* of the receiver
    twice,
    pc,
    sent, sets,      \* the sender's object, and the calls that have set it
    size,            \* what ByteSizeLong has computed
    wire, ptr,
    frames,          \* the message being parsed, and the header inside of it
    damaged

vars == <<method, leg, version, twice, pc, sent, sets, size, wire, ptr, frames, damaged>>
choice == <<method, leg, version, twice>>

\* The fields that a version knows, and a new object with them.
Known(kind, v) == SelectSeq(Codec[kind], LAMBDA f : f.number <= v)
New(kind, v) ==
    [name \in {f.name : f \in ToSet(Known(kind, v))} \cup {"unknown"} |->
        IF name = "unknown" THEN <<>> ELSE Object[kind][name]]

\* The server looks the handler up by the name that the stub has sent.
Registered == Service[Stub[method].index + 1]
Sender == IF leg = "request" THEN Stub[method].request ELSE Registered.response
Receiver == IF leg = "request" THEN Registered.request ELSE Stub[method].response

Init ==
    /\ method \in DOMAIN Stub /\ leg \in {"request", "response"}
    /\ Stub[method].index + 1 \in DOMAIN Service
    /\ version \in Versions /\ twice \in BOOLEAN
    /\ pc = "build" /\ sets = 0 /\ sent = New(Sender, LastNumber)
    /\ size = [total |-> 0, header |-> 0]
    /\ wire = <<>> /\ ptr = 1 /\ frames = <<>> /\ damaged = FALSE

-------------------------------------------------------------------------------
(* The sender. *)

\* What set_ and add_ make of a field.
NewValues(f, old) ==
    CASE f.kind = "bytes" -> Payloads
      [] f.kind \in {"uint32", "optional"} -> Numbers
      [] f.kind = "bool" -> BOOLEAN
      [] f.kind = "repeated" -> {Append(old, p) : p \in Payloads \cup {<<>>}}
      [] f.kind = "packed" -> {Append(old, n) : n \in Numbers}

Building == pc = "build" /\ sets < MaxSets /\ sets' = sets + 1

SetField(f) ==
    /\ Building /\ f.kind # "message"
    /\ \E v \in NewValues(f, sent[f.name]) : sent' = [sent EXCEPT ![f.name] = v]
    /\ UNCHANGED <<choice, pc, size, wire, ptr, frames, damaged>>

\* ASSEMBLE_HEADER: every header has an instance hash and a version.
AssembleHeader(id, hash, ver) ==
    /\ Building /\ "header" \in DOMAIN sent
    /\ sent' = [sent EXCEPT !.header =
                   [New("RequestHeader", LastNumber) EXCEPT
                       !.id = id, !.instance_hash = hash, !.version = ver]]
    /\ UNCHANGED <<choice, pc, size, wire, ptr, frames, damaged>>

HeaderCodec(v) == Known("RequestHeader", v)

HeaderSize(m, v) ==
    IF "header" \notin DOMAIN m \/ m.header = Absent THEN 0
    ELSE PlainSize(HeaderCodec(v), m.header)

\* The sizes of the message and of its header are kept until they are written.
ComputeSize ==
    /\ pc = "build"
    /\ size' = [total |-> ByteSizeLong(Codec[Sender], HeaderCodec(LastNumber), sent),
                header |-> HeaderSize(sent, LastNumber)]
    /\ pc' = "sized"
    /\ UNCHANGED <<choice, sent, sets, wire, ptr, frames, damaged>>

Serialize ==
    /\ pc = "sized"
    /\ \E body \in {InternalSerialize(Codec[Sender], HeaderCodec(LastNumber), sent,
                                      size.header)} :
          wire' = IF twice THEN body \o body ELSE body
    /\ pc' = "written"
    /\ UNCHANGED <<choice, sent, sets, size, ptr, frames, damaged>>

\* The body is cut short before it comes to the parser.
Cut(n) ==
    /\ pc = "written" /\ ~twice /\ ~damaged /\ n < Len(wire)
    /\ wire' = SubSeq(wire, 1, n) /\ damaged' = TRUE
    /\ UNCHANGED <<choice, pc, sent, sets, size, ptr, frames>>

-------------------------------------------------------------------------------
(* The receiver. *)

Top == frames[Len(frames)]
Put(m) == frames' = [frames EXCEPT ![Len(frames)].m = m]
Fail == pc' = "failed" /\ UNCHANGED <<ptr, frames>>

\* Parsing begins with a cleared object.
BeginParse ==
    /\ pc = "written"
    /\ frames' = <<[kind |-> Receiver, m |-> New(Receiver, version), end |-> Len(wire)]>>
    /\ pc' = "parse" /\ ptr' = 1
    /\ UNCHANGED <<choice, sent, sets, size, wire, damaged>>

\* The case of the switch: a field with this tag; numbers that are packed may also
\* come one by one.
Matching(tag) ==
    {f \in ToSet(Known(Top.kind, version)) :
        Tag(f) = tag \/ (f.kind = "packed" /\ tag = f.number * 8)}

\* A field without a case is kept as it came.
Unknown(m, last) == [m EXCEPT !.unknown = @ \o SubSeq(wire, ptr, last)]

\* A number follows the tag, if it is complete.
ParseNumber ==
    /\ pc = "parse" /\ ptr <= Top.end /\ wire[ptr] % 8 = 0
    /\ \E ends \in {VarintEnds(wire, ptr + 1, Top.end)} :
          \/ ends = {} /\ Fail
          \/ \E last \in ends, fields \in {Matching(wire[ptr])} :
                /\ ptr' = last + 1 /\ UNCHANGED pc
                /\ \/ fields = {} /\ Put(Unknown(Top.m, last))
                   \/ \E f \in fields : Put(WithNumber(f, Top.m, VarintAt(wire, ptr + 1, last)))
    /\ UNCHANGED <<choice, sent, sets, size, wire, damaged>>

\* Bytes follow, with their length before them; or the header, which is parsed into
\* the one that is there already.
ParseBytes ==
    /\ pc = "parse" /\ ptr <= Top.end /\ wire[ptr] % 8 = 2
    /\ \E ends \in {VarintEnds(wire, ptr + 1, Top.end)} :
          \/ ends = {} /\ Fail
          \/ \E last \in ends : \E stop \in {last + VarintAt(wire, ptr + 1, last)} :
              \E fields \in {Matching(wire[ptr])} :
                \/ stop > Top.end /\ Fail
                \/ /\ stop <= Top.end /\ fields = {}
                   /\ ptr' = stop + 1 /\ Put(Unknown(Top.m, stop)) /\ UNCHANGED pc
                \/ \E f \in fields :
                   /\ stop <= Top.end /\ f.kind # "message"
                   /\ ptr' = stop + 1 /\ Put(WithBytes(f, Top.m, SubSeq(wire, last + 1, stop)))
                   /\ UNCHANGED pc
                \/ \E f \in fields :
                   /\ stop <= Top.end /\ f.kind = "message"
                   /\ ptr' = last + 1 /\ UNCHANGED pc
                   /\ frames' = Append(frames,
                         [kind |-> "RequestHeader", end |-> stop,
                          m |-> IF Top.m.header = Absent THEN New("RequestHeader", version)
                                ELSE Top.m.header])
    /\ UNCHANGED <<choice, sent, sets, size, wire, damaged>>

\* The end of the header, and of the message.
EndHeader ==
    /\ pc = "parse" /\ ptr > Top.end /\ Len(frames) = 2
    /\ frames' = <<[frames[1] EXCEPT !.m.header = Top.m]>>
    /\ UNCHANGED <<choice, pc, sent, sets, size, wire, ptr, damaged>>

EndParse ==
    /\ pc = "parse" /\ ptr > Top.end /\ Len(frames) = 1
    /\ pc' = "done"
    /\ UNCHANGED <<choice, sent, sets, size, wire, ptr, frames, damaged>>

-------------------------------------------------------------------------------
Next ==
    \/ \E f \in ToSet(Codec[Sender]) : SetField(f)
    \/ \E id \in Numbers, hash, ver \in Payloads : AssembleHeader(id, hash, ver)
    \/ ComputeSize \/ Serialize \/ \E n \in 0..MaxCut : Cut(n)
    \/ BeginParse \/ ParseNumber \/ ParseBytes \/ EndHeader \/ EndParse

Spec == Init /\ [][Next]_vars

-------------------------------------------------------------------------------
(* Properties. *)

\* Every variable has its type; the parser stays inside of the body and of the header.
TypeOK ==
    /\ method \in DOMAIN Stub /\ leg \in {"request", "response"}
    /\ pc \in {"build", "sized", "written", "parse", "done", "failed"}
    /\ sets \in 0..MaxSets /\ damaged \in BOOLEAN
    /\ \A k \in DOMAIN wire : wire[k] \in 0..255
    /\ \A k \in DOMAIN frames : frames[k].end <= Len(wire) /\ ptr <= frames[k].end + 1
    /\ Len(frames) <= 2

Received == frames[1].m

\* What the receiver has is written again.
Rewritten ==
    InternalSerialize(Known(Receiver, version), HeaderCodec(version), Received,
                      HeaderSize(Received, version))

\* The handler that was meant gets the message with every field that was set, zeros
\* that were set in optional fields and empty elements included; a body that is there
\* twice is the message merged with itself.
Delivered ==
    pc = "done" /\ ~damaged /\ version = LastNumber =>
        /\ Registered.name = method /\ Receiver = Sender
        /\ Received = IF twice
                      THEN MergeFrom(Codec[Sender], HeaderCodec(LastNumber), sent, sent)
                      ELSE sent

\* The size that was asked for before is the size that is written; a body is refused
\* only if it was cut; and whatever is accepted, by a receiver of any version or of a
\* body cut between two fields, loses nothing: written again it is the same bytes.
WireSound ==
    /\ TypeOK
    /\ pc = "written" /\ ~damaged => Len(wire) = (IF twice THEN 2 ELSE 1) * size.total
    /\ pc = "failed" => damaged
    /\ pc = "done" /\ ~twice => Rewritten = wire
===============================================================================
