------------------------------ MODULE Protobuf ------------------------------
(***************************************************************************)
(* The bundled Protobuf codec (utils/blackboxprotobuf) and the gRPC         *)
(* framing around it (platform/protobuf.py): a byte string is decoded       *)
(* without a schema, and the definition the decoder infers is what encodes  *)
(* the message again.  Pure functions, checked over bounded inputs.         *)
(*                                                                         *)
(* Numbers are scaled, their shape is kept: a varint digit has 7 bits, a    *)
(* word has WordBits bits (64 in the code: whole digits and one bit more),  *)
(* the fixed types have Fixed32 and Fixed64 bytes.  A result is a record    *)
(* with "err": "" is success, "decoder" a DecoderException, "key" a         *)
(* KeyError, "backwards" a field whose negative length moves the cursor     *)
(* back, from where the code's loop is not followed.                        *)
(***************************************************************************)
EXTENDS Integers, Sequences, SequencesExt, FiniteSets

CONSTANTS
  WordBits,   \* bits of a varint value (64 in the code)
  Fixed32,    \* bytes of a fixed32 field (4 in the code)
  Fixed64,    \* bytes of a fixed64 field (8 in the code)
  Inputs,     \* the byte strings to decode
  LengthBytes,  \* bytes of a gRPC message length (4 in the code)
  Calls     \* the sequences of payloads to frame

ASSUME WidthAssumption == WordBits % 7 = 1 /\ WordBits \in 8..29

(* decode_string's UTF-8 check is "no byte over 127": exact while no input
   holds a byte that can open a longer sequence. *)
ASSUME TextAssumption ==
  \A b \in Inputs : \A i \in DOMAIN b : b[i] \in 0..255 \ (194..244)

Fails(err) == [err |-> err]

(* An exception leaves every caller that does not catch it. *)
AndThen(result, Continue(_)) == IF result.err # "" THEN result ELSE Continue(result)

Word == 2 ^ WordBits

Digits == WordBits \div 7 + 1

----------------------------------------------------------------------------
(* utils/wire.py: a decoder returns the value and the position after it;
   positions count from 0, so byte p of a buffer is b[p + 1]. *)

RECURSIVE Base128(_)
Base128(v) == IF v < 128 THEN <<v>> ELSE <<128 + (v % 128)>> \o Base128(v \div 128)

EncodeUvarint(v) ==
  IF v \in 0..Word - 1 THEN [err |-> "", out |-> Base128(v)] ELSE Fails("encoder")

(* The value of a run of digits, least significant first. *)
Little(b, base) ==
  FoldRight(LAMBDA d, acc : (d % base) + base * acc, b, 0)

CanonicalUvarint(run, last) ==
  IF Len(run) > Digits \/ EncodeUvarint(Little(run, 128)) # [err |-> "", out |-> run]
  THEN Fails("decoder")
  ELSE [err |-> "", val |-> Little(run, 128), pos |-> last]

DecodeUvarint(b, pos) ==
  LET ends == {p \in pos + 1..Len(b) : b[p] < 128}
  IN IF ends = {} THEN Fails("decoder")
     ELSE CanonicalUvarint(SubSeq(b, pos + 1, Min(ends)), Min(ends))

EncodeVarint(v) ==
  IF v \notin -(Word \div 2)..(Word \div 2 - 1) THEN Fails("encoder")
  ELSE EncodeUvarint(IF v < 0 THEN v + Word ELSE v)

DecodeVarint(b, pos) ==
  AndThen(DecodeUvarint(b, pos),
    LAMBDA u : [u EXCEPT !.val = IF @ >= Word \div 2 THEN @ - Word ELSE @])

EncodeZigZag(v) == IF v < 0 THEN (-v) * 2 - 1 ELSE v * 2

DecodeZigZag(v) == IF v % 2 = 1 THEN -((v + 1) \div 2) ELSE v \div 2

EncodeSvarint(v) ==
  IF v \notin -(Word \div 2)..(Word \div 2 - 1) THEN Fails("encoder")
  ELSE EncodeUvarint(EncodeZigZag(v))

DecodeSvarint(b, pos) ==
  AndThen(DecodeUvarint(b, pos), LAMBDA u : [u EXCEPT !.val = DecodeZigZag(@)])

EncodeBytes(bytes) == EncodeVarint(Len(bytes)).out \o bytes

(* Slicing never fails: a length past the end yields what is there. *)
DecodeBytes(b, pos) ==
  AndThen(DecodeVarint(b, pos),
    LAMBDA n : [err |-> "", val |-> SubSeq(b, n.pos + 1, n.pos + n.val),
                pos |-> n.pos + n.val])

DecodeString(b, pos) ==
  AndThen(DecodeBytes(b, pos),
    LAMBDA d : IF \A i \in DOMAIN d.val : d.val[i] < 128 THEN d ELSE Fails("decoder"))

EncodeTag(field, wire) == EncodeUvarint(field * 8 + wire)

DecodeTag(b, pos) ==
  AndThen(DecodeUvarint(b, pos),
    LAMBDA u : [err |-> "", field |-> u.val \div 8, wire |-> u.val % 8, pos |-> u.pos])

(* utils/fixed.py: unsigned little-endian, of exactly the type's bytes. *)
EncodeFixed(size, v) == [i \in 1..size |-> (v \div 256 ^ (i - 1)) % 256]

DecodeFixed(size, b, pos) ==
  IF pos + size > Len(b) THEN Fails("decoder")
  ELSE [err |-> "", val |-> Little(SubSeq(b, pos + 1, pos + size), 256),
        pos |-> pos + size]

----------------------------------------------------------------------------
(* schema/: the wire types and the codec of each field type.  A field's
   types are a sequence, alternative k at index k + 1; a type is a record
   whose "def" is the nested definition of a message. *)

VARINT == 0
FIXED64 == 1
LENGTH_DELIMITED == 2
FIXED32 == 5

Plain(kind) == [kind |-> kind, def |-> <<>>]

WireTypes(kind) ==
  CASE kind = "int" -> VARINT
    [] kind = "fixed32" -> FIXED32
    [] kind = "fixed64" -> FIXED64
    [] OTHER -> LENGTH_DELIMITED

DefaultType(wire) ==
  CASE wire = VARINT -> "int" [] wire = FIXED32 -> "fixed32" [] wire = FIXED64 -> "fixed64"

Decoders(kind, b) ==
  CASE kind = "int" -> DecodeVarint(b, 0)
    [] kind = "fixed32" -> DecodeFixed(Fixed32, b, 0)
    [] kind = "fixed64" -> DecodeFixed(Fixed64, b, 0)
    [] kind = "string" -> DecodeString(b, 0)
    [] kind = "bytes" -> DecodeBytes(b, 0)

(* TypeDef: one entry per field number, in the order the fields were added. *)
FieldAt(typedef, num) == SelectInSeq(typedef, LAMBDA f : f.num = num)

NewField(num) == [num |-> num, types |-> <<>>, order |-> <<>>, repeated |-> FALSE]

Fielddef(typedef, num) ==
  IF FieldAt(typedef, num) = 0 THEN NewField(num) ELSE typedef[FieldAt(typedef, num)]

SetFielddef(typedef, f) ==
  IF FieldAt(typedef, f.num) = 0 THEN Append(typedef, f)
  ELSE [typedef EXCEPT ![FieldAt(typedef, f.num)] = f]

(* A packed field: one length, then the values back to back. *)
PackedEncode(vals) ==
  EncodeBytes(FlattenSeq([i \in DOMAIN vals |-> EncodeVarint(vals[i]).out]))

RECURSIVE PackedValues(_, _, _, _)
PackedValues(b, pos, end, vals) ==
  IF pos >= end
  THEN IF pos > end THEN Fails("decoder") ELSE [err |-> "", val |-> vals, pos |-> pos]
  ELSE AndThen(DecodeVarint(b, pos),
         LAMBDA d : PackedValues(b, d.pos, end, Append(vals, d.val)))

PackedDecode(b, pos) ==
  AndThen(DecodeVarint(b, pos),
    LAMBDA n : PackedValues(b, n.pos, n.pos + n.val, <<>>))

----------------------------------------------------------------------------
(* length_delim.py, decoding *)

(* The bytes a field's value takes from pos on; -1 when they cannot be
   read, as for a group or an unknown wire type. *)
FieldLength(b, pos, wire) ==
  CASE wire = VARINT ->
         AndThen(DecodeUvarint(b, pos), LAMBDA u : [err |-> "", n |-> u.pos - pos])
    [] wire = FIXED32 -> [err |-> "", n |-> Fixed32]
    [] wire = FIXED64 -> [err |-> "", n |-> Fixed64]
    [] wire = LENGTH_DELIMITED ->
         AndThen(DecodeVarint(b, pos),
           LAMBDA u : [err |-> "", n |-> u.val + u.pos - pos])
    [] OTHER -> Fails("decoder")

AddBuffer(groups, num, wire, buf) ==
  LET g == SelectInSeq(groups, LAMBDA e : e.num = num)
  IN IF g = 0 THEN Append(groups, [num |-> num, wire |-> wire, bufs |-> <<buf>>])
     ELSE [groups EXCEPT ![g].bufs = Append(@, buf)]

RECURSIVE GroupByNumber(_, _, _, _, _)
GroupByNumber(b, pos, end, groups, order) ==
  IF pos >= end THEN [err |-> "", groups |-> groups, order |-> order]
  ELSE AndThen(DecodeTag(b, pos), LAMBDA tag :
         IF \E i \in DOMAIN groups : groups[i].num = tag.field /\ groups[i].wire # tag.wire
         THEN Fails("decoder")
         ELSE AndThen(FieldLength(b, tag.pos, tag.wire), LAMBDA len :
                CASE len.n < 0 -> Fails("backwards")
                  [] len.n >= 0 /\ tag.pos + len.n > end -> Fails("decoder")
                  [] OTHER -> GroupByNumber(b, tag.pos + len.n, end,
                                AddBuffer(groups, tag.field, tag.wire,
                                          SubSeq(b, tag.pos + 1, tag.pos + len.n)),
                                Append(order, tag.field))))

(* A message is a sequence of entries in insertion order, one for every
   field number and alternative; "list" tells a list from a single value. *)
AllDecoded(results) ==
  IF \E i \in DOMAIN results : results[i].err # "" THEN Fails("decoder")
  ELSE [err |-> "", vals |-> [i \in DOMAIN results |-> results[i].val]]

DecodeBuffers(kind, bufs) == AllDecoded([i \in DOMAIN bufs |-> Decoders(kind, bufs[i])])

(* _decode_standard_field: a type of the definition is looked up among the
   BASE wire types, which have no such name. *)
DecodeStandardField(wire, bufs, f) ==
  IF \E i \in DOMAIN f.types : f.types[i].kind # "message" THEN Fails("key")
  ELSE IF wire = LENGTH_DELIMITED THEN Fails("decoder")
  ELSE AndThen(DecodeBuffers(DefaultType(wire), bufs), LAMBDA d :
         [err |-> "",
          out |-> <<[num |-> f.num, alt |-> Len(f.types), vals |-> d.vals]>>,
          field |-> [f EXCEPT !.types = Append(@, Plain(DefaultType(wire))),
                              !.repeated = @ \/ Len(bufs) > 1]])

RECURSIVE DecodeMessage(_, _, _, _), TryMessages(_, _, _, _, _)

DecodeLendelim(b, typedef) ==
  AndThen(DecodeVarint(b, 0), LAMBDA n : DecodeMessage(b, typedef, n.pos, n.pos + n.val))

AddOutput(outs, num, alt, vals) ==
  LET k == SelectInSeq(outs, LAMBDA e : e.num = num /\ e.alt = alt)
  IN IF k = 0 THEN Append(outs, [num |-> num, alt |-> alt, vals |-> vals])
     ELSE [outs EXCEPT ![k].vals = @ \o vals]

(* The first message type that decodes the buffer, else no definition. *)
FirstDecoded(b, tried) ==
  LET known == {k \in DOMAIN tried : tried[k].err = ""}
  IN IF known = {}
     THEN AndThen(DecodeLendelim(b, <<>>), LAMBDA d : d @@ [at |-> Len(tried) + 1])
     ELSE tried[Min(known)] @@ [at |-> Min(known)]

TryTypes(b, types) ==
  FirstDecoded(b, [k \in DOMAIN types |-> IF types[k].kind = "message"
                                          THEN DecodeLendelim(b, types[k].def)
                                          ELSE Fails("decoder")])

SetType(types, at, type) ==
  IF at > Len(types) THEN Append(types, type) ELSE [types EXCEPT ![at] = type]

(* The message attempt of _try_decode_lendelim_fields: every buffer in turn
   against the message types known so far, then without a definition. *)
TryMessages(bufs, f, types, outs, order) ==
  IF bufs = <<>>
  THEN [err |-> "", out |-> outs,
        field |-> [f EXCEPT !.types = types, !.order = order,
                            !.repeated = @ \/ \E i \in DOMAIN outs : Len(outs[i].vals) > 1]]
  ELSE AndThen(TryTypes(Head(bufs), types), LAMBDA d :
         TryMessages(Tail(bufs), f,
           SetType(types, d.at, [kind |-> "message", def |-> d.typedef]),
           AddOutput(outs, f.num, d.at - 1, <<d.msg>>),
           IF Len(d.order) > Len(order) THEN d.order ELSE order))

PlainField(f, kind, vals) ==
  LET at == SelectInSeq(f.types, LAMBDA t : t.kind = kind)
  IN [err |-> "",
      out |-> <<[num |-> f.num, alt |-> IF at = 0 THEN Len(f.types) ELSE at - 1,
                 vals |-> vals]>>,
      field |-> IF at = 0 THEN [f EXCEPT !.types = Append(@, Plain(kind))] ELSE f]

(* Whatever is caught, the next attempt is made; going backwards is not. *)
OrElse(attempt, next) == IF attempt.err \in {"", "backwards"} THEN attempt ELSE next

(* The fallback: all the buffers as strings, else all as bytes. *)
AsPlain(kind, bufs, f) ==
  AndThen(DecodeBuffers(kind, bufs), LAMBDA d : PlainField(f, kind, d.vals))

TryDecodeLendelimFields(bufs, f) ==
  OrElse(TryMessages(bufs, f, f.types, <<>>, <<>>),
         OrElse(AsPlain("string", bufs, f), AsPlain("bytes", bufs, f)))

DecodeField(g, f) ==
  IF g.wire = LENGTH_DELIMITED /\ (f.types = <<>> \/ f.types[1].kind = "message")
  THEN TryDecodeLendelimFields(g.bufs, f)
  ELSE DecodeStandardField(g.wire, g.bufs, f)

(* _simplify_output: a value seen once is not a list. *)
Simplify(outs, f) ==
  [i \in DOMAIN outs |->
     outs[i] @@ [list |-> Len(outs[i].vals) # 1 \/ f.repeated]]

RECURSIVE DecodeGroups(_, _, _)
DecodeGroups(groups, typedef, msg) ==
  IF groups = <<>> THEN [err |-> "", msg |-> msg, typedef |-> typedef]
  ELSE LET g == Head(groups)
       IN AndThen(DecodeField(g, Fielddef(typedef, g.num)), LAMBDA d :
            DecodeGroups(Tail(groups), SetFielddef(typedef, d.field),
                         msg \o Simplify(d.out, d.field)))

DecodeMessage(b, typedef, pos, end) ==
  AndThen(GroupByNumber(b, pos, end, <<>>, <<>>), LAMBDA grouped :
    AndThen(DecodeGroups(grouped.groups, typedef, <<>>), LAMBDA d :
      d @@ [order |-> grouped.order]))

(* api.decode_message: from the start of the buffer, the order dropped. *)
Decode(b, typedef) == DecodeMessage(b, typedef, 0, Len(b))

----------------------------------------------------------------------------
(* length_delim.py, encoding *)

RECURSIVE EncodeMessage(_, _, _)

Encoders(type, order, v) ==
  CASE type.kind = "int" -> EncodeVarint(v).out
    [] type.kind = "fixed32" -> EncodeFixed(Fixed32, v)
    [] type.kind = "fixed64" -> EncodeFixed(Fixed64, v)
    [] type.kind \in {"string", "bytes"} -> EncodeBytes(v)
    [] type.kind = "message" -> EncodeBytes(EncodeMessage(v, type.def, order))

EncodeMessageField(typedef, e) ==
  LET f == Fielddef(typedef, e.num)
      type == f.types[e.alt + 1]
      tag == EncodeTag(e.num, WireTypes(type.kind)).out
  IN [i \in DOMAIN e.vals |-> tag \o Encoders(type, f.order, e.vals[i])]

(* The encoded values of every field number, the alternatives of a field
   one after the other. *)
RECURSIVE FieldOutputs(_, _, _)
FieldOutputs(msg, typedef, acc) ==
  IF msg = <<>> THEN acc
  ELSE FieldOutputs(Tail(msg), typedef,
         AddOutput(acc, Head(msg).num, 0, EncodeMessageField(typedef, Head(msg))))

(* Values in the recorded order, as far as that order matches them. *)
RECURSIVE InOrder(_, _, _)
InOrder(order, outs, done) ==
  LET k == IF order = <<>> THEN 0 ELSE SelectInSeq(outs, LAMBDA e : e.num = Head(order))
  IN IF k = 0 \/ (k # 0 /\ outs[k].vals = <<>>)
     THEN done \o FlattenSeq([i \in DOMAIN outs |-> FlattenSeq(outs[i].vals)])
     ELSE InOrder(Tail(order), [outs EXCEPT ![k].vals = Tail(@)],
                  done \o Head(outs[k].vals))

(* Mutant: the recorded order is ignored. *)
EncodeMessageUnordered(msg, typedef, order) ==
  InOrder(<<>>, FieldOutputs(msg, typedef, <<>>), <<>>)

EncodeMessage(msg, typedef, order) ==
  LET outs == FieldOutputs(msg, typedef, <<>>)
      count == Len(FlattenSeq([i \in DOMAIN outs |-> outs[i].vals]))
  IN InOrder(IF Len(order) = count THEN order ELSE <<>>, outs, <<>>)

(* api.encode_message has no order for the outermost fields. *)
Encode(msg, typedef) == EncodeMessage(msg, typedef, <<>>)
----------------------------------------------------------------------------
(* platform/protobuf.py: gRPC framing.  gzip is the library's: compressing
   is a reversible change of the payload. *)

Gzip(payload) == <<31>> \o payload

Gunzip(payload) == IF payload # <<>> /\ payload[1] = 31 THEN Tail(payload) ELSE <<>>

EncodeMessageLength(n) == Reverse(EncodeFixed(LengthBytes, n))

DecodeMessageLength(b) == Little(Reverse(b), 256)

GrpcEncode(payload, gz) ==
  LET body == IF gz THEN Gzip(payload) ELSE payload
  IN <<IF gz THEN 1 ELSE 0>> \o EncodeMessageLength(Len(body)) \o body

GrpcStreamEncode(payloads, gz) ==
  FlattenSeq([i \in DOMAIN payloads |-> GrpcEncode(payloads[i], gz)])

RECURSIVE GrpcDecode(_, _)

GrpcDecode(data, results) ==
  IF data = <<>> THEN [err |-> "", results |-> results]
  ELSE LET header == LengthBytes + 1
       IN IF Len(data) < header \/ data[1] \notin {0, 1} THEN Fails("value")
          ELSE LET n == DecodeMessageLength(SubSeq(data, 2, header))
                   body == SubSeq(data, header + 1, header + n)
               IN IF Len(data) - header < n THEN Fails("value")
                  ELSE GrpcDecode(SubSeq(data, header + n + 1, Len(data)),
                         Append(results, IF data[1] = 1 THEN Gunzip(body) ELSE body))

----------------------------------------------------------------------------
(* One use of the codec: a byte string is decoded without a definition, the
   message encoded with the definition inferred, and decoded once more. *)

VARIABLES
  input,    \* the byte string received
  decoded,  \* the result of decoding it
  output,   \* the bytes encoded again
  again,    \* the result of decoding those
  payloads,   \* payloads to frame
  framed    \* their frames, once encoded, possibly cut short

protobufVars == <<input, decoded, output, again, payloads, framed>>

None == Fails("none")

ProtobufInit ==
  /\ input \in Inputs
  /\ decoded = None /\ again = None /\ output = <<>>
  /\ payloads \in IF input = <<>> THEN Calls ELSE {<<>>}
  /\ framed = <<>>

DecodeInput ==
  /\ decoded = None
  /\ decoded' = Decode(input, <<>>)
  /\ UNCHANGED <<input, output, again, payloads, framed>>

EncodeAgain ==
  /\ decoded.err = "" /\ output = <<>> /\ decoded.msg # <<>>
  /\ output' = Encode(decoded.msg, decoded.typedef)
  /\ UNCHANGED <<input, decoded, again, payloads, framed>>

DecodeAgain ==
  /\ output # <<>> /\ again = None
  /\ again' = Decode(output, <<>>)
  /\ UNCHANGED <<input, decoded, output, payloads, framed>>

Frame(gz) ==
  /\ framed = <<>> /\ payloads # <<>>
  /\ framed' = GrpcStreamEncode(payloads, gz)
  /\ UNCHANGED <<input, decoded, output, again, payloads>>

(* The connection ends early: the last byte never arrives. *)
Cut ==
  /\ framed # <<>>
  /\ framed' = Front(framed)
  /\ UNCHANGED <<input, decoded, output, again, payloads>>

ProtobufNext ==
  \/ DecodeInput \/ EncodeAgain \/ DecodeAgain
  \/ \E gz \in BOOLEAN : Frame(gz)
  \/ Cut

ProtobufSpec == ProtobufInit /\ [][ProtobufNext]_protobufVars

----------------------------------------------------------------------------
(* Properties *)

(* A field number whose values do not follow each other is regrouped. *)
Contiguous(order) ==
  \A i, j, k \in DOMAIN order : i < j /\ j < k /\ order[i] = order[k] => order[j] = order[i]

Alone(msg) == \A i, j \in DOMAIN msg : msg[i].num = msg[j].num => i = j /\ ~msg[i].list

(* A message as the dictionary it is: entries by key, in no order. *)
RECURSIVE Dict(_, _)
Dict(msg, typedef) ==
  {LET type == Fielddef(typedef, msg[i].num).types[msg[i].alt + 1]
   IN <<msg[i].num, msg[i].alt, msg[i].list,
        [j \in DOMAIN msg[i].vals |->
           IF type.kind = "message" THEN Dict(msg[i].vals[j], type.def)
           ELSE msg[i].vals[j]]>> : i \in DOMAIN msg}

Exact(d, encoded) == d.err = "" => encoded = SubSeq(input, 1, d.pos)

(* A number is accepted in its one standard encoding only, signed, unsigned,
   zig-zag or packed: the re-encoding checks of the signed decoders find
   nothing that the unsigned one let through. *)
NumbersExact ==
  LET u == DecodeUvarint(input, 0)
      v == DecodeVarint(input, 0)
      z == DecodeSvarint(input, 0)
      p == PackedDecode(input, 0)
  IN /\ u.err = v.err /\ u.err = z.err
     /\ u.err = "" => /\ Exact(u, EncodeUvarint(u.val).out)
                      /\ Exact(v, EncodeVarint(v.val).out)
                      /\ Exact(z, EncodeSvarint(z.val).out)
     /\ p.err = "" => Exact(p, PackedEncode(p.val))

(* What is decoded can be encoded and decoded again without a value lost or
   changed (a different nesting or alternative would lose it), and comes back
   byte for byte when no field number is split or repeated. *)
RoundTrip ==
  /\ NumbersExact
  /\ again # None => 
       again.err = "" /\ Dict(again.msg, again.typedef) = Dict(decoded.msg, decoded.typedef)
  /\ output # <<>> =>
       /\ Len(output) = Len(input)
       /\ Contiguous(decoded.order) /\ Alone(decoded.msg) => output = input

(* A cut stream of calls gives the frames before the cut or is refused; no payload
   is ever delivered short. *)
FramesWhole ==
  framed # <<>> =>
    LET d == GrpcDecode(framed, <<>>)
    IN d.err = "" => IsPrefix(d.results, payloads)

(* Both codecs are exact. *)
CodecExact == RoundTrip /\ FramesWhole

(* api.py: the definition returned by a decode may be used as the base of
   another.  The scalar type of a known field is looked up among the wire types,
   a KeyError, so no run checks it. *)
DefinitionReusable ==
  decoded.err = "" => Decode(input, decoded.typedef).err = ""
=============================================================================
