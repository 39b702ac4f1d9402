--------------------------- MODULE BinaryFormats ---------------------------
(* The calls from_cbor .. from_bson and to_cbor .. to_bson: an input is     *)
(* read, the value is written again in any way its format allows, and what  *)
(* was written is read back, perhaps on a machine of the other endianness.  *)
EXTENDS UbjsonReader, BsonReader, BsonWriter

CONSTANTS
    \* the texts to begin with: records of a format, a prefix, the bytes and
    \* the lengths of what follows it, a suffix, and the parameters strict and
    \* tag_handler of the call
    Texts,
    \* the values that are written to begin with: records of a format, the
    \* name of a set of values, and the most bytes that are then missing
    Sources,
    \* the set of each name
    Values(_)

VARIABLES
    strict,     \* the parameter of from_cbor .. from_bson
    source,     \* <<j>> when text is what was written for j, else <<>>
    opt,        \* the options of write_ubjson
    cut         \* whether bytes are missing at the end of text

vars == <<format, tag_handler, strict, text, at, stack, status, result, source, opt, cut>>

NoOptions == [count |-> FALSE, type |-> FALSE, bjdata |-> FALSE, draft3 |-> FALSE]

(* use_type asserts use_count, and only BJData has versions.                *)
Options(f) ==
    CASE f \in {"ubjson", "bjdata"} ->
            {o \in [count : BOOLEAN, type : BOOLEAN, bjdata : {f = "bjdata"}, draft3 : BOOLEAN] :
                (o.type => o.count) /\ (o.draft3 => o.bjdata)}
      [] OTHER -> {NoOptions}

Write(f, o, j) ==
    CASE f = "cbor" -> write_cbor(j)
      [] f = "msgpack" -> write_msgpack(j)
      [] f \in {"ubjson", "bjdata"} -> write_ubjson(j, TRUE, o)
      [] f = "bson" -> write_bson_object(j[2])

(* Whether the writer returns, and does not throw.                          *)
WriteAllows(f, j) ==
    CASE f = "bson" -> write_bson_allows(j)
      [] f \in {"ubjson", "bjdata"} -> write_ubjson_allows(j, f = "bjdata")
      [] OTHER -> TRUE

Begin(f, t) ==
    /\ format = f
    /\ text = t
    /\ at = 0
    /\ stack = <<>>
    /\ status = "reading"
    /\ result = Discarded

ReadsText ==
    \E x \in Texts : \E n \in x.lengths : \E t \in [1..n -> x.bytes] :
        /\ Begin(x.format, x.prefix \o t \o x.suffix)
        /\ source = <<>> /\ opt = NoOptions /\ cut = FALSE
        /\ strict = x.strict /\ tag_handler = x.tag_handler

ReadsWritten ==
    \E x \in Sources : \E j \in Values(x.values) : \E o \in Options(x.format) :
        /\ WriteAllows(x.format, j)
        /\ LET t == Write(x.format, o, j)
           IN  \E n \in 0..Min({Len(t), x.cut}) :
                /\ Begin(x.format, SubSeq(t, 1, Len(t) - n))
                /\ source = <<j>> /\ opt = o /\ cut = (n > 0)
                /\ strict = TRUE /\ tag_handler = "store"

Init == ReadsText \/ ReadsWritten

Top == Last(stack)

(* Where the loop over a container without a count looks for its end.       *)
EndAt == IF format \in {"ubjson", "bjdata"} THEN SkipNoop(at) ELSE at

EndByte(f) ==
    CASE format = "cbor" -> 255
      [] format = "bson" -> 0
      [] OTHER -> IF f.kind = "object" THEN Ch.endObject ELSE Ch.endArray

AtEnd(f) ==
    /\ f.key = <<>>
    /\ f.left = 0 \/ (f.left = Unknown /\ Byte(EndAt) = EndByte(f))

KeyIsNext(f) == f.key = <<>> /\ (f.kind = "object" \/ format = "bson")

Reading == status = "reading"

(* The next value, of the kind the innermost container calls for.           *)
NextValue ==
    CASE format = "cbor" -> parse_cbor_internal(at)
      [] format = "msgpack" -> parse_msgpack_internal(at)
      [] format = "bson" -> IF stack = <<>> THEN BsonDocument("object", at)
                            ELSE parse_bson_element_internal(Top.type, at)
      [] OTHER -> IF stack # <<>> /\ Top.type # 0 THEN get_ubjson_value(Top.type, at)
                  ELSE parse_ubjson_internal(at)

ValueIsNext ==
    /\ Reading
    /\ IF stack = <<>> THEN TRUE ELSE ~AtEnd(Top) /\ ~KeyIsNext(Top)

(* The events of json_sax_dom_parser: a value goes into the innermost       *)
(* container; a key that comes again replaces the member.                   *)
WithValue(f, v) ==
    [f EXCEPT !.items = IF f.kind = "object" THEN (f.key[1] :> v) @@ f.items
                        ELSE Append(f.items, v),
              !.left = IF f.left > 0 THEN f.left - 1 ELSE f.left,
              !.key = <<>>]

Deliver(outer, v) ==
    IF outer = <<>>
    THEN stack' = <<>> /\ result' = v /\ status' = "read"
    ELSE /\ stack' = Append(Front(outer), WithValue(Last(outer), v))
         /\ UNCHANGED <<result, status>>

Fail(o) ==
    /\ status' = IF o = Failure THEN "failed" ELSE "error"
    /\ UNCHANGED <<at, stack, result>>

SameCall == UNCHANGED <<format, tag_handler, strict, text, source, opt, cut>>

ReadLeaf ==
    /\ ValueIsNext
    /\ \E o \in {NextValue} : o[1] = "leaf" /\ at' = o[3] /\ Deliver(stack, o[2])
    /\ SameCall

OpenContainer ==
    /\ ValueIsNext
    /\ \E o \in {NextValue} : o[1] = "open" /\ at' = o[3] /\ stack' = Append(stack, o[2])
    /\ UNCHANGED <<status, result>>
    /\ SameCall

RejectValue ==
    /\ ValueIsNext
    /\ \E o \in {NextValue} : IsError(o) /\ Fail(o)
    /\ SameCall

(* A key, and in BSON the type of the element before it.                    *)
NextKey ==
    CASE format = "cbor" -> get_cbor_string(at)
      [] format = "msgpack" -> get_msgpack_string(at)
      [] format = "bson" -> get_bson_cstr(at + 1)
      [] OTHER -> get_ubjson_string(IF Top.left = Unknown THEN EndAt ELSE at)

ReadKey ==
    /\ Reading /\ stack # <<>> /\ ~AtEnd(Top) /\ KeyIsNext(Top)
    /\ \E o \in {NextKey} :
           IF IsError(o) THEN Fail(o)
           ELSE /\ at' = o[3]
                /\ stack' = Append(Front(stack),
                        [Top EXCEPT !.key = <<o[2]>>,
                                    !.type = IF format = "bson" THEN Byte(at) ELSE @])
                /\ UNCHANGED <<status, result>>
    /\ SameCall

(* The value of a container that ends; an annotated array is an object.     *)
Built(f) ==
    CASE f.kind = "array" -> <<"array", f.items>>
      [] f.kind = "object" -> <<"object", f.items>>
      [] f.kind = "ndarray" ->
            <<"object", (ArrayTypeKey :> <<"string", <<f.dims[1]>>>>)
                        @@ (ArraySizeKey :> <<"array", [i \in DOMAIN f.dims[2] |->
                                                <<"unsigned", BigEndian(f.dims[2][i])>>]>>)
                        @@ (ArrayDataKey :> <<"array", f.items>>)>>

CloseContainer ==
    /\ Reading /\ stack # <<>> /\ AtEnd(Top)
    /\ at' = IF Top.left = Unknown THEN EndAt + 1 ELSE at
    /\ Deliver(Front(stack), Built(Top))
    /\ SameCall

(* strict: the input must be used up.                                       *)
FinishCall ==
    /\ status = "read"
    /\ IF strict /\ Byte(EndAt) # EOF
       THEN status' = "error" /\ result' = Discarded
       ELSE status' = "accepted" /\ UNCHANGED result
    /\ UNCHANGED <<at, stack>>
    /\ SameCall

(* to_cbor .. to_bson with the value that was read, and back.               *)
WriteAgain ==
    /\ status = "accepted" /\ source = <<>> /\ WriteAllows(format, result)
    /\ \E o \in Options(format) :
        /\ text' = Write(format, o, result)
        /\ opt' = o
    /\ source' = <<result>>
    /\ at' = 0 /\ stack' = <<>> /\ status' = "reading" /\ result' = Discarded
    /\ UNCHANGED <<format, tag_handler, strict, cut>>

Next == ReadLeaf \/ OpenContainer \/ RejectValue \/ ReadKey \/ CloseContainer
        \/ FinishCall \/ WriteAgain

Spec == Init /\ [][Next]_vars

-----------------------------------------------------------------------------
(* What a format keeps of a value. *)

AsNumbers(b) == <<"array", [i \in DOMAIN b |-> <<"unsigned", BigEndian(b[i])>>]>>

KeptBinary(b, s) ==
    CASE format = "cbor" -> <<"binary", b, IF tag_handler = "store" THEN s ELSE <<>>>>
      [] format = "msgpack" -> <<"binary", b, IF s = <<>> THEN s ELSE ZeroExtend(Low(s, 1))>>
      [] format = "bson" ->
            <<"binary", b, IF s = <<>> THEN BigEndian(0) ELSE ZeroExtend(Low(s, 1))>>
      [] format = "bjdata" /\ opt.draft3 /\ opt.type -> <<"binary", b, <<>>>>
      [] OTHER -> AsNumbers(b)

(* An annotated array with one row, or without elements, is a plain one.    *)
Flat(members) ==
    LET dim == members[ArraySizeKey][2]
    IN  \/ Len(dim) <= 1
        \/ Len(dim) = 2 /\ dim[1][2] = BigEndian(1)
        \/ \E i \in DOMAIN dim : dim[i][2] = BigEndian(0)

(* An element of an annotated array has the type of the array: of a wider   *)
(* number only the low bytes are left, and they decide its sign.            *)
KeptElement(dtype, j) ==
    CASE dtype \in {Ch.d, Ch.D} -> j
      [] dtype \in {Ch.i, Ch.I, Ch.l, Ch.L} ->
            <<"integer", SignExtend(Low(j[2], NdarrayWidth(dtype)))>>
      [] OTHER -> <<"unsigned", ZeroExtend(Low(j[2], NdarrayWidth(dtype)))>>

KeptData(members) ==
    LET data == members[ArrayDataKey][2]
    IN  [i \in DOMAIN data |-> KeptElement(members[ArrayTypeKey][2][1], data[i])]

FlatArray(dtype, data) ==
    CASE dtype = Ch.B -> <<"binary", [i \in DOMAIN data |-> data[i][2][8]], <<>>>>
      [] dtype = Ch.C -> <<"array", [i \in DOMAIN data |-> <<"string", <<data[i][2][8]>>>>]>>
      [] OTHER -> <<"array", data>>

RECURSIVE Kept(_)
Kept(j) ==
    CASE j[1] = "binary" -> KeptBinary(j[2], j[3])
      [] j[1] = "array" -> <<"array", [i \in DOMAIN j[2] |-> Kept(j[2][i])]>>
      [] j[1] = "object" ->
            IF ~(format = "bjdata" /\ IsNdarray(j[2]))
            THEN <<"object", [k \in DOMAIN j[2] |-> Kept(j[2][k])]>>
            ELSE IF Flat(j[2]) THEN FlatArray(j[2][ArrayTypeKey][2][1], KeptData(j[2]))
            ELSE <<"object", [j[2] EXCEPT ![ArrayDataKey] = <<"array", KeptData(j[2])>>]>>
      [] OTHER -> j

(* The value with its numbers in one form: a nonnegative integer is equal   *)
(* to the unsigned number of the same bytes.                                *)
RECURSIVE Canonical(_)
Canonical(j) ==
    CASE j[1] = "integer" /\ ~Negative(j[2]) -> <<"unsigned", j[2]>>
      [] j[1] = "array" -> <<"array", [i \in DOMAIN j[2] |-> Canonical(j[2][i])]>>
      [] j[1] = "object" -> <<"object", [k \in DOMAIN j[2] |-> Canonical(j[2][k])]>>
      [] OTHER -> j

Ended == status \in {"accepted", "error", "failed"}

(* Whatever a writer returns is read back: to_* followed by from_* gives a  *)
(* value that is equal, but for what the format cannot carry (Kept), for    *)
(* every option, size class, nesting and sharing of type markers, when a    *)
(* machine of one endianness writes and one of the other reads.  The        *)
(* elements of an annotated array of BJData are not all kept: those that    *)
(* the type of the array does not hold come back truncated.                 *)
RoundTrip ==
    (Ended /\ source # <<>> /\ ~cut)
        => status = "accepted" /\ Canonical(result) = Canonical(Kept(source[1]))

(* A text of which any number of bytes is missing at the end is refused:    *)
(* every read of binary_reader notices the end of the input, none takes     *)
(* what is there for the whole.                                             *)
TruncatedIsRefused == cut => status # "accepted"

(* calc_bson_object_size and calc_bson_array_size agree with the bytes that *)
(* are written for the object and for every container in it.                *)
RECURSIVE SizesAgree(_)
SizesAgree(j) ==
    CASE j[1] = "object" ->
            /\ Len(write_bson_object(j[2])) = calc_bson_object_size(j[2])
            /\ \A k \in DOMAIN j[2] : SizesAgree(j[2][k])
      [] j[1] = "array" ->
            /\ Len(write_bson_array(<<>>, j[2])) = 2 + calc_bson_array_size(j[2])
            /\ \A i \in DOMAIN j[2] : SizesAgree(j[2][i])
      [] OTHER -> TRUE

DocumentSizesExact ==
    (format = "bson" /\ source # <<>> /\ at = 0) => SizesAgree(source[1])

(* A half-precision number is read as IEEE 754 defines it: zeros, subnormal *)
(* numbers, the smallest normal number, infinities and NaN included, in the *)
(* byte order of CBOR and in that of BJData.                                *)
HalfIsIeee ==
    LET bits == BitsOfBytes(IF format = "cbor" THEN <<text[2], text[3]>>
                                               ELSE <<text[3], text[2]>>)
    IN  (status = "accepted" /\ source = <<>> /\ Len(text) = 3
            /\ <<format, text[1]>> \in {<<"cbor", 249>>, <<"bjdata", Ch.h>>})
        => result = <<"float", DecodeFloat(bits, 5, 10)>>
=============================================================================
