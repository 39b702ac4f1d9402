---------------------------- MODULE BinaryReader ----------------------------
(* binary_reader: sax_parse of CBOR, MessagePack, UBJSON, BJData and BSON   *)
(* into the value that json_sax_dom_parser builds from the events.  The     *)
(* recursion of the code is a stack of frames, one per open container; a    *)
(* step reads one marker with the fields and bytes that belong to it, one   *)
(* key, or the end of a container.  Positions and texts of error messages   *)
(* are left out.                                                            *)
EXTENDS BinaryWriter, TLC

CONSTANTS
    \* little_endianness() of the machine that reads
    ReaderIsLittleEndian

VARIABLES
    format,     \* input_format
    tag_handler,    \* cbor_tag_handler_t: "error", "ignore" or "store"
    text,       \* the bytes of the input
    at,         \* bytes the input adapter has handed out
    stack,      \* open containers, innermost last
    status,     \* "reading", "read" (a value is complete), "accepted",
                \* "error" (reported to the consumer), "failed" (false only)
    result      \* the value of the call

(* detail::unknown_size(), also the count of a container without one.       *)
Unknown == -1

Discarded == <<"discarded">>

-----------------------------------------------------------------------------
(* What a step finds: a value, the head of a container, or an error.        *)

Leaf(v, next) == <<"leaf", v, next>>

Open(kind, count, next) ==
    <<"open", [kind |-> kind, left |-> count, type |-> 0, key |-> <<>>,
               items |-> <<>>, dims |-> <<>>], next>>

Typed(opened, type) == <<"open", [opened[2] EXCEPT !.type = type], opened[3]>>

Bytes(b, next) == <<"bytes", b, next>>

Error == <<"error">>

(* false without a call of parse_error                                      *)
Failure == <<"failed">>

IsError(o) == o[1] \in {"error", "failed"}

(* What follows a read: nothing when it failed.                             *)
IfRead(o, Rest(_)) == IF IsError(o) THEN o ELSE Rest(o)

-----------------------------------------------------------------------------
(* Bytes, numbers and strings of the input *)

Byte(p) == IF p < Len(text) THEN text[p + 1] ELSE EOF

Has(p, n) == p + n <= Len(text)

(* get_number: the n bytes at p as they are in memory, in network order     *)
(* here; the input is little endian for BSON and BJData.                    *)
get_number(p, n) ==
    LET raw == SubSeq(text, p + 1, p + n)
        little == format \in {"bson", "bjdata"}
        memory == IF ReaderIsLittleEndian # little THEN Reverse(raw) ELSE raw
    IN  IF ReaderIsLittleEndian THEN Reverse(memory) ELSE memory

(* An unsigned field as a count, when it is there.                          *)
CountAt(p, w) == CountOf(ZeroExtend(get_number(p, w)))

Unsigned(p, w) ==
    IF Has(p, w) THEN Leaf(<<"unsigned", ZeroExtend(get_number(p, w))>>, p + w) ELSE Error

Integer(p, w) ==
    IF Has(p, w) THEN Leaf(<<"integer", SignExtend(get_number(p, w))>>, p + w) ELSE Error

Float(p, w) ==
    IF Has(p, w)
    THEN Leaf(<<"float", IF w = 4 THEN DecodeFloat(BitsOfBytes(get_number(p, 4)), 8, 23)
                         ELSE DecodeFloat(BitsOfBytes(get_number(p, 8)), 11, 52)>>, p + w)
    ELSE Error

(* The mutant control: the end of the input ends the string.                *)
StringToTheEnd(p, n) ==
    LET last == Min({p + n, Len(text)})
    IN  Bytes(SubSeq(text, p + 1, last), last)

get_string(p, n) ==
    IF Has(p, n) THEN Bytes(SubSeq(text, p + 1, p + n), p + n) ELSE Error

get_binary(p, n) ==
    IF Has(p, n) THEN Bytes(SubSeq(text, p + 1, p + n), p + n) ELSE Error

(* A length field of w bytes, then that many bytes.                         *)
SizedString(p, w) == IF Has(p, w) THEN get_string(p + w, CountAt(p, w)) ELSE Error

SizedBinary(p, w) == IF Has(p, w) THEN get_binary(p + w, CountAt(p, w)) ELSE Error

AsString(o) == IfRead(o, LAMBDA b : Leaf(<<"string", b[2]>>, b[3]))

AsBinary(o, subtype) == IfRead(o, LAMBDA b : Leaf(<<"binary", b[2], subtype>>, b[3]))

(* The mutant control: the exponent of a subnormal half is that of a normal *)
(* one.                                                                     *)
HalfWithoutSubnormals(half) ==
    LET exponent == (half \div 1024) % 32
        mant == half % 1024
        s == half \div 32768
    IN  IF exponent = 31 THEN (IF mant = 0 THEN <<"inf", s>> ELSE <<"nan">>)
        ELSE Finite(s, BitsOf(mant, 10), exponent - 25)

(* The decoder of RFC 7049, appendix D, for a half-precision number.        *)
HalfValue(half) ==
    LET exponent == (half \div 1024) % 32
        mant == half % 1024
        s == half \div 32768
    IN  CASE exponent = 0 -> Finite(s, BitsOf(mant, 10), -24)
          [] exponent = 31 -> IF mant = 0 THEN <<"inf", s>> ELSE <<"nan">>
          [] OTHER -> Finite(s, BitsOf(mant + 1024, 11), exponent - 25)

Half(p) ==
    LET byte1 == Byte(p)
        byte2 == Byte(p + 1)
        half == IF format = "bjdata" THEN byte2 * 256 + byte1 ELSE byte1 * 256 + byte2
    IN  IF Has(p, 2) THEN Leaf(<<"float", HalfValue(half)>>, p + 2) ELSE Error

-----------------------------------------------------------------------------
(* CBOR *)

(* get_cbor_string (base 96) and get_cbor_binary (base 64), from the marker *)
(* at p.  The chunks of an indefinite string are strings themselves.        *)
RECURSIVE CborBytes(_, _)
CborChunks(base, p) ==
    LET chunks[q \in p..(Len(text) + 1)] ==
            IF Byte(q) = 255 THEN Bytes(<<>>, q + 1)
            ELSE IfRead(CborBytes(base, q), LAMBDA chunk :
                    IfRead(chunks[chunk[3]], LAMBDA rest : Bytes(chunk[2] \o rest[2], rest[3])))
    IN  chunks[p]

CborBytes(base, p) ==
    LET b == Byte(p)
    IN  CASE b \in base..(base + 23) -> get_string(p + 1, b % 32)
          [] b \in (base + 24)..(base + 27) -> SizedString(p + 1, 2^(b - base - 24))
          [] b = base + 31 -> CborChunks(base, p + 1)
          [] OTHER -> Error

get_cbor_string(p) == CborBytes(96, p)

get_cbor_binary(p) == CborBytes(64, p)

(* The count of an array or object: in the marker, in a field, or none.     *)
CborCounted(kind, base, p) ==
    LET b == Byte(p)
        w == 2^(b - base - 24)
    IN  CASE b \in base..(base + 23) -> Open(kind, b % 32, p + 1)
          [] b \in (base + 24)..(base + 27) ->
                IF ~Has(p + 1, w) THEN Error
                ELSE IF get_number(p + 1, w) = Repeat(255, 8) THEN Open(kind, Unknown, p + 1 + w)
                ELSE Open(kind, CountAt(p + 1, w), p + 1 + w)
          [] OTHER -> Open(kind, Unknown, p + 1)

CborUnsignedValue(b, p) ==
    IF b <= 23 THEN Leaf(<<"unsigned", BigEndian(b)>>, p) ELSE Unsigned(p, 2^(b - 24))

(* -1 - n, computed in number_integer_t.                                    *)
CborNegativeValue(b, p) ==
    IF b <= 55 THEN Leaf(<<"integer", Complement(BigEndian(b - 32))>>, p)
    ELSE IfRead(Unsigned(p, 2^(b - 56)), LAMBDA n : Leaf(<<"integer", Complement(n[2][2])>>, n[3]))

CborTags == (198..212) \cup (216..219)

TagWidth(b) == IF b >= 216 THEN 2^(b - 216) ELSE 0

(* A subtype, then bytes: what follows the tag must be a byte string.       *)
CborStoredTag(b, p) ==
    LET w == TagWidth(b)
    IN  IF Has(p, w) THEN AsBinary(get_cbor_binary(p + w), ZeroExtend(get_number(p, w))) ELSE Error

CborSimple(b, p) ==
    CASE b \in {244, 245} -> Leaf(<<"boolean", b = 245>>, p)
      [] b = 246 -> Leaf(<<"null">>, p)
      [] b = 249 -> Half(p)
      [] b = 250 -> Float(p, 4)
      [] b = 251 -> Float(p, 8)
      [] OTHER -> Error

RECURSIVE parse_cbor_internal(_)
CborTagged(b, p) ==
    CASE tag_handler = "error" -> Error
      [] tag_handler = "store" /\ b >= 216 -> CborStoredTag(b, p)
      [] OTHER -> IF Has(p, TagWidth(b)) THEN parse_cbor_internal(p + TagWidth(b)) ELSE Error

parse_cbor_internal(p) ==
    LET b == Byte(p)
    IN  CASE b \in 0..27 -> CborUnsignedValue(b, p + 1)
          [] b \in 32..59 -> CborNegativeValue(b, p + 1)
          [] b \in (64..91) \cup {95} -> AsBinary(get_cbor_binary(p), <<>>)
          [] b \in (96..123) \cup {127} -> AsString(get_cbor_string(p))
          [] b \in (128..155) \cup {159} -> CborCounted("array", 128, p)
          [] b \in (160..187) \cup {191} -> CborCounted("object", 160, p)
          [] b \in CborTags -> CborTagged(b, p + 1)
          [] OTHER -> CborSimple(b, p + 1)

-----------------------------------------------------------------------------
(* MessagePack *)

get_msgpack_string(p) ==
    LET b == Byte(p)
    IN  CASE b \in 160..191 -> get_string(p + 1, b % 32)
          [] b \in 217..219 -> SizedString(p + 1, 2^(b - 217))
          [] OTHER -> Error

(* ext: the length, the subtype, then the bytes.                            *)
MsgpackExt(p, w, fixed) ==
    IF ~Has(p, w + 1) THEN Error
    ELSE AsBinary(get_binary(p + w + 1, IF w = 0 THEN fixed ELSE CountAt(p, w)),
                  ZeroExtend(get_number(p + w, 1)))

get_msgpack_binary(p) ==
    LET b == Byte(p)
    IN  CASE b \in 196..198 -> AsBinary(SizedBinary(p + 1, 2^(b - 196)), <<>>)
          [] b \in 199..201 -> MsgpackExt(p + 1, 2^(b - 199), 0)
          [] OTHER -> MsgpackExt(p + 1, 0, 2^(b - 212))

MsgpackCounted(kind, p, w) ==
    IF Has(p, w) THEN Open(kind, CountAt(p, w), p + w) ELSE Error

(* The values that are in the marker itself, and the sizes that are.        *)
MsgpackPositiveFixint(b, p) == Leaf(<<"unsigned", BigEndian(b)>>, p)

MsgpackNegativeFixint(b, p) == Leaf(<<"integer", SignExtend(<<b>>)>>, p)

MsgpackFixCounted(b, p) == Open(IF b <= 143 THEN "object" ELSE "array", b % 16, p)

MsgpackNumber(b, p) ==
    CASE b \in {202, 203} -> Float(p, 4 * (b - 201))
      [] b \in 204..207 -> Unsigned(p, 2^(b - 204))
      [] b \in 208..211 -> Integer(p, 2^(b - 208))

parse_msgpack_internal(p) ==
    LET b == Byte(p)
    IN  CASE b \in 0..127 -> MsgpackPositiveFixint(b, p + 1)
          [] b \in 128..159 -> MsgpackFixCounted(b, p + 1)
          [] b \in (160..191) \cup (217..219) -> AsString(get_msgpack_string(p))
          [] b = 192 -> Leaf(<<"null">>, p + 1)
          [] b \in {194, 195} -> Leaf(<<"boolean", b = 195>>, p + 1)
          [] b \in (196..201) \cup (212..216) -> get_msgpack_binary(p)
          [] b \in 202..211 -> MsgpackNumber(b, p + 1)
          [] b \in {220, 221} -> MsgpackCounted("array", p + 1, 2 * (b - 219))
          [] b \in {222, 223} -> MsgpackCounted("object", p + 1, 2 * (b - 221))
          [] b \in 224..255 -> MsgpackNegativeFixint(b, p + 1)
          [] OTHER -> Error
=============================================================================
