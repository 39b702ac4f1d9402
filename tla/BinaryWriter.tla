---------------------------- MODULE BinaryWriter ----------------------------
(* binary_writer: a value as the bytes of CBOR, MessagePack, UBJSON, BJData *)
(* and BSON.  Characters are their codes: Ch names the markers of UBJSON.   *)
EXTENDS BinaryData

CONSTANT
    \* little_endianness() of the machine that writes
    WriterIsLittleEndian

Ch == [Z |-> 90, T |-> 84, F |-> 70, N |-> 78, B |-> 66, U |-> 85, i |-> 105,
       I |-> 73, l |-> 108, L |-> 76, u |-> 117, m |-> 109, M |-> 77, h |-> 104,
       d |-> 100, D |-> 68, H |-> 72, C |-> 67, S |-> 83, array |-> 91,
       endArray |-> 93, object |-> 123, endObject |-> 125, type |-> 36, count |-> 35]

(* The bytes of a number, from memory to the output: b is in network order. *)
write_number(b, outputIsLittleEndian) ==
    LET vec == IF WriterIsLittleEndian THEN Reverse(b) ELSE b
    IN  IF WriterIsLittleEndian # outputIsLittleEndian THEN Reverse(vec) ELSE vec

Big(b) == write_number(b, FALSE)

Little(b) == write_number(b, TRUE)

(* The decimal digits of n, as characters, by repeated division.            *)
RECURSIVE Decimal(_)
Decimal(n) ==
    LET rest[i \in 0..Len(n)] ==
            IF i = 0 THEN 0 ELSE ((rest[i - 1] * 256) + n[i]) % 10
        quotient == [i \in DOMAIN n |-> ((rest[i - 1] * 256) + n[i]) \div 10]
        last == <<48 + rest[Len(n)]>>
    IN  IF quotient = Repeat(0, Len(n)) THEN last ELSE Decimal(quotient) \o last

(* The bytes that write returns for the elements of a sequence, in order.   *)
Written(parts) == FlattenSeq(parts)

Single(f) == BytesOfBits(EncodeFloat(f, 8, 23))

Double(f) == BytesOfBits(EncodeFloat(f, 11, 52))

write_compact_float(f, prefix32, prefix64) ==
    IF f[1] # "finite" \/ Representable(f, 8, 23)
    THEN <<prefix32>> \o Big(Single(f))
    ELSE <<prefix64>> \o Big(Double(f))

-----------------------------------------------------------------------------
(* CBOR *)

(* A control byte with n in it, or followed by the shortest field that      *)
(* holds n.                                                                 *)
CborSized(base, n) ==
    LET w == UnsignedWidth(n)
    IN  IF w = 1 /\ n[8] <= 23 THEN Big(<<base + n[8]>>)
        ELSE <<base + 24 + WidthClass(w)>> \o Big(Low(n, w))

CborInteger(n) ==
    IF Negative(n) THEN CborSized(32, Complement(n)) ELSE CborSized(0, n)

CborUnsigned(n) == CborSized(0, n)

CborFloat(f) ==
    CASE f[1] = "nan" -> <<249, 126, 0>>
      [] f[1] = "inf" -> <<249, IF f[2] = 0 THEN 124 ELSE 252, 0>>
      [] OTHER -> write_compact_float(f, 250, 251)

CborString(b) == CborSized(96, BigEndian(Len(b))) \o b

CborSubtype(s) ==
    IF s = <<>> THEN <<>>
    ELSE Big(<<216 + WidthClass(UnsignedWidth(s))>>) \o Big(Low(s, UnsignedWidth(s)))

CborBinary(b, s) == CborSubtype(s) \o CborSized(64, BigEndian(Len(b))) \o b

RECURSIVE write_cbor(_)
CborArray(elements) ==
    CborSized(128, BigEndian(Len(elements)))
        \o Written([i \in DOMAIN elements |-> write_cbor(elements[i])])

CborObject(members) ==
    LET keys == KeysInOrder(members)
    IN  CborSized(160, BigEndian(Len(keys)))
            \o Written([i \in DOMAIN keys |-> CborString(keys[i]) \o write_cbor(members[keys[i]])])

write_cbor(j) ==
    CASE j[1] = "null" -> <<246>>
      [] j[1] = "boolean" -> <<IF j[2] THEN 245 ELSE 244>>
      [] j[1] = "integer" -> CborInteger(j[2])
      [] j[1] = "unsigned" -> CborUnsigned(j[2])
      [] j[1] = "float" -> CborFloat(j[2])
      [] j[1] = "string" -> CborString(j[2])
      [] j[1] = "binary" -> CborBinary(j[2], j[3])
      [] j[1] = "array" -> CborArray(j[2])
      [] j[1] = "object" -> CborObject(j[2])

-----------------------------------------------------------------------------
(* MessagePack *)

MsgpackUnsigned(n) ==
    LET w == UnsignedWidth(n)
    IN  IF w = 1 /\ n[8] < 128 THEN Big(Low(n, 1))
        ELSE <<204 + WidthClass(w)>> \o Big(Low(n, w))

MsgpackNegative(n) ==
    LET w == Min({v \in {1, 2, 4, 8} : FitsSigned(n, v)})
    IN  IF FitsSigned(n, 1) /\ n[8] >= 224 THEN Big(Low(n, 1))
        ELSE <<208 + WidthClass(w)>> \o Big(Low(n, w))

MsgpackInteger(n) == IF Negative(n) THEN MsgpackNegative(n) ELSE MsgpackUnsigned(n)

MsgpackString(b) ==
    LET n == BigEndian(Len(b))
        w == UnsignedWidth(n)
    IN  (IF Len(b) <= 31 THEN Big(<<160 + Len(b)>>)
         ELSE <<217 + WidthClass(w)>> \o Big(Low(n, w))) \o b

(* Arrays and objects have no form with a one-byte count.                   *)
MsgpackCount(fix, marker16, count) ==
    LET w == UnsignedWidth(BigEndian(count))
    IN  CASE count <= 15 -> Big(<<fix + count>>)
          [] count > 15 /\ w <= 2 -> <<marker16>> \o Big(Low(BigEndian(count), 2))
          [] OTHER -> <<marker16 + 1>> \o Big(Low(BigEndian(count), 4))

FixextLengths == {1, 2, 4, 8, 16}

MsgpackBinary(b, s) ==
    LET n == BigEndian(Len(b))
        w == UnsignedWidth(n)
        use_ext == s # <<>>
        head == IF use_ext /\ Len(b) \in FixextLengths
                THEN <<212 + (CHOOSE k \in 0..4 : 2^k = Len(b))>>
                ELSE <<(IF use_ext THEN 199 ELSE 196) + WidthClass(w)>> \o Big(Low(n, w))
    IN  head \o (IF use_ext THEN Big(Low(s, 1)) ELSE <<>>) \o b

RECURSIVE write_msgpack(_)
MsgpackArray(elements) ==
    MsgpackCount(144, 220, Len(elements))
        \o Written([i \in DOMAIN elements |-> write_msgpack(elements[i])])

MsgpackObject(members) ==
    LET keys == KeysInOrder(members)
    IN  MsgpackCount(128, 222, Len(keys))
            \o Written([i \in DOMAIN keys |-> MsgpackString(keys[i]) \o write_msgpack(members[keys[i]])])

write_msgpack(j) ==
    CASE j[1] = "null" -> <<192>>
      [] j[1] = "boolean" -> <<IF j[2] THEN 195 ELSE 194>>
      [] j[1] = "integer" -> MsgpackInteger(j[2])
      [] j[1] = "unsigned" -> MsgpackUnsigned(j[2])
      [] j[1] = "float" -> write_compact_float(j[2], 202, 203)
      [] j[1] = "string" -> MsgpackString(j[2])
      [] j[1] = "binary" -> MsgpackBinary(j[2], j[3])
      [] j[1] = "array" -> MsgpackArray(j[2])
      [] j[1] = "object" -> MsgpackObject(j[2])
=============================================================================
