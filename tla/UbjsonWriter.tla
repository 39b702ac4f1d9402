---------------------------- MODULE UbjsonWriter ----------------------------
(* write_ubjson: UBJSON, and BJData when opt.bjdata is set.  opt.count and  *)
(* opt.type are use_count and use_type, opt.draft3 is the BJData version.   *)
(* A container whose elements share a marker is written with the marker     *)
(* once; what ubjson_prefix says of an element must therefore be what the   *)
(* element is later written as.                                             *)
EXTENDS BinaryWriter

(* An integer type of the format: its marker, width and sign, and whether   *)
(* only BJData has it.                                                      *)
IntegerType(marker, width, signed, bjdata) ==
    [marker |-> marker, width |-> width, signed |-> signed, bjdata |-> bjdata]

IntegerTypes ==
    << IntegerType(Ch.i, 1, TRUE, FALSE), IntegerType(Ch.U, 1, FALSE, FALSE),
       IntegerType(Ch.I, 2, TRUE, FALSE), IntegerType(Ch.u, 2, FALSE, TRUE),
       IntegerType(Ch.l, 4, TRUE, FALSE), IntegerType(Ch.m, 4, FALSE, TRUE),
       IntegerType(Ch.L, 8, TRUE, FALSE), IntegerType(Ch.M, 8, FALSE, TRUE) >>

(* Whether the integer or unsigned value j is in the range of a type.       *)
InRange(j, t) ==
    CASE j[1] = "integer" /\ t.signed -> FitsSigned(j[2], t.width)
      [] j[1] = "integer" /\ ~t.signed -> ~Negative(j[2]) /\ FitsUnsigned(j[2], t.width)
      [] j[1] = "unsigned" /\ t.signed ->
            FitsUnsigned(j[2], t.width) /\ Low(j[2], t.width)[1] < 128
      [] OTHER -> FitsUnsigned(j[2], t.width)

WrittenTypes(j, bjdata) ==
    SelectSeq(IntegerTypes, LAMBDA t : (t.bjdata => bjdata) /\ InRange(j, t))

Prefix(add_prefix, marker) == IF add_prefix THEN <<marker>> ELSE <<>>

(* A length or a count, which always has its marker.                        *)
write_size(n, bjdata) ==
    LET t == Head(WrittenTypes(<<"unsigned", BigEndian(n)>>, bjdata))
    IN  <<t.marker>> \o write_number(Low(BigEndian(n), t.width), bjdata)

write_integer(j, add_prefix, bjdata) ==
    LET types == WrittenTypes(j, bjdata)
        number == Decimal(j[2])
    IN  IF types = <<>>
        THEN Prefix(add_prefix, Ch.H) \o write_size(Len(number), bjdata) \o number
        ELSE Prefix(add_prefix, Head(types).marker)
                \o write_number(Low(j[2], Head(types).width), bjdata)

write_float(f, add_prefix, bjdata) ==
    Prefix(add_prefix, Ch.D) \o write_number(Double(f), bjdata)

(* The mutant control: the test of the unsigned two-byte type is missing.   *)
PrefixRangeWithoutU16(j, bjdata) ==
    SelectSeq(IntegerTypes, LAMBDA t : (t.bjdata => bjdata) /\ InRange(j, t) /\ t.marker # Ch.u)

(* The tests of ubjson_prefix, which the code states a second time.         *)
PrefixRange(j, bjdata) ==
    IF j[1] = "integer"
    THEN SelectSeq(IntegerTypes, LAMBDA t :
            /\ t.bjdata => bjdata
            /\ IF t.signed THEN FitsSigned(j[2], t.width)
               ELSE ~Negative(j[2]) /\ FitsUnsigned(j[2], t.width))
    ELSE SelectSeq(IntegerTypes, LAMBDA t :
            /\ t.bjdata => bjdata
            /\ FitsUnsigned(j[2], t.width)
            /\ t.signed => Low(j[2], t.width)[1] < 128)

ubjson_prefix(j, bjdata) ==
    CASE j[1] = "null" -> Ch.Z
      [] j[1] = "boolean" -> IF j[2] THEN Ch.T ELSE Ch.F
      [] j[1] \in {"integer", "unsigned"} ->
            IF PrefixRange(j, bjdata) = <<>> THEN Ch.H ELSE Head(PrefixRange(j, bjdata)).marker
      [] j[1] = "float" -> Ch.D
      [] j[1] = "string" -> Ch.S
      [] j[1] \in {"array", "binary"} -> Ch.array
      [] j[1] = "object" -> Ch.object

(* bjdx: markers that BJData does not allow as the type of a container.     *)
ExcludedTypes == {Ch.array, Ch.object, Ch.S, Ch.H, Ch.T, Ch.F, Ch.N, Ch.Z}

(* The one marker of the elements of a container, or 0 when each has its    *)
(* own.                                                                     *)
SharedPrefix(elements, opt) ==
    LET prefixes == {ubjson_prefix(j, opt.bjdata) : j \in elements}
        first == CHOOSE p \in prefixes : TRUE
    IN  IF opt.type /\ elements # {} /\ Cardinality(prefixes) = 1
                    /\ ~(opt.bjdata /\ first \in ExcludedTypes)
        THEN first ELSE 0

TypeAndCount(prefix, count, opt) ==
    (IF prefix # 0 THEN <<Ch.type, prefix>> ELSE <<>>)
        \o (IF opt.count THEN <<Ch.count>> \o write_size(count, opt.bjdata) ELSE <<>>)

EndMark(opt, marker) == IF opt.count THEN <<>> ELSE <<marker>>

write_ubjson_binary(b, add_prefix, opt) ==
    LET element == IF opt.draft3 THEN Ch.B ELSE Ch.U
        shared == IF opt.type /\ (opt.draft3 \/ b # <<>>) THEN element ELSE 0
    IN  Prefix(add_prefix, Ch.array)
            \o TypeAndCount(shared, Len(b), opt)
            \o (IF opt.type THEN b ELSE Written([i \in DOMAIN b |-> <<element, b[i]>>]))
            \o EndMark(opt, Ch.endArray)

-----------------------------------------------------------------------------
(* Annotated arrays *)

NdarrayTypes == {Ch.U, Ch.i, Ch.u, Ch.I, Ch.m, Ch.l, Ch.M, Ch.L, Ch.d, Ch.D, Ch.C, Ch.B}

NdarrayWidth(dtype) ==
    CASE dtype \in {Ch.U, Ch.C, Ch.B, Ch.i} -> 1
      [] dtype \in {Ch.u, Ch.I} -> 2
      [] dtype \in {Ch.m, Ch.l, Ch.d} -> 4
      [] OTHER -> 8

Product(dims) == FoldSeq(LAMBDA n, p : CountOf(n[2]) * p, 1, dims)

HasNdarrayKeys(members) == DOMAIN members = {ArrayTypeKey, ArraySizeKey, ArrayDataKey}

(* The tests of write_bjdata_ndarray: only an object that passes them is    *)
(* written as an array, any other as the object it is.  Nothing tests that  *)
(* an element is a number of the type it is written as.                     *)
IsNdarray(members) ==
    /\ HasNdarrayKeys(members)
    /\ members[ArrayTypeKey] \in {<<"string", <<t>>>> : t \in NdarrayTypes}
    /\ LET dims == members[ArraySizeKey][2]
       IN  Len(members[ArrayDataKey][2]) = (IF dims = <<>> THEN 0 ELSE Product(dims))

(* An element is cast to the type of the array: the high bytes of a number  *)
(* that is too wide are dropped.                                            *)
NdarrayElement(dtype, j) ==
    CASE dtype = Ch.D -> Little(Double(j[2]))
      [] dtype = Ch.d -> Little(Single(j[2]))
      [] OTHER -> Little(Low(j[2], NdarrayWidth(dtype)))

-----------------------------------------------------------------------------
RECURSIVE write_ubjson(_, _, _)
write_bjdata_ndarray(members, opt) ==
    LET dtype == members[ArrayTypeKey][2][1]
        data == members[ArrayDataKey][2]
    IN  <<Ch.array, Ch.type, dtype, Ch.count>>
            \o write_ubjson(members[ArraySizeKey], TRUE, opt)
            \o Written([i \in DOMAIN data |-> NdarrayElement(dtype, data[i])])

write_ubjson_array(elements, add_prefix, opt) ==
    LET shared == SharedPrefix(Range(elements), opt)
    IN  Prefix(add_prefix, Ch.array)
            \o TypeAndCount(shared, Len(elements), opt)
            \o Written([i \in DOMAIN elements |-> write_ubjson(elements[i], shared = 0, opt)])
            \o EndMark(opt, Ch.endArray)

write_ubjson_object(members, add_prefix, opt) ==
    LET keys == KeysInOrder(members)
        shared == SharedPrefix({members[k] : k \in DOMAIN members}, opt)
    IN  Prefix(add_prefix, Ch.object)
            \o TypeAndCount(shared, Len(keys), opt)
            \o Written([i \in DOMAIN keys |->
                    write_size(Len(keys[i]), opt.bjdata) \o keys[i]
                        \o write_ubjson(members[keys[i]], shared = 0, opt)])
            \o EndMark(opt, Ch.endObject)

write_ubjson(j, add_prefix, opt) ==
    CASE j[1] = "null" -> Prefix(add_prefix, Ch.Z)
      [] j[1] = "boolean" -> Prefix(add_prefix, IF j[2] THEN Ch.T ELSE Ch.F)
      [] j[1] \in {"integer", "unsigned"} -> write_integer(j, add_prefix, opt.bjdata)
      [] j[1] = "float" -> write_float(j[2], add_prefix, opt.bjdata)
      [] j[1] = "string" ->
            Prefix(add_prefix, Ch.S) \o write_size(Len(j[2]), opt.bjdata) \o j[2]
      [] j[1] = "binary" -> write_ubjson_binary(j[2], add_prefix, opt)
      [] j[1] = "array" -> write_ubjson_array(j[2], add_prefix, opt)
      [] j[1] = "object" /\ opt.bjdata /\ IsNdarray(j[2]) -> write_bjdata_ndarray(j[2], opt)
      [] OTHER -> write_ubjson_object(j[2], add_prefix, opt)

(* Whether write_ubjson returns: the conversion of _ArrayType_ to a string  *)
(* throws type_error for a value of another type.                           *)
RECURSIVE write_ubjson_allows(_, _)
write_ubjson_allows(j, bjdata) ==
    CASE j[1] = "array" -> \A i \in DOMAIN j[2] : write_ubjson_allows(j[2][i], bjdata)
      [] j[1] = "object" ->
            /\ bjdata /\ HasNdarrayKeys(j[2]) => j[2][ArrayTypeKey][1] = "string"
            /\ \A k \in DOMAIN j[2] : write_ubjson_allows(j[2][k], bjdata)
      [] OTHER -> TRUE
=============================================================================
