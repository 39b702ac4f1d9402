----------------------------- MODULE BsonWriter -----------------------------
(* write_bson.  A document begins with its size, which is computed from the *)
(* value by one set of functions (calc_bson_...) before another writes      *)
(* it; only objects can be written, and no key may contain a zero byte.     *)
EXTENDS BinaryWriter

Int32(n) == Little(Low(n, 4))

calc_bson_entry_header_size(name) == 1 + Len(name) + 1

write_bson_entry_header(name, element_type) == <<element_type>> \o name \o <<0>>

(* The mutant control: the terminator of a string is not counted.           *)
StringSizeWithoutTerminator(b) == 4 + Len(b)

calc_bson_string_size(b) == 4 + Len(b) + 1

write_bson_string(name, b) ==
    write_bson_entry_header(name, 2) \o Int32(BigEndian(Len(b) + 1)) \o b \o <<0>>

calc_bson_integer_size(n) == IF FitsSigned(n, 4) THEN 4 ELSE 8

write_bson_integer(name, n) ==
    IF FitsSigned(n, 4)
    THEN write_bson_entry_header(name, 16) \o Little(Low(n, 4))
    ELSE write_bson_entry_header(name, 18) \o Little(n)

BelowSign(n, w) == FitsUnsigned(n, w) /\ Low(n, w)[1] < 128

calc_bson_unsigned_size(n) == IF BelowSign(n, 4) THEN 4 ELSE 8

write_bson_unsigned(name, n) ==
    CASE BelowSign(n, 4) -> write_bson_entry_header(name, 16) \o Little(Low(n, 4))
      [] ~BelowSign(n, 4) /\ BelowSign(n, 8) -> write_bson_entry_header(name, 18) \o Little(n)
      [] OTHER -> write_bson_entry_header(name, 17) \o Little(n)

calc_bson_binary_size(b) == 4 + Len(b) + 1

write_bson_binary(name, b, s) ==
    write_bson_entry_header(name, 5) \o Int32(BigEndian(Len(b)))
        \o Big(IF s = <<>> THEN <<0>> ELSE Low(s, 1)) \o b

(* std::to_string of an index: the name of an element of an array.          *)
IndexName(i) == Decimal(BigEndian(i))

Total(sizes) == FoldSeq(LAMBDA a, b : a + b, 0, sizes)

RECURSIVE calc_bson_element_size(_, _)
calc_bson_array_size(elements) ==
    4 + Total([i \in DOMAIN elements |-> calc_bson_element_size(IndexName(i - 1), elements[i])]) + 1

calc_bson_object_size(members) ==
    LET keys == KeysInOrder(members)
    IN  4 + Total([i \in DOMAIN keys |-> calc_bson_element_size(keys[i], members[keys[i]])]) + 1

calc_bson_element_size(name, j) ==
    calc_bson_entry_header_size(name)
        + CASE j[1] = "object" -> calc_bson_object_size(j[2])
            [] j[1] = "array" -> calc_bson_array_size(j[2])
            [] j[1] = "binary" -> calc_bson_binary_size(j[2])
            [] j[1] = "boolean" -> 1
            [] j[1] = "float" -> 8
            [] j[1] = "integer" -> calc_bson_integer_size(j[2])
            [] j[1] = "unsigned" -> calc_bson_unsigned_size(j[2])
            [] j[1] = "string" -> calc_bson_string_size(j[2])
            [] j[1] = "null" -> 0

RECURSIVE write_bson_element(_, _)
write_bson_array(name, elements) ==
    write_bson_entry_header(name, 4)
        \o Int32(BigEndian(calc_bson_array_size(elements)))
        \o Written([i \in DOMAIN elements |-> write_bson_element(IndexName(i - 1), elements[i])])
        \o <<0>>

write_bson_object(members) ==
    LET keys == KeysInOrder(members)
    IN  Int32(BigEndian(calc_bson_object_size(members)))
            \o Written([i \in DOMAIN keys |-> write_bson_element(keys[i], members[keys[i]])])
            \o <<0>>

write_bson_element(name, j) ==
    CASE j[1] = "object" -> write_bson_entry_header(name, 3) \o write_bson_object(j[2])
      [] j[1] = "array" -> write_bson_array(name, j[2])
      [] j[1] = "binary" -> write_bson_binary(name, j[2], j[3])
      [] j[1] = "boolean" -> write_bson_entry_header(name, 8) \o <<IF j[2] THEN 1 ELSE 0>>
      [] j[1] = "float" -> write_bson_entry_header(name, 1) \o Little(Double(j[2]))
      [] j[1] = "integer" -> write_bson_integer(name, j[2])
      [] j[1] = "unsigned" -> write_bson_unsigned(name, j[2])
      [] j[1] = "string" -> write_bson_string(name, j[2])
      [] j[1] = "null" -> write_bson_entry_header(name, 10)

(* What calc_bson_entry_header_size refuses, at any depth: it is called for *)
(* every entry before the first byte is written.                            *)
RECURSIVE BsonAllows(_)
BsonAllows(j) ==
    CASE j[1] = "object" -> \A k \in DOMAIN j[2] : 0 \notin Range(k) /\ BsonAllows(j[2][k])
      [] j[1] = "array" -> \A i \in DOMAIN j[2] : BsonAllows(j[2][i])
      [] OTHER -> TRUE

write_bson_allows(j) == j[1] = "object" /\ BsonAllows(j)
=============================================================================
