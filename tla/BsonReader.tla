----------------------------- MODULE BsonReader -----------------------------
(* binary_reader for BSON.  The size of a document is read and not used;    *)
(* the end of a document is its zero byte.                                  *)
EXTENDS BinaryReader

(* parse_bson_internal and parse_bson_array                                 *)
BsonDocument(kind, p) == IF Has(p, 4) THEN Open(kind, Unknown, p + 4) ELSE Error

(* get_bson_cstr: the bytes up to the first zero.                           *)
get_bson_cstr(p) ==
    LET zeros == {q \in p..(Len(text) - 1) : Byte(q) = 0}
    IN  IF zeros = {} THEN Error
        ELSE Bytes(SubSeq(text, p + 1, Min(zeros)), Min(zeros) + 1)

(* The terminator of a string is any byte; without one the call fails, and  *)
(* the consumer hears of no error.                                          *)
get_bson_string(p, n) ==
    IF n < 1 THEN Error
    ELSE IfRead(get_string(p, n - 1), LAMBDA b :
            IF Byte(b[3]) = EOF THEN Failure ELSE Bytes(b[2], b[3] + 1))

get_bson_binary(p, n) ==
    IF n < 0 \/ ~Has(p, 1) THEN Error
    ELSE AsBinary(get_binary(p + 1, n), ZeroExtend(get_number(p, 1)))

(* A length is signed: -1 stands for every negative one.                    *)
BsonLength(p) ==
    IF get_number(p, 4)[1] >= 128 THEN -1 ELSE CountAt(p, 4)

parse_bson_element_internal(element_type, p) ==
    CASE element_type = 1 -> Float(p, 8)
      [] element_type = 2 ->
            IF Has(p, 4) THEN AsString(get_bson_string(p + 4, BsonLength(p))) ELSE Error
      [] element_type = 3 -> BsonDocument("object", p)
      [] element_type = 4 -> BsonDocument("array", p)
      [] element_type = 5 ->
            IF Has(p, 4) THEN get_bson_binary(p + 4, BsonLength(p)) ELSE Error
      [] element_type = 8 -> Leaf(<<"boolean", Byte(p) # 0>>, Min({p + 1, Len(text)}))
      [] element_type = 10 -> Leaf(<<"null">>, p)
      [] element_type = 16 -> Integer(p, 4)
      [] element_type = 18 -> Integer(p, 8)
      [] element_type = 17 -> Unsigned(p, 8)
      [] OTHER -> Error
=============================================================================
