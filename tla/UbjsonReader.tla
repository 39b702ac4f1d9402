---------------------------- MODULE UbjsonReader ----------------------------
(* binary_reader for UBJSON and BJData.  A container may begin with the     *)
(* type of its elements and their count; in BJData the count may itself be  *)
(* an array, the dimensions of an annotated array.                          *)
(*                                                                          *)
(* Two restrictions on inputs: the numeral of a high-precision number is an *)
(* integer, and no count is 2^64 - 1 (the code's mark for "no count").      *)
EXTENDS BinaryReader, UbjsonWriter

Bjdata == format = "bjdata"

(* get_ignore_noop: the position of the next byte that is not N.            *)
SkipNoop(p) == Min({q \in p..Len(text) : Byte(q) # Ch.N})

(* The integer type that a marker names in this format, if any.             *)
TypesOf(marker) ==
    {t \in Range(IntegerTypes) : t.marker = marker /\ (t.bjdata => Bjdata)}

TypeOf(marker) == CHOOSE t \in TypesOf(marker) : TRUE

NegativeAt(p, t) == t.signed /\ get_number(p, t.width)[1] >= 128

(* The length of a string and the string; a negative length reads nothing.  *)
get_ubjson_string(p) ==
    LET marker == Byte(p)
        t == TypeOf(marker)
    IN  IF TypesOf(marker) = {} \/ ~Has(p + 1, t.width) THEN Error
        ELSE get_string(p + 1 + t.width,
                        IF NegativeAt(p + 1, t) THEN 0 ELSE CountAt(p + 1, t.width))

Size(n, dims, next) == <<"size", n, dims, next>>

SizeInField(t, p) ==
    IF Has(p, t.width) /\ ~NegativeAt(p, t)
    THEN Size(CountAt(p, t.width), <<>>, p + t.width) ELSE Error

(* The number of elements of an array with dimensions dim.  One row is a    *)
(* plain array and no element an empty one; overflow is refused.            *)
Times(a, b) == IF b > 0 /\ a > Huge \div b THEN Huge ELSE a * b

SizeOfDimensions(dim, next) ==
    IF Len(dim) = 1 \/ (Len(dim) = 2 /\ dim[1] = 1) THEN Size(Last(dim), <<>>, next)
    ELSE IF dim = <<>> \/ 0 \in Range(dim) THEN Size(0, <<>>, next)
    ELSE Size(FoldSeq(Times, 1, dim), dim, next)

-----------------------------------------------------------------------------
(* get_ubjson_size_value, from the byte after the marker (marker 0: not yet *)
(* read).                                                                   *)
RECURSIVE get_ubjson_size_value(_, _, _)

(* get_ubjson_size_type: <<"sized", count, type, dims, next>>; next is the  *)
(* position of the current byte when there is no count.                     *)
get_ubjson_size_type(p, inside_ndarray) ==
    LET q == SkipNoop(p)
        type == Byte(q + 1)
        r == SkipNoop(q + 2)
    IN  CASE Byte(q) = Ch.type ->
                IF type = EOF \/ (Bjdata /\ type \in ExcludedTypes) \/ Byte(r) # Ch.count THEN Error
                ELSE IfRead(get_ubjson_size_value(0, r + 1, FALSE), LAMBDA size :
                        IF inside_ndarray /\ size[3] # <<>> THEN Error
                        ELSE <<"sized", size[2], type, size[3], size[4]>>)
          [] Byte(q) = Ch.count ->
                IfRead(get_ubjson_size_value(0, q + 1, FALSE), LAMBDA size :
                    IF size[3] # <<>> THEN Error ELSE <<"sized", size[2], 0, <<>>, size[4]>>)
          [] OTHER -> <<"sized", Unknown, 0, <<>>, q>>

(* n sizes, each with the given marker, or as many as come before the end.  *)
RECURSIVE Dimensions(_, _, _)
Dimensions(n, marker, p) ==
    IF n = 0 THEN Size(0, <<>>, p)
    ELSE IfRead(get_ubjson_size_value(marker, p, TRUE), LAMBDA first :
            IfRead(Dimensions(n - 1, marker, first[4]), LAMBDA rest :
                Size(0, <<first[2]>> \o rest[3], rest[4])))

RECURSIVE DimensionsToEnd(_)
DimensionsToEnd(p) ==
    IF Byte(p) = Ch.endArray THEN Size(0, <<>>, p + 1)
    ELSE IfRead(get_ubjson_size_value(Byte(p), p + 1, TRUE), LAMBDA first :
            IfRead(DimensionsToEnd(SkipNoop(first[4])), LAMBDA rest :
                Size(0, <<first[2]>> \o rest[3], rest[4])))

get_ubjson_ndarray_size(p) ==
    IfRead(get_ubjson_size_type(p, TRUE), LAMBDA sized :
        IF sized[2] = Unknown THEN DimensionsToEnd(sized[5])
        ELSE Dimensions(sized[2], sized[3], sized[5]))

get_ubjson_size_value(marker, p, no_ndarray) ==
    LET q == SkipNoop(p)
    IN  CASE marker = 0 -> IF Byte(q) \in {0, EOF} THEN Error
                           ELSE get_ubjson_size_value(Byte(q), q + 1, no_ndarray)
          [] marker # 0 /\ TypesOf(marker) # {} -> SizeInField(TypeOf(marker), p)
          [] marker = Ch.array /\ Bjdata /\ ~no_ndarray ->
                IfRead(get_ubjson_ndarray_size(p), LAMBDA dim : SizeOfDimensions(dim[3], dim[4]))
          [] OTHER -> Error

-----------------------------------------------------------------------------
(* H: the lexer reads the numeral; a number out of range becomes a float.   *)

Digits == 48..57

Negated(n) ==
    LET last == Max({0} \cup {i \in DOMAIN n : n[i] # 0})
    IN  [i \in DOMAIN n |-> CASE i < last -> 255 - n[i]
                              [] i = last -> 256 - n[i]
                              [] OTHER -> n[i]]

(* The eight bytes of a decimal numeral, or <<>> when it needs more.        *)
RECURSIVE OfDecimal(_)
OfDecimal(digits) ==
    IF digits = <<>> THEN Repeat(0, 8)
    ELSE LET high == OfDecimal(Front(digits))
             carry[i \in 1..9] ==
                IF i = 9 THEN Last(digits) - 48
                ELSE ((high[i] * 10) + carry[i + 1]) \div 256
         IN  IF high = <<>> THEN <<>>
             ELSE IF carry[1] > 0 THEN <<>>
             ELSE [i \in 1..8 |-> ((high[i] * 10) + carry[i + 1]) % 256]

Numeral(b) == b # <<>> /\ Range(b) \subseteq Digits /\ (Len(b) > 1 => b[1] # 48)

HighPrecisionValue(b, next) ==
    LET minus == b # <<>> /\ b[1] = 45
        digits == IF minus THEN Tail(b) ELSE b
        n == OfDecimal(digits)
    IN  CASE ~Numeral(digits) -> Error
          [] Numeral(digits) /\ ~minus /\ n # <<>> -> Leaf(<<"unsigned", n>>, next)
          [] Numeral(digits) /\ minus /\ n # <<>> /\ (Negative(Negated(n)) \/ n = Repeat(0, 8)) ->
                Leaf(<<"integer", Negated(n)>>, next)
          [] OTHER -> Leaf(<<"float", <<"text", b>>>>, next)

get_ubjson_high_precision_number(p) ==
    IfRead(get_ubjson_size_value(0, p, TRUE), LAMBDA size :
        IfRead(get_string(size[4], size[2]), LAMBDA number :
            HighPrecisionValue(number[2], number[3])))

-----------------------------------------------------------------------------
(* Containers and values *)

(* The bytes of the annotated types are numbers, whatever they are called.  *)
ElementType(dtype) == IF dtype \in {Ch.C, Ch.B} THEN Ch.U ELSE dtype

OpenNdarray(dtype, count, dim, next) ==
    IF dtype \notin NdarrayTypes THEN Error
    ELSE LET o == Typed(Open("ndarray", count, next), ElementType(dtype))
         IN  <<"open", [o[2] EXCEPT !.dims = <<dtype, dim>>], next>>

get_ubjson_array(p) ==
    IfRead(get_ubjson_size_type(p, FALSE), LAMBDA sized :
        LET count == sized[2]
            type == sized[3]
        IN  CASE sized[4] # <<>> -> OpenNdarray(type, count, sized[4], sized[5])
              [] Bjdata /\ sized[4] = <<>> /\ count # Unknown /\ type = Ch.B ->
                    AsBinary(get_binary(sized[5], count), <<>>)
              [] ~Bjdata /\ type = Ch.N -> Open("array", 0, sized[5])
              [] OTHER -> Typed(Open("array", count, sized[5]), type))

get_ubjson_object(p) ==
    IfRead(get_ubjson_size_type(p, FALSE), LAMBDA sized :
        IF sized[4] # <<>> THEN Error ELSE Typed(Open("object", sized[2], sized[5]), sized[3]))

get_ubjson_value(marker, p) ==
    CASE marker \in {Ch.T, Ch.F} -> Leaf(<<"boolean", marker = Ch.T>>, p)
      [] marker = Ch.Z -> Leaf(<<"null">>, p)
      [] marker = Ch.B /\ Bjdata -> Unsigned(p, 1)
      [] TypesOf(marker) # {} ->
            IF TypeOf(marker).signed THEN Integer(p, TypeOf(marker).width)
            ELSE Unsigned(p, TypeOf(marker).width)
      [] marker = Ch.h /\ Bjdata -> Half(p)
      [] marker = Ch.d -> Float(p, 4)
      [] marker = Ch.D -> Float(p, 8)
      [] marker = Ch.H -> get_ubjson_high_precision_number(p)
      [] marker = Ch.C ->
            IF Byte(p) \in 0..127 THEN Leaf(<<"string", <<Byte(p)>>>>, p + 1) ELSE Error
      [] marker = Ch.S -> AsString(get_ubjson_string(p))
      [] marker = Ch.array -> get_ubjson_array(p)
      [] marker = Ch.object -> get_ubjson_object(p)
      [] OTHER -> Error

parse_ubjson_internal(p) == get_ubjson_value(Byte(SkipNoop(p)), SkipNoop(p) + 1)
=============================================================================
