-------------------------- MODULE MCBinaryFormats --------------------------
(* The inputs of the run of BinaryFormats. *)
EXTENDS BinaryFormats

Null == <<"null">>
Bool(b) == <<"boolean", b>>
Sint(n) == <<"integer", n>>
Uint(n) == <<"unsigned", n>>
Str(b) == <<"string", b>>
Arr(s) == <<"array", s>>
Obj(f) == <<"object", f>>
EmptyObject == Obj(<<>>)

(* 2^k and its two neighbours, for each k at which a size class ends.       *)
PowerBytes(k) == [i \in 1..8 |-> IF 8 - i = k \div 8 THEN 2^(k % 8) ELSE 0]
BelowPower(k) == [i \in 1..8 |-> CASE 8 - i = k \div 8 -> 2^(k % 8) - 1
                                   [] 8 - i < k \div 8 -> 255
                                   [] OTHER -> 0]

(* Numbers on both sides of the limits of every field, and of the limits    *)
(* 23 and 31 of the short forms.                                            *)
Edges == {BigEndian(n) : n \in {0, 1, 23, 24, 31, 32, 33}}
            \cup UNION {{PowerBytes(k), BelowPower(k)} : k \in {7, 8, 15, 16, 31, 32, 63}}
            \cup {Repeat(255, 8)}
Integers64 == {Uint(n) : n \in Edges} \cup {Sint(n) : n \in {e \in Edges : ~Negative(e)}}
                \cup {Sint(Complement(n)) : n \in {e \in Edges : ~Negative(e)}}

(* The limits of float and of double, and numbers that need a double.       *)
Floats == {<<"float", f>> : f \in
    { <<"nan">>, <<"inf", 0>>, <<"inf", 1>>, <<"finite", 0, <<>>, 0>>, <<"finite", 1, <<>>, 0>>,
      Finite(0, <<1, 1>>, -1), Finite(1, <<1>>, -149), Finite(0, <<1>>, -150),
      Finite(0, Repeat(1, 24), 104), Finite(0, Repeat(1, 25), 103), Finite(1, <<1>>, 128),
      Finite(0, <<1>> \o Repeat(0, 23) \o <<1>>, -24), Finite(0, <<1>>, -1074),
      Finite(0, Repeat(1, 53), 971) }}

Strings == {Str(Repeat(97, n)) : n \in {0, 1, 23, 24, 31, 32, 127, 128, 255, 256, 300}}
LongStrings == {Str(Repeat(98, n)) : n \in {32767, 32768, 65535, 65536}}

Subtypes == {<<>>, BigEndian(0), BigEndian(255), BigEndian(256), BigEndian(65536), PowerBytes(32)}
Binaries == {<<"binary", Repeat(200, n), s>> : n \in {0, 1, 2, 3, 4, 8, 16, 17}, s \in Subtypes}
                \cup {<<"binary", Repeat(7, n), s>> : n \in {23, 24, 255, 256}, s \in {<<>>, BigEndian(1)}}

(* What an array holds decides whether its elements share a marker.         *)
Elements == {Null, Bool(TRUE), Bool(FALSE), Sint(BigEndian(5)), Uint(BigEndian(200)),
             Sint(Complement(BigEndian(4))), Uint(BelowPower(16)), Uint(Repeat(255, 8)),
             <<"float", Finite(0, <<1, 1>>, -1)>>, Str(<<97>>), Str(<<>>), Arr(<<>>),
             Arr(<<Null>>), EmptyObject, <<"binary", <<1>>, <<>>>>, <<"binary", <<>>, BigEndian(3)>>}
Pairs == {Arr(<<x, y>>) : x \in Elements, y \in Elements}
Members == {Obj((<<97>> :> x) @@ (<<97, 98>> :> y)) : x \in Elements, y \in Elements}
Sized == {Arr(Repeat(Null, n)) : n \in {15, 16, 23, 24, 32, 255, 256}}
            \cup {Obj([k \in {<<i>> : i \in 1..n} |-> Bool(TRUE)]) : n \in {15, 16, 23, 24}}
Nested == {Arr(<<Arr(<<Arr(<<Uint(BigEndian(1))>>)>>), Arr(<<Arr(<<>>)>>)>>),
           Obj(<<97>> :> Arr(<<Obj(<<98>> :> Null), Obj(<<98>> :> Null)>>)),
           Obj((<<>> :> Obj(<<>> :> Uint(Repeat(255, 8)))) @@ (<<98>> :> Obj(<<97>> :> Uint(PowerBytes(63)))))}

Ndarray(type, dim, data) ==
    Obj((ArrayTypeKey :> Str(<<type>>))
        @@ (ArraySizeKey :> Arr([i \in DOMAIN dim |-> Uint(BigEndian(dim[i]))]))
        @@ (ArrayDataKey :> Arr(data)))

Shapes == {<<2, 1>>, <<1, 2>>, <<2>>, <<1, 2, 1>>, <<0, 2>>, <<>>, <<2, 3>>}
SomeProduct(dim) == IF dim = <<>> THEN 0 ELSE FoldSeq(Times, 1, dim)
Mistyped == Obj((ArrayTypeKey :> Uint(BigEndian(1))) @@ (ArraySizeKey :> Arr(<<>>))
                    @@ (ArrayDataKey :> Arr(<<>>)))

(* Arrays whose elements have the type of the array, and others whose       *)
(* elements are too wide for it or of the other sign.                       *)
Ndarrays ==
    UNION {{Ndarray(Ch.U, dim, Repeat(Uint(BigEndian(200)), SomeProduct(dim))),
            Ndarray(Ch.C, dim, Repeat(Uint(BigEndian(65)), SomeProduct(dim))),
            Ndarray(Ch.B, dim, Repeat(Uint(BigEndian(66)), SomeProduct(dim))),
            Ndarray(Ch.I, dim, Repeat(Sint(Complement(BigEndian(300))), SomeProduct(dim))),
            Ndarray(Ch.m, dim, Repeat(Uint(PowerBytes(31)), SomeProduct(dim))),
            Ndarray(Ch.L, dim, Repeat(Sint(Complement(BelowPower(63))), SomeProduct(dim))),
            Ndarray(Ch.U, dim, Repeat(Uint(BigEndian(300)), SomeProduct(dim))),
            Ndarray(Ch.C, dim, Repeat(Uint(BigEndian(256 + 65)), SomeProduct(dim))),
            Ndarray(Ch.i, dim, Repeat(Uint(BigEndian(200)), SomeProduct(dim))),
            Ndarray(Ch.u, dim, Repeat(Sint(Complement(BigEndian(0))), SomeProduct(dim))),
            Ndarray(Ch.l, dim, Repeat(Uint(PowerBytes(32)), SomeProduct(dim))),
            Ndarray(Ch.M, dim, Repeat(Uint(PowerBytes(63)), SomeProduct(dim))),
            Ndarray(Ch.d, dim, Repeat(<<"float", Finite(1, <<1, 1>>, -1)>>, SomeProduct(dim))),
            Ndarray(Ch.D, dim, Repeat(<<"float", Finite(0, <<1>>, -150)>>, SomeProduct(dim)))}
           : dim \in Shapes}
        \cup {Ndarray(Ch.N, <<2, 1>>, <<Null, Null>>), Ndarray(Ch.U, <<2, 3>>, <<>>), Mistyped,
              Arr(<<Mistyped>>)}

(* The sets of values, by name; the elements of "members" and the objects   *)
(* that hold one scalar are documents of BSON.                              *)
ValueSet(name) ==
    CASE name = "integers" -> Integers64
      [] name = "floats" -> Floats
      [] name = "strings" -> Strings
      [] name = "long" -> LongStrings
      [] name = "binaries" -> Binaries
      [] name = "elements" -> Elements
      [] name = "pairs" -> Pairs
      [] name = "members" -> Members
      [] name = "sized" -> Sized
      [] name = "nested" -> Nested
      [] name = "ndarrays" -> Ndarrays
      [] name = "held" -> {Obj(<<97>> :> x) : x \in Elements}
      [] name = "held integers" -> {Obj(<<97>> :> x) : x \in Integers64}
      [] name = "held floats" -> {Obj(<<97>> :> x) : x \in Floats}
      [] name = "held strings" -> {Obj(<<97>> :> x) : x \in Strings}
      [] name = "held binaries" -> {Obj(<<97>> :> x) : x \in Binaries}
      [] name = "held pairs" -> {Obj(<<97>> :> x) : x \in Pairs}

(* No text that is cut is longer.                                           *)
Longest == 64

WrittenIn(formats, names, bytes) == [format : formats, values : names, cut : {bytes}]

(* Values of every kind, and shorter ones of which every prefix is read.    *)
AllSources ==
    WrittenIn({"cbor", "msgpack", "ubjson", "bjdata"},
            {"strings", "binaries", "pairs", "members", "sized", "nested"}, 0)
        \cup WrittenIn({"cbor", "msgpack"}, {"long"}, 0)
        \cup WrittenIn({"bson"}, {"members", "sized", "nested", "held strings", "held binaries",
                               "held pairs"}, 0)
        \cup WrittenIn({"cbor", "msgpack", "ubjson", "bjdata"},
                {"integers", "floats", "elements", "held"}, Longest)
        \cup WrittenIn({"ubjson", "bjdata"}, {"ndarrays"}, Longest)
        \cup WrittenIn({"bson"}, {"held integers", "held floats", "held"}, Longest)

TextsOver(f, p, b, l, s) ==
    [format |-> f, prefix |-> p, bytes |-> b, lengths |-> l, suffix |-> s,
     strict |-> TRUE, tag_handler |-> "ignore"]
Loosely(x) == [x EXCEPT !.strict = FALSE, !.tag_handler = "error"]

(* The bytes at the ends of the ranges that the markers are sorted into,    *)
(* and the bytes that end or count.                                         *)
CborBytesRead ==
    {0, 1, 23, 24, 25, 32, 56, 64, 65, 88, 95, 96, 97, 120, 127, 128, 129, 152, 159, 160, 161,
     191, 198, 216, 246, 255}
MsgpackBytesRead ==
    {0, 1, 127, 128, 129, 144, 145, 160, 161, 192, 196, 199, 204, 205, 208, 209, 212, 213, 217,
     220, 224, 255}
UbjsonBytesRead ==
    {Ch.Z, Ch.N, Ch.i, Ch.U, Ch.S, Ch.C, Ch.array, Ch.endArray, Ch.object, Ch.endObject, Ch.type,
     Ch.count, 0, 1, 2, 255}
ShapeBytesRead == {Ch.i, Ch.endArray, Ch.type, Ch.count, 1, 2}

ManyTexts ==
    { TextsOver("cbor", <<>>, CborBytesRead, 0..3, <<>>),
      TextsOver("msgpack", <<>>, MsgpackBytesRead, 0..3, <<>>),
      TextsOver("ubjson", <<>>, UbjsonBytesRead, 0..3, <<>>),
      TextsOver("bjdata", <<>>, UbjsonBytesRead, 0..3, <<>>),
      TextsOver("ubjson", <<Ch.array>>, UbjsonBytesRead, {3}, <<Ch.endArray>>),
      TextsOver("bjdata", <<Ch.array, Ch.type, Ch.U, Ch.count, Ch.array>>, ShapeBytesRead, 0..5, <<>>),
      TextsOver("bjdata", <<Ch.array, Ch.type, Ch.U, Ch.count, Ch.array, Ch.i, 2>>, ShapeBytesRead,
                0..5, <<>>) }

HalfTexts ==
    {TextsOver("cbor", <<249, a>>, {0, 1, 2, 3, 128, 254, 255}, {1}, <<>>) : a \in 0..255}
        \cup {TextsOver("bjdata", <<Ch.h, b>>, 0..255, {1}, <<>>) : b \in {0, 1, 2, 3, 128, 254, 255}}

(* A tag, and bytes after the value.                                        *)
LooseTexts == {TextsOver("cbor", <<>>, {1, 128, 198, 216}, 1..2, <<>>)}

AllTexts == ManyTexts \cup {Loosely(x) : x \in HalfTexts \cup LooseTexts}
=============================================================================
