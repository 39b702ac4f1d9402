----------------------------- MODULE JsonReread -----------------------------
(* What the serializer's text must be: read by the definitions of           *)
(* JsonTokens, it denotes the value that was dumped.                        *)
EXTENDS JsonSerializer

R == INSTANCE JsonTokens WITH
        form <- <<>>, text <- out, lexer <- <<>>, pc <- "", arg <- <<>>, tokens <- <<>>,
        parser <- "", Shapes <- {}, IgnoreComments <- FALSE, DecimalPoint <- 46
U == INSTANCE Utf8

(* The code points of a string in which mark stands for each maximal part   *)
(* that begins like a unit and is none, as the Unicode standard recommends. *)
BeginsUnit(b) ==
    \E fill \in {128, 191} : LET n == U!UnitLength(b[1])
                             IN  n > Len(b) /\ U!UnitAt(b \o Repeat(fill, n - Len(b)), 1, n)

RECURSIVE Repaired(_, _)
Repaired(b, mark) ==
    IF b = <<>> THEN <<>>
    ELSE LET n == U!UnitLength(b[1])
             parts == {k \in 2..Min({3, Len(b)}) : BeginsUnit(SubSeq(b, 1, k))}
             skip == Max({1} \cup parts)
         IN  IF U!UnitAt(b, 1, n)
             THEN <<U!UnitValue(b, 1, n)>> \o Repaired(SubSeq(b, n + 1, Len(b)), mark)
             ELSE mark \o Repaired(SubSeq(b, skip + 1, Len(b)), mark)

(* What the error handler leaves of a string.                               *)
KeptPoints(b) == Repaired(b, IF call.error_handler = "replace" THEN <<65533>> ELSE <<>>)

(* The sign, digits and exponent of a numeral with a point or an exponent.  *)
Place(c, s) == CHOOSE i \in 1..(Len(s) + 1) :
                    (i = Len(s) + 1 \/ s[i] = c) /\ \A k \in 1..(i - 1) : s[k] # c

Natural(s) == FoldLeft(LAMBDA n, d : 10 * n + d - 48, 0, s)

FloatRead(s) ==
    LET unsigned == IF s[1] = 45 THEN Tail(s) ELSE s
        mantissa == SubSeq(unsigned, 1, Place(101, unsigned) - 1)
        exponent == SubSeq(unsigned, Place(101, unsigned) + 2, Len(unsigned))
        negative == exponent # <<>> /\ unsigned[Place(101, unsigned) + 1] = 45
        digits == SelectSeq(mantissa, LAMBDA c : c # 46)
        behind == Max({0, Len(mantissa) - Place(46, mantissa)})
        ones == {i \in DOMAIN digits : digits[i] # 48}
    IN  IF ones = {} THEN <<"float", IF s[1] = 45 THEN 1 ELSE 0, <<>>, 0>>
        ELSE <<"float", IF s[1] = 45 THEN 1 ELSE 0,
               [i \in 1..(Max(ones) - Min(ones) + 1) |-> digits[i + Min(ones) - 1] - 48],
               (IF negative THEN -Natural(exponent) ELSE Natural(exponent))
                    - behind + Len(digits) - Max(ones)>>

(* The value that tokens denote, from token i on, and the token after it.   *)
RECURSIVE ReadValue(_, _), ReadElements(_, _, _), ReadMembers(_, _, _)
ReadValue(tokens, i) ==
    LET t == tokens[i]
    IN  CASE t[1] = "literal_null" -> <<<<"null">>, i + 1>>
          [] t[1] \in {"literal_true", "literal_false"} -> <<<<"boolean", t[1] = "literal_true">>, i + 1>>
          [] t[1] = "value_string" -> <<<<"string", t[2]>>, i + 1>>
          [] t[1] = "value_integer" -> <<<<"integer", t[2]>>, i + 1>>
          [] t[1] = "value_unsigned" -> <<<<"unsigned", t[2]>>, i + 1>>
          [] t[1] = "value_float" -> <<FloatRead(t[2]), i + 1>>
          [] t[1] = "begin_array" -> ReadElements(tokens, i + 1, <<>>)
          [] t[1] = "begin_object" -> ReadMembers(tokens, i + 1, <<>>)
          [] OTHER -> <<<<"no value">>, Len(tokens)>>

ReadElements(tokens, i, elements) ==
    IF tokens[i][1] = "end_array" THEN <<<<"array", elements>>, i + 1>>
    ELSE LET r == ReadValue(tokens, i)
             next == IF tokens[r[2]][1] = "value_separator" THEN r[2] + 1 ELSE r[2]
         IN  IF tokens[r[2]][1] \notin {"value_separator", "end_array"}
             THEN <<<<"no value">>, Len(tokens)>>
             ELSE ReadElements(tokens, next, Append(elements, r[1]))

(* The members in their order, as pairs.                                    *)
ReadMembers(tokens, i, members) ==
    IF tokens[i][1] = "end_object" THEN <<<<"object", members>>, i + 1>>
    ELSE LET r == ReadValue(tokens, i + 2)
             next == IF tokens[r[2]][1] = "value_separator" THEN r[2] + 1 ELSE r[2]
         IN  IF tokens[i][1] # "value_string" \/ tokens[r[2]][1] \notin {"value_separator", "end_object"}
             THEN <<<<"no value">>, Len(tokens)>>
             ELSE ReadMembers(tokens, next, Append(members, <<tokens[i][2], r[1]>>))

(* The value as dump means it: binary values are objects of numbers,        *)
(* numbers that are not finite are null, integers have one form.            *)
RECURSIVE Meant(_)
Number(n) == IF n < 0 THEN <<"integer", n>> ELSE <<"unsigned", n>>
Meant(v) ==
    CASE v[1] = "string" -> <<"string", KeptPoints(v[2])>>
      [] v[1] \in {"integer", "unsigned"} -> Number(v[2])
      [] v[1] = "float" -> IF Len(v) = 1 THEN <<"null">> ELSE v
      [] v[1] = "binary" ->
            <<"object", << << SubSeq(BytesName, 2, 6),
                              <<"array", [i \in DOMAIN v[2] |-> Number(v[2][i])]>> >>,
                           << SubSeq(SubtypeName, 2, 8),
                              IF v[3] = <<>> THEN <<"null">> ELSE Number(CountOf(v[3])) >> >> >>
      [] v[1] = "array" -> <<"array", [i \in DOMAIN v[2] |-> Meant(v[2][i])]>>
      [] v[1] = "object" ->
            LET keys == KeysInOrder(v[2])
            IN  <<"object", [i \in DOMAIN keys |-> <<KeptPoints(keys[i]), Meant(v[2][keys[i]])>>]>>
      [] OTHER -> v

RECURSIVE StringsOf(_)
StringsOf(v) ==
    CASE v[1] = "string" -> {v[2]}
      [] v[1] = "array" -> UNION {StringsOf(v[2][i]) : i \in DOMAIN v[2]}
      [] v[1] = "object" -> DOMAIN v[2] \cup UNION {StringsOf(v[2][k]) : k \in DOMAIN v[2]}
      [] OTHER -> {}

-----------------------------------------------------------------------------
(* Properties *)

(* What dump writes is read as the value it was called with: strings and    *)
(* keys survive escaping, buffering and decoding in any error handler's     *)
(* mode, numbers keep their value and floats stay floats, in every layout,  *)
(* with ASCII only where ensure_ascii is set.  Exactly for the strings that *)
(* are not UTF-8, and with the strict handler only, dump throws.            *)
DumpsWhatWasParsed ==
    /\ status = "done" =>
        /\ \E r \in {ReadValue(R!RefText, 1)} :
              r[1] = Meant(call.val) /\ r[2] = Len(R!RefText)
        /\ call.ensure_ascii => \A i \in DOMAIN out : out[i] \in 0..127
        /\ call.error_handler = "strict" => \A s \in StringsOf(call.val) : U!WellFormedUtf8(s)
    /\ status = "thrown" =>
        call.error_handler = "strict" /\ \E s \in StringsOf(call.val) : ~U!WellFormedUtf8(s)
=============================================================================
