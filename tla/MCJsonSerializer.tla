-------------------------- MODULE MCJsonSerializer --------------------------
(* The calls of the run of JsonReread. *)
EXTENDS JsonReread

Calling(values, pretty, ascii, steps, chars, handlers) ==
    [val : values, pretty_print : pretty, ensure_ascii : ascii, indent_step : steps,
     indent_char : chars, error_handler : handlers]

Handlers == {"strict", "replace", "ignore"}

(* Both ends of the ranges of UTF-8, a quote, a control character.          *)
StringBytes == {34, 65, 10, 31, 127, 128, 143, 144, 159, 160, 191, 193, 194, 224, 237, 239, 240,
                243, 244, 245}
Texts(bytes, n) == UNION {[1..k -> bytes] : k \in 0..n}
StringCalls ==
    Calling({<<"string", s>> : s \in Texts(StringBytes, 3)}, {FALSE}, BOOLEAN, {0}, {32}, Handlers)

(* Code points of every length, escaped in every way, and parts of them.    *)
Units == {<<65>>, <<34>>, <<1>>, <<195, 191>>, <<239, 191, 189>>, <<244, 143, 191, 191>>,
          <<240, 144>>, <<224, 160>>, <<255>>}
UnitStrings == {FlattenSeq(u) : u \in UNION {[1..k -> Units] : k \in 0..4}}
BufferCalls ==
    Calling({<<"string", s>> : s \in UnitStrings}, {FALSE}, BOOLEAN, {0}, {32}, Handlers)

Numbers ==
    {<<"integer", n>> : n \in {-MaxInteger - 1, -MaxInteger, MaxInteger, -1, -10, -99, -100, -1000}}
        \cup {<<"unsigned", n>> : n \in {0, 9, 10, 99, 100, 101, 999, 1000, 9999, 10000, 10001,
                                        99999, 100000, MaxUnsigned}}
Floats ==
    {<<"float">>} \cup
    {<<"float", s, d, e>> : s \in {0, 1}, d \in {<<1>>, <<1, 2>>, <<1, 0, 5>>},
                           e \in {-325, -100, -99, -10, -7, -6, -5, -4, -3, -2, -1, 0, 1, 11, 12, 13,
                                  14, 15, 16, 98, 99, 100, 300}}
        \cup {<<"float", s, <<>>, 0>> : s \in {0, 1}}
Leaves == Numbers \cup Floats \cup {<<"null">>, <<"boolean", TRUE>>, <<"boolean", FALSE>>,
            <<"binary", <<>>, <<>>>>, <<"binary", <<7, 255>>, BigEndian(3)>>}
Some == {<<"null">>, <<"unsigned", 10>>, <<"string", <<91, 34>>>>, <<"array", <<>>>>, <<"object", <<>>>>,
         <<"binary", <<1, 2>>, <<>>>>}
Pairs == {<<"array", <<x, y>>>> : x \in Some, y \in Some}
Held == {<<"object", (<<98>> :> x) @@ (<<>> :> y)>> : x \in Some, y \in Some}
Deep == {<<"array", <<x, <<"array", <<y>>>>>>>> : x \in Held, y \in {<<"object", <<34>> :> z>> : z \in Some}}
ValueCalls ==
    Calling(Leaves, BOOLEAN, {FALSE}, {1}, {32}, {"strict"})
        \cup Calling(Pairs \cup Held \cup Deep, BOOLEAN, {FALSE}, {0, 1, 2}, {32, 9}, {"strict"})

AllCalls == StringCalls \cup BufferCalls \cup ValueCalls
=============================================================================
