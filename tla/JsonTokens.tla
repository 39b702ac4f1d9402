----------------------------- MODULE JsonTokens -----------------------------
(***************************************************************************)
(* The tokens of a finished text by their definitions (RFC 8259), and      *)
(* which tokens the lexer of JsonLexer must find in every text.            *)
(***************************************************************************)
EXTENDS JsonLexer, Utf8

\* The byte at position i, Eof past the end.
Byte(i) == IF i \in DOMAIN text THEN text[i] ELSE Eof

-----------------------------------------------------------------------------
(* Numbers *)

AllDigits(s) == s # <<>> /\ \A i \in DOMAIN s : s[i] \in Digits

IsInt(s) == AllDigits(s) /\ (s[1] = 48 => Len(s) = 1)
IsFrac(s) == s = <<>> \/ (s[1] = 46 /\ AllDigits(Tail(s)))
IsExp(s) ==
    \/ s = <<>>
    \/ /\ s[1] \in Exponents
       /\ AllDigits(Tail(s)) \/ (Len(s) > 1 /\ s[2] \in {43, 45} /\ AllDigits(SubSeq(s, 3, Len(s))))

\* An integer part, a fraction and an exponent, after an optional minus.
IsNumber(s) ==
    \E i, k \in 0..Len(s) :
        /\ i <= k
        /\ LET int == SubSeq(s, 1, i)
           IN  IsInt(int) \/ (int # <<>> /\ int[1] = 45 /\ IsInt(Tail(int)))
        /\ IsFrac(SubSeq(s, i + 1, k))
        /\ IsExp(SubSeq(s, k + 1, Len(s)))

\* The start of a number: one more digit makes it one, if it is not already.
IsNumberPrefix(s) == IsNumber(s) \/ IsNumber(Append(s, 48))

\* The end of the longest start of a number that begins at i.
NumberEnd(i) ==
    CHOOSE k \in i..Len(text) :
        /\ IsNumberPrefix(SubSeq(text, i, k))
        /\ k < Len(text) => ~IsNumberPrefix(SubSeq(text, i, k + 1))

RefNumber(s) ==
    LET negative == s[1] = 45
        digits == IF negative THEN Tail(s) ELSE s
        n == Magnitude(digits)
    IN  CASE ~IsNumber(s) -> <<"parse_error">>
          [] AllDigits(digits) /\ ~negative /\ n <= MaxUnsigned -> <<"value_unsigned", n>>
          [] AllDigits(digits) /\ negative /\ -n >= -MaxInteger - 1 -> <<"value_integer", -n>>
          [] OTHER -> <<"value_float", s>>

-----------------------------------------------------------------------------
(* Strings: <<code points, position after the closing quote>>; position 0  *)
(* if there is no string.                                                  *)

NoString == <<<<>>, 0>>

\* The value of four hexadecimal digits at i; -1 if they are not there.
Hex4(i) ==
    IF \E k \in 0..3 : HexDigit(Byte(i + k)) = -1 THEN -1
    ELSE 4096 * HexDigit(Byte(i)) + 256 * HexDigit(Byte(i + 1))
         + 16 * HexDigit(Byte(i + 2)) + HexDigit(Byte(i + 3))

IsUnicodeEscape(i) == Byte(i) = Backslash /\ Byte(i + 1) = Letter_u /\ Hex4(i + 2) # -1

RECURSIVE RefString(_, _)
RefString(i, cps) ==
    LET b == Byte(i)
        n == UnitLength(b)
        high == Hex4(i + 2)
        low == Hex4(i + 8)
    IN  CASE b = Quote -> <<cps, i + 1>>
          [] b \in {Eof} \cup 0..31 -> NoString
          [] b = Backslash /\ Byte(i + 1) \in DOMAIN Escapes ->
                RefString(i + 2, Append(cps, Escapes[Byte(i + 1)]))
          [] IsUnicodeEscape(i) /\ IsScalar(high) -> RefString(i + 6, Append(cps, high))
          [] IsUnicodeEscape(i) /\ high \in 55296..56319 ->
                IF IsUnicodeEscape(i + 6) /\ low \in 56320..57343
                THEN RefString(i + 12, Append(cps, 65536 + (high - 55296) * 1024 + low - 56320))
                ELSE NoString
          [] b # Backslash /\ UnitAt(text, i, n) -> RefString(i + n, Append(cps, UnitValue(text, i, n)))
          [] OTHER -> NoString

-----------------------------------------------------------------------------
(* Texts *)

\* The end of a comment that begins at i; 0 if it has none.
CommentEnd(i) ==
    LET line == {k \in i + 2..Len(text) + 1 : Byte(k) \in {Newline, 13, 0, Eof}}
        block == {k \in i + 3..Len(text) : Byte(k) = Slash /\ Byte(k - 1) = Asterisk
                                           /\ \A m \in i + 2..k - 2 : Byte(m) # 0}
        least(S) == CHOOSE k \in S : \A m \in S : k <= m
    IN  CASE Byte(i + 1) = Slash -> least(line)
          [] Byte(i + 1) = Asterisk /\ block # {} -> least(block)
          [] OTHER -> 0

\* The position of the next token's first byte; 0 after a bad comment.
RECURSIVE TokenStart(_)
TokenStart(i) ==
    CASE Byte(i) \in Whitespace -> TokenStart(i + 1)
      [] Byte(i) = Slash /\ IgnoreComments ->
            IF CommentEnd(i) = 0 THEN 0 ELSE TokenStart(CommentEnd(i) + 1)
      [] OTHER -> i

\* The tokens from position i on.
RECURSIVE RefTokens(_)
RefTokens(from) ==
    LET i == TokenStart(from)
        b == Byte(i)
        string == RefString(i + 1, <<>>)
        number == RefNumber(SubSeq(text, i, NumberEnd(i)))
    IN  CASE i = 0 -> <<<<"parse_error">>>>
          [] b \in {0, Eof} -> <<<<"end_of_input">>>>
          [] b = Quote -> IF string[2] = 0 THEN <<<<"parse_error">>>>
                          ELSE <<<<"value_string", string[1]>>>> \o RefTokens(string[2])
          [] b \in Digits \cup {45} ->
                IF number[1] = "parse_error" THEN <<number>>
                ELSE <<number>> \o RefTokens(NumberEnd(i) + 1)
          [] \E t \in DOMAIN Structural : b = Structural[t] ->
                <<<<CHOOSE t \in DOMAIN Structural : b = Structural[t]>>>> \o RefTokens(i + 1)
          [] \E t \in DOMAIN Literals : \A k \in DOMAIN Literals[t] : Byte(i + k - 1) = Literals[t][k] ->
                LET t == CHOOSE t \in DOMAIN Literals : b = Literals[t][1]
                IN  <<<<t>>>> \o RefTokens(i + Len(Literals[t]))
          [] OTHER -> <<<<"parse_error">>>>

RefText ==
    IF Byte(1) # 239 THEN RefTokens(1)
    ELSE IF Byte(2) = 187 /\ Byte(3) = 191 THEN RefTokens(4)
    ELSE <<<<"parse_error">>>>

\* A token with a string's code points in place of its bytes.
Decoded(token) ==
    IF token[1] = "value_string" THEN <<"value_string", Codepoints(token[2])>> ELSE token

-----------------------------------------------------------------------------
(* Properties *)

\* The lexer's gotos, ranges and ungets find the tokens the definitions
\* give: numbers by maximal munch and of the type that holds them, strings
\* with the code points that were escaped or encoded, comments up to their
\* first end, and the first error at the same token.  (No one looks at what
\* the strict parser's last scan finds after an error.)
TokensAreThoseOfTheText ==
    parser = "ending" /\ pc = "scan" =>
        [i \in DOMAIN tokens |-> Decoded(tokens[i])] = RefText
=============================================================================
