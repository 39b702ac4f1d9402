----------------------------- MODULE JsonLexer -----------------------------
(***************************************************************************)
(* class lexer of ext/nlohmann/json.hpp: scan() and the functions it       *)
(* calls, as a machine that takes one step per get().  The labels and      *)
(* loops of the code are the values of pc.  A character is a byte, chosen  *)
(* when it is read; Eof is what the input adapter returns at the end.      *)
(*                                                                         *)
(* The range of the integer types is a constant, so that numbers of two    *)
(* digits overflow them.                                                   *)
(***************************************************************************)
EXTENDS Integers, Sequences, FiniteSets, SequencesExt

CONSTANTS
    Shapes,             \* bound: the bytes that texts may have, at each position
    IgnoreComments,     \* the parser's option
    DecimalPoint,       \* decimal_point_char, of the locale
    MaxUnsigned,        \* the largest number_unsigned_t
    MaxInteger          \* the largest number_integer_t

ASSUME LexerAssumption ==
    /\ \A shape \in Shapes : shape \in Seq(SUBSET (0..255))
    /\ IgnoreComments \in BOOLEAN
    /\ DecimalPoint \in 0..255
    /\ MaxUnsigned \in Nat /\ MaxInteger \in Nat

VARIABLES
    form,       \* the shape of the text
    text,       \* the bytes read so far
    lexer,      \* the members of the class
    pc,         \* the place in the code that waits for get()
    arg,        \* its local variables
    tokens,     \* the tokens returned so far
    parser      \* "ending" once it has met an error or the end

vars == <<form, text, lexer, pc, arg, tokens, parser>>

Eof == -1
Newline == 10
Quote == 34
Slash == 47
Asterisk == 42
Backslash == 92
Letter_u == 117
Whitespace == {32, 9, Newline, 13}
Digits == 48..57
Exponents == {69, 101}
Structural == [begin_array |-> 91, end_array |-> 93, begin_object |-> 123,
               end_object |-> 125, name_separator |-> 58, value_separator |-> 44]
Literals == [literal_true |-> <<116, 114, 117, 101>>, literal_false |-> <<102, 97, 108, 115, 101>>,
             literal_null |-> <<110, 117, 108, 108>>]

NewLexer ==
    [current |-> Eof, next_unget |-> FALSE,
     position |-> [chars_read_total |-> 0, chars_read_current_line |-> 0, lines_read |-> 0],
     token_string |-> <<>>, token_buffer |-> <<>>, decimal_point_position |-> 0]

Init ==
    /\ form \in Shapes
    /\ text = <<>>
    /\ lexer = NewLexer
    /\ pc = "bom"
    /\ arg = <<>>
    /\ tokens = <<>>
    /\ parser = "parsing"

-----------------------------------------------------------------------------
(* Input management *)

Advance(p, c) ==
    [chars_read_total |-> p.chars_read_total + 1,
     chars_read_current_line |-> IF c = Newline THEN 0 ELSE p.chars_read_current_line + 1,
     lines_read |-> IF c = Newline THEN p.lines_read + 1 ELSE p.lines_read]

Retreat(p) ==
    [chars_read_total |-> p.chars_read_total - 1,
     chars_read_current_line |->
        IF p.chars_read_current_line = 0 THEN 0 ELSE p.chars_read_current_line - 1,
     lines_read |->
        IF p.chars_read_current_line = 0 /\ p.lines_read > 0 THEN p.lines_read - 1
        ELSE p.lines_read]

\* get(), which reads c.
Get(l, c) ==
    [l EXCEPT !.current = c, !.next_unget = FALSE, !.position = Advance(@, c),
              !.token_string = IF c = Eof THEN @ ELSE Append(@, c)]

\* A mutant: the character stays in the token's string.
UngetKeepsString(l) == [l EXCEPT !.next_unget = TRUE, !.position = Retreat(@)]

Unget(l) ==
    [l EXCEPT !.next_unget = TRUE, !.position = Retreat(@),
              !.token_string = IF l.current = Eof THEN @ ELSE Front(@)]

Reset(l) ==
    [l EXCEPT !.token_buffer = <<>>, !.decimal_point_position = 0,
              !.token_string = <<l.current>>]

Add(l, c) == [l EXCEPT !.token_buffer = Append(@, c)]

\* get_string: the locale's decimal point becomes '.' again.
GetString(l) ==
    IF l.decimal_point_position = 0 THEN l.token_buffer
    ELSE [l.token_buffer EXCEPT ![l.decimal_point_position] = 46]

\* The characters the next get() may return.
NextChars ==
    IF lexer.next_unget THEN {lexer.current}
    ELSE IF Len(text) < Len(form) /\ (lexer.current # Eof \/ lexer.position.chars_read_total = 0)
         THEN form[Len(text) + 1] \cup {Eof}
    ELSE {Eof}

-----------------------------------------------------------------------------
(* How a step ends *)

Goto(place, locals, l) ==
    /\ pc' = place
    /\ arg' = locals
    /\ lexer' = l
    /\ UNCHANGED <<tokens, parser>>

Final == {"parse_error", "end_of_input"}

\* scan() returns.  After an error, or an end it did not expect, that does
\* not throw, the strict parser calls it once more.
Emit(token, l) ==
    /\ tokens' = Append(tokens, token)
    /\ parser' = IF token[1] \in Final THEN "ending" ELSE parser
    /\ pc' = IF parser = "ending" THEN "stopped" ELSE "scan"
    /\ arg' = <<>>
    /\ lexer' = l

Error(l) == Emit(<<"parse_error">>, l)

-----------------------------------------------------------------------------
(* scan *)

\* skip_bom, before the first token.
SkipBom(l, c) ==
    /\ pc = "bom"
    /\ IF arg = <<>>
       THEN IF c = 239 THEN Goto("bom", <<187, 191>>, l) ELSE Goto("scan", <<>>, Unget(l))
       ELSE IF c # Head(arg) THEN Error(l)
       ELSE Goto(IF Len(arg) = 1 THEN "scan" ELSE "bom", Tail(arg), l)

SkipWhitespace(l, c) ==
    /\ pc = "scan"
    /\ c \in Whitespace
    /\ Goto("scan", <<>>, l)

BeginComment(l, c) ==
    /\ pc = "scan"
    /\ c = Slash /\ IgnoreComments
    /\ Goto("comment", <<>>, l)

\* The switch of scan(): the first character of a token.
BeginToken(l, c) ==
    /\ pc = "scan"
    /\ \/ \E t \in DOMAIN Structural : c = Structural[t] /\ Emit(<<t>>, l)
       \/ \E t \in DOMAIN Literals : c = Literals[t][1] /\ Goto("literal", <<t, 2>>, l)
       \/ c = Quote /\ Goto("string", <<>>, Reset(l))
       \/ c = 45 /\ Goto("minus", <<"value_integer">>, Add(Reset(l), c))
       \/ c = 48 /\ Goto("zero", <<"value_unsigned">>, Add(Reset(l), c))
       \/ c \in 49..57 /\ Goto("any1", <<"value_unsigned">>, Add(Reset(l), c))
       \/ c \in {0, Eof} /\ Emit(<<"end_of_input">>, l)

\* No token begins with this character.
Unexpected(l, c) ==
    /\ pc = "scan"
    /\ c \notin Whitespace \cup Digits \cup {Quote, 45, 0, Eof}
    /\ \A t \in DOMAIN Structural : c # Structural[t]
    /\ \A t \in DOMAIN Literals : c # Literals[t][1]
    /\ ~(c = Slash /\ IgnoreComments)
    /\ Error(l)

ScanLiteral(l, c) ==
    /\ pc = "literal"
    /\ LET literal == Literals[arg[1]] IN
       IF c # literal[arg[2]] THEN Error(l)
       ELSE IF arg[2] = Len(literal) THEN Emit(<<arg[1]>>, l)
       ELSE Goto("literal", <<arg[1], arg[2] + 1>>, l)

-----------------------------------------------------------------------------
(* scan_comment *)

EndsLineComment == {Newline, 13, 0, Eof}

ScanComment(l, c) ==
    \/ /\ pc = "comment"
       /\ CASE c = Slash -> Goto("line comment", <<>>, l)
            [] c = Asterisk -> Goto("block comment", <<>>, l)
            [] OTHER -> Error(l)
    \/ /\ pc = "line comment"
       /\ Goto(IF c \in EndsLineComment THEN "scan" ELSE pc, <<>>, l)
    \/ /\ pc = "block comment"
       /\ IF c \in {0, Eof} THEN Error(l)
          ELSE Goto(IF c = Asterisk THEN "block comment *" ELSE pc, <<>>, l)

EndComment(l, c) ==
    /\ pc = "block comment *"
    /\ IF c = Slash THEN Goto("scan", <<>>, l)
       ELSE Goto("block comment", <<>>, Unget(l))

-----------------------------------------------------------------------------
(* scan_number *)

\* The label reached from a label with a character.
IntegerGoto(label, c) ==
    CASE label = "minus" -> IF c = 48 THEN "zero" ELSE IF c \in Digits THEN "any1" ELSE "error"
      [] label = "any1" /\ c \in Digits -> "any1"
      [] OTHER -> IF c = 46 THEN "decimal1" ELSE IF c \in Exponents THEN "exponent" ELSE "done"

FractionGoto(label, c) ==
    IF c \in Digits THEN IF label \in {"decimal1", "decimal2"} THEN "decimal2" ELSE "any2"
    ELSE CASE label = "decimal2" -> IF c \in Exponents THEN "exponent" ELSE "done"
           [] label = "exponent" -> IF c \in {43, 45} THEN "sign" ELSE "error"
           [] label \in {"decimal1", "sign"} -> "error"
           [] label = "any2" -> "done"

NumberGoto(label, c) ==
    IF label \in {"minus", "zero", "any1"} THEN IntegerGoto(label, c) ELSE FractionGoto(label, c)

NumberLabels == {"minus", "zero", "any1", "decimal1", "decimal2", "exponent", "sign", "any2"}

\* number_type, changed by a decimal point or an exponent.
NumberType(label) == IF label \in {"decimal1", "exponent"} THEN "value_float" ELSE arg[1]

\* add, of the locale's decimal point for '.'.
AddNumeral(l, c) ==
    IF c = 46 THEN [Add(l, DecimalPoint) EXCEPT !.decimal_point_position = Len(l.token_buffer) + 1]
    ELSE Add(l, c)

\* strtoull, strtoll: the number that decimal digits denote.
Magnitude(digits) == FoldLeft(LAMBDA n, d : 10 * n + d - 48, 0, digits)

\* A mutant: the smallest integer is out of range.
SymmetricRange(type, n) ==
    \/ type = "value_unsigned" /\ n <= MaxUnsigned
    \/ type = "value_integer" /\ n <= MaxInteger

\* No ERANGE.  n is the magnitude.
FitsInteger(type, n) ==
    \/ type = "value_unsigned" /\ n <= MaxUnsigned
    \/ type = "value_integer" /\ n <= MaxInteger + 1

\* scan_number_done: integers first, then floats.
NumberToken(type, l) ==
    LET digits == IF type = "value_integer" THEN Tail(l.token_buffer) ELSE l.token_buffer
    IN  IF type # "value_float" /\ FitsInteger(type, Magnitude(digits))
        THEN <<type, IF type = "value_integer" THEN -Magnitude(digits) ELSE Magnitude(digits)>>
        ELSE <<"value_float", GetString(l)>>

ScanNumber(l, c) ==
    /\ pc \in NumberLabels
    /\ LET next == NumberGoto(pc, c) IN
       CASE next = "error" -> Error(l)
         [] next = "done" -> Emit(NumberToken(arg[1], l), Unget(l))
         [] OTHER -> Goto(next, <<NumberType(next)>>, AddNumeral(l, c))

-----------------------------------------------------------------------------
(* scan_string *)

Escapes ==
    [c \in {34, 92, 47, 98, 102, 110, 114, 116} |->
        CASE c = 98 -> 8 [] c = 102 -> 12 [] c = 110 -> 10 [] c = 114 -> 13 [] c = 116 -> 9
          [] OTHER -> c]

HexDigit(c) ==
    CASE c \in Digits -> c - 48
      [] c \in 65..70 -> c - 55
      [] c \in 97..102 -> c - 87
      [] OTHER -> -1

ControlCharacters == 0..31
PlainCharacters == 32..127 \ {Quote, Backslash}
NeverFirst == 128..193 \cup 245..255

\* The ranges of the bytes that must follow the first one of a character.
ContinuationRanges(c) ==
    LET any == 128..191 IN
    CASE c \in PlainCharacters -> <<>>
      [] c \in 194..223 -> <<any>>
      [] c = 224 -> <<160..191, any>>
      [] c = 237 -> <<128..159, any>>
      [] c \in 225..239 \ {237} -> <<any, any>>
      [] c = 240 -> <<144..191, any, any>>
      [] c \in 241..243 -> <<any, any, any>>
      [] c = 244 -> <<128..143, any, any>>

\* The bytes of a code point.
CodepointBytes(cp) ==
    CASE cp < 128 -> <<cp>>
      [] cp \in 128..2047 -> <<192 + cp \div 64, 128 + (cp % 64)>>
      [] cp \in 2048..65535 -> <<224 + cp \div 4096, 128 + ((cp \div 64) % 64), 128 + (cp % 64)>>
      [] OTHER -> <<240 + cp \div 262144, 128 + ((cp \div 4096) % 64),
                    128 + ((cp \div 64) % 64), 128 + (cp % 64)>>

AddCodepoint(l, cp) == [l EXCEPT !.token_buffer = @ \o CodepointBytes(cp)]

ScanString(l, c) ==
    /\ pc = "string"
    /\ CASE c = Quote -> Emit(<<"value_string", GetString(l)>>, l)
         [] c = Backslash -> Goto("escape", <<>>, l)
         [] c \in ControlCharacters \cup NeverFirst \cup {Eof} -> Error(l)
         [] OTHER -> LET ranges == ContinuationRanges(c)
                     IN  Goto(IF ranges = <<>> THEN "string" ELSE "bytes", ranges, Add(l, c))

\* next_byte_in_range; arg holds the ranges still to come.
NextByteInRange(l, c) ==
    /\ pc = "bytes"
    /\ IF c \in Head(arg)
       THEN Goto(IF Len(arg) = 1 THEN "string" ELSE "bytes", Tail(arg), Add(l, c))
       ELSE Error(l)

ScanEscape(l, c) ==
    /\ pc = "escape"
    /\ CASE c \in DOMAIN Escapes -> Goto("string", <<>>, Add(l, Escapes[c]))
         [] c = Letter_u -> Goto("codepoint", <<0, 0, 0>>, l)
         [] OTHER -> Error(l)

\* 56613888 = 0x35FDC00.
CombineSurrogates(high, low) == high * 1024 + low - 56613888

\* What four hexadecimal digits mean; high is an earlier high surrogate.
Codepoint(l, cp, high) ==
    CASE high # 0 -> IF cp \in 56320..57343
                     THEN Goto("string", <<>>, AddCodepoint(l, CombineSurrogates(high, cp)))
                     ELSE Error(l)
      [] cp \in 55296..56319 -> Goto("surrogate", <<Backslash, cp>>, l)
      [] cp \in 56320..57343 -> Error(l)
      [] OTHER -> Goto("string", <<>>, AddCodepoint(l, cp))

\* get_codepoint: arg is the digits read, their value and a high surrogate.
GetCodepoint(l, c) ==
    /\ pc = "codepoint"
    /\ LET value == 16 * arg[2] + HexDigit(c) IN
       IF HexDigit(c) = -1 THEN Error(l)
       ELSE IF arg[1] < 3 THEN Goto("codepoint", <<arg[1] + 1, value, arg[3]>>, l)
       ELSE Codepoint(l, value, arg[3])

\* Between two surrogates: a backslash and a u.
BetweenSurrogates(l, c) ==
    /\ pc = "surrogate"
    /\ IF c # arg[1] THEN Error(l)
       ELSE IF c = Backslash THEN Goto("surrogate", <<Letter_u, arg[2]>>, l)
       ELSE Goto("codepoint", <<0, 0, arg[2]>>, l)

-----------------------------------------------------------------------------

Read(c) ==
    LET l == Get(lexer, c) IN
    \/ SkipBom(l, c)
    \/ SkipWhitespace(l, c)
    \/ BeginComment(l, c)
    \/ BeginToken(l, c)
    \/ Unexpected(l, c)
    \/ ScanLiteral(l, c)
    \/ ScanComment(l, c)
    \/ EndComment(l, c)
    \/ ScanNumber(l, c)
    \/ ScanString(l, c)
    \/ NextByteInRange(l, c)
    \/ ScanEscape(l, c)
    \/ GetCodepoint(l, c)
    \/ BetweenSurrogates(l, c)

Next ==
    \E c \in NextChars :
        /\ Read(c)
        /\ UNCHANGED form
        /\ text' = IF lexer.next_unget \/ c = Eof THEN text ELSE Append(text, c)

Spec == Init /\ [][Next]_vars

-----------------------------------------------------------------------------
(* Properties (that the tokens are right is stated in JsonTokens) *)

\* The bytes of t that were read and not taken back.
Used(l, t) == IF l.next_unget /\ l.current # Eof THEN Front(t) ELSE t

Newlines(s) == {i \in DOMAIN s : s[i] = Newline}

\* n bytes were read of the last line of s.
IsColumn(n, s) ==
    \E start \in {0} \cup Newlines(s) :
        /\ \A i \in Newlines(s) : i <= start
        /\ n = Len(s) - start

Ends(s, end) ==
    /\ Len(end) <= Len(s)
    /\ \A i \in 1..Len(end) : end[i] = s[Len(s) - Len(end) + i]

\* position and token_string follow get() and unget() exactly, so that an
\* error names the place and the text it is about.  (The one exception is
\* the column while a newline is ungot.)  Every loop is left at the end of
\* the input: it is read at most three times, by a comment, by the next
\* token and by the strict parser's last scan.
PositionIsExact ==
    LET used == Used(lexer, text)
    IN  /\ lexer.position.lines_read = Cardinality(Newlines(used))
        /\ Ends(used, lexer.token_string)
        /\ lexer.position.chars_read_total <= Len(text) + 3
        /\ lexer.current # Eof =>
              /\ lexer.position.chars_read_total = Len(used)
              /\ ~(lexer.next_unget /\ lexer.current = Newline) =>
                    IsColumn(lexer.position.chars_read_current_line, used)
=============================================================================
