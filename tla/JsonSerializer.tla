--------------------------- MODULE JsonSerializer ---------------------------
(* serializer: dump writes a value as text.  A call is a machine: todo is   *)
(* what the calls of dump that are under way have still to write, and       *)
(* dump_escaped takes a string byte by byte through its buffer.             *)
(*                                                                          *)
(* Values are those of BinaryData, but for numbers.  <<"integer", n>> and   *)
(* <<"unsigned", n>> hold a number between the limits MaxInteger and        *)
(* MaxUnsigned; <<"float", s, digits, e>> is the number with sign s,        *)
(* decimal digits and exponent that grisu2 finds (<<"float", s, <<>>, 0>>   *)
(* is zero), and <<"float">> one that is not finite.                        *)
EXTENDS BinaryData

CONSTANTS
    \* the calls: records of the arguments of dump and of the constructor
    Calls,
    \* the limits of number_integer_t and number_unsigned_t
    MaxInteger, MaxUnsigned,
    \* the size of string_buffer (512) and the first size of indent_string (512)
    BufferSize, IndentSize

ASSUME SerializerAssumption ==
    /\ MaxInteger \in Nat /\ MaxUnsigned \in Nat
    /\ BufferSize \in Nat /\ BufferSize >= 16
    /\ IndentSize \in Nat \ {0}

VARIABLES
    call,           \* the arguments
    todo,           \* items to write, first to last
    out,            \* what the output adapter received
    indent_string,
    esc,            \* the local variables of dump_escaped, and string_buffer
    status          \* "dumping", "escaping", "done", "thrown"

vars == <<call, todo, out, indent_string, esc, status>>

Chars(text) == <<"chars", text>>
Indent(n) == <<"indent", n>>
Value(v, indent) == <<"value", v, indent>>
Loop(parts, i, close, indent) == <<"loop", parts, i, close, indent>>
Quoted(s) == << Chars(<<34>>), <<"string", s>>, Chars(<<34>>) >>

Newline == 10
Comma == 44
Colon == 58
Space == 32
True == <<116, 114, 117, 101>>
False == <<102, 97, 108, 115, 101>>
NullText == <<110, 117, 108, 108>>
DiscardedText == <<60, 100, 105, 115, 99, 97, 114, 100, 101, 100, 62>>
BytesName == <<34, 98, 121, 116, 101, 115, 34>>
SubtypeName == <<34, 115, 117, 98, 116, 121, 112, 101, 34>>

NoString == [s |-> <<>>, i |-> 1, state |-> 0, codepoint |-> 0, buffer |-> <<>>,
             accepted |-> 0, undumped |-> 0, peak |-> 0]

Init ==
    /\ call \in Calls
    /\ todo = << Value(call.val, 0) >>
    /\ out = <<>>
    /\ indent_string = Repeat(call.indent_char, IndentSize)
    /\ esc = NoString
    /\ status = "dumping"

-----------------------------------------------------------------------------
(* Numbers *)

count_digits[x \in Nat] ==
    CASE x < 10 -> 1 [] x \in 10..99 -> 2 [] x \in 100..999 -> 3 [] x \in 1000..9999 -> 4
      [] OTHER -> 4 + count_digits[x \div 10000]

Digit(n) == 48 + n

(* The digits of x, put into the buffer two at a time from its end.         *)
DigitPairs[x \in Nat] ==
    IF x >= 100 THEN DigitPairs[x \div 100] \o <<Digit((x \div 10) % 10), Digit(x % 10)>>
    ELSE IF x >= 10 THEN <<Digit(x \div 10), Digit(x % 10)>>
    ELSE <<Digit(x)>>

remove_sign(x) == (-(x + 1)) + 1

(* n_chars bytes of number_buffer, which the digits fill from the end.      *)
dump_integer(x) ==
    LET sign == IF x < 0 THEN <<45>> ELSE <<>>
        abs_value == IF x < 0 THEN remove_sign(x) ELSE x
        n_chars == Len(sign) + count_digits[abs_value]
        text == sign \o DigitPairs[abs_value]
    IN  SubSeq(Repeat(0, n_chars) \o text, Len(text) + 1, Len(text) + n_chars)

append_exponent(e) ==
    LET k == IF e < 0 THEN -e ELSE e
    IN  <<IF e < 0 THEN 45 ELSE 43>>
            \o (IF k < 10 THEN <<48>> ELSE IF k < 100 THEN <<>> ELSE <<Digit(k \div 100)>>)
            \o (IF k < 10 THEN <<>> ELSE <<Digit((k \div 10) % 10)>>)
            \o <<Digit(k % 10)>>

kMinExp == -4
kMaxExp == 15

format_buffer(digits, decimal_exponent) ==
    LET k == Len(digits)
        n == k + decimal_exponent
    IN  CASE k <= n /\ n <= kMaxExp -> digits \o Repeat(48, n - k) \o <<46, 48>>
          [] k > n /\ 0 < n /\ n <= kMaxExp ->
                SubSeq(digits, 1, n) \o <<46>> \o SubSeq(digits, n + 1, k)
          [] kMinExp < n /\ n <= 0 -> <<48, 46>> \o Repeat(48, -n) \o digits
          [] OTHER -> (IF k = 1 THEN digits ELSE <<digits[1], 46>> \o Tail(digits))
                        \o <<101>> \o append_exponent(n - 1)

to_chars(s, digits, e) ==
    (IF s = 1 THEN <<45>> ELSE <<>>)
        \o (IF digits = <<>> THEN <<48, 46, 48>>
            ELSE format_buffer([i \in DOMAIN digits |-> Digit(digits[i])], e))

dump_float(v) == IF Len(v) = 1 THEN NullText ELSE to_chars(v[2], v[3], v[4])

-----------------------------------------------------------------------------
(* dump: the items of a value *)

Scalar(v) ==
    CASE v[1] = "null" -> NullText
      [] v[1] = "boolean" -> IF v[2] THEN True ELSE False
      [] v[1] \in {"integer", "unsigned"} -> dump_integer(v[2])
      [] v[1] = "float" -> dump_float(v)
      [] v[1] = "discarded" -> DiscardedText

(* A container is its bracket and a loop over its parts, each on its own    *)
(* line when pretty_print is on.                                            *)
Layout(open, parts, close, indent) ==
    << Chars(IF call.pretty_print THEN <<open, Newline>> ELSE <<open>>),
       Loop(parts, 1, close, indent) >>

(* The iteration for part i; the last one is behind the loop of the code.   *)
Iteration(parts, i, close, indent) ==
    (IF call.pretty_print THEN << Indent(indent + call.indent_step) >> ELSE <<>>)
        \o parts[i]
        \o (IF i < Len(parts)
            THEN << Chars(IF call.pretty_print THEN <<Comma, Newline>> ELSE <<Comma>>),
                    Loop(parts, i + 1, close, indent) >>
            ELSE IF call.pretty_print
            THEN << Chars(<<Newline>>), Indent(indent), Chars(<<close>>) >>
            ELSE << Chars(<<close>>) >>)

AfterName == IF call.pretty_print THEN <<Colon, Space>> ELSE <<Colon>>

dump_object(members, indent) ==
    LET keys == KeysInOrder(members)
    IN  Layout(123,
               [i \in DOMAIN keys |->
                    Quoted(keys[i])
                        \o << Chars(AfterName),
                              Value(members[keys[i]], indent + call.indent_step) >>],
               125, indent)

dump_array(elements, indent) ==
    Layout(91, [i \in DOMAIN elements |-> << Value(elements[i], indent + call.indent_step) >>],
           93, indent)

(* The bytes stay on one line.                                              *)
dump_binary(bytes, subtype, indent) ==
    LET separator == IF call.pretty_print THEN <<Comma, Space>> ELSE <<Comma>>
        numbers == FlattenSeq([i \in DOMAIN bytes |->
                        dump_integer(bytes[i]) \o (IF i < Len(bytes) THEN separator ELSE <<>>)])
    IN  Layout(123,
               << << Chars(BytesName \o AfterName \o <<91>> \o numbers \o <<93>>) >>,
                  << Chars(SubtypeName \o AfterName
                           \o (IF subtype = <<>> THEN NullText ELSE dump_integer(CountOf(subtype)))) >> >>,
               125, indent)

Empty(v) == v[1] \in {"array", "object"} /\ DOMAIN v[2] = {}

Items(v, indent) ==
    CASE Empty(v) -> << Chars(IF v[1] = "array" THEN <<91, 93>> ELSE <<123, 125>>) >>
      [] v[1] = "object" /\ ~Empty(v) -> dump_object(v[2], indent)
      [] v[1] = "array" /\ ~Empty(v) -> dump_array(v[2], indent)
      [] v[1] = "string" -> Quoted(v[2])
      [] v[1] = "binary" -> dump_binary(v[2], v[3], indent)
      [] OTHER -> << Chars(Scalar(v)) >>

(* The indentation string is doubled, once, when it is too short.           *)
Grown(v, indent) ==
    IF /\ call.pretty_print /\ v[1] \in {"object", "array", "binary"} /\ ~Empty(v)
       /\ Len(indent_string) < indent + call.indent_step
    THEN indent_string \o Repeat(Space, Len(indent_string))
    ELSE indent_string

Dump ==
    /\ status = "dumping" /\ todo # <<>> /\ Head(todo)[1] = "value"
    /\ todo' = Items(Head(todo)[2], Head(todo)[3]) \o Tail(todo)
    /\ indent_string' = Grown(Head(todo)[2], Head(todo)[3])
    /\ UNCHANGED <<call, out, esc, status>>

DumpPart ==
    /\ status = "dumping" /\ todo # <<>> /\ Head(todo)[1] = "loop"
    /\ todo' = Iteration(Head(todo)[2], Head(todo)[3], Head(todo)[4], Head(todo)[5]) \o Tail(todo)
    /\ UNCHANGED <<call, out, indent_string, esc, status>>

WriteCharacters ==
    /\ status = "dumping" /\ todo # <<>> /\ Head(todo)[1] = "chars"
    /\ out' = out \o Head(todo)[2]
    /\ todo' = Tail(todo)
    /\ UNCHANGED <<call, indent_string, esc, status>>

(* What lies behind the end of indent_string: its terminator, then any byte.*)
StrayBytes == {0, 65}

WriteIndent ==
    /\ status = "dumping" /\ todo # <<>> /\ Head(todo)[1] = "indent"
    /\ LET n == Head(todo)[2]
           there == Min({n, Len(indent_string)})
       IN  \E b \in IF there < n THEN StrayBytes ELSE {0} :
                out' = out \o SubSeq(indent_string, 1, there) \o Repeat(b, n - there)
    /\ todo' = Tail(todo)
    /\ UNCHANGED <<call, indent_string, esc, status>>

Finish ==
    /\ status = "dumping" /\ todo = <<>>
    /\ status' = "done"
    /\ UNCHANGED <<call, todo, out, indent_string, esc>>

-----------------------------------------------------------------------------
(* dump_escaped *)

UTF8_ACCEPT == 0
UTF8_REJECT == 1

(* The types of the bytes in utf8d.                                         *)
ByteType(b) ==
    CASE b \in 0..127 -> 0 [] b \in 128..143 -> 1 [] b \in 144..159 -> 9 [] b \in 160..191 -> 7
      [] b \in 192..193 -> 8 [] b \in 194..223 -> 2 [] b = 224 -> 10
      [] b \in (225..236) \cup {238, 239} -> 3 [] b = 237 -> 4 [] b = 240 -> 11
      [] b \in 241..243 -> 6 [] b = 244 -> 5 [] OTHER -> 8

(* The state that a first byte of each type leads to.                       *)
FirstState == [t \in 0..15 |-> IF t = 0 THEN UTF8_ACCEPT
                               ELSE IF t \in {2, 3} THEN t
                               ELSE IF t = 4 THEN 5 ELSE IF t = 5 THEN 8 ELSE IF t = 6 THEN 7
                               ELSE IF t = 10 THEN 4 ELSE IF t = 11 THEN 6 ELSE UTF8_REJECT]

(* The types that a state goes on with, and the state they lead to.         *)
Continuation(state) ==
    CASE state = 2 -> [types |-> {1, 7, 9}, next |-> UTF8_ACCEPT]
      [] state = 3 -> [types |-> {1, 7, 9}, next |-> 2]
      [] state = 4 -> [types |-> {7}, next |-> 2]
      [] state = 5 -> [types |-> {1, 9}, next |-> 2]
      [] state = 6 -> [types |-> {7, 9}, next |-> 3]
      [] state = 7 -> [types |-> {1, 7, 9}, next |-> 3]
      [] state = 8 -> [types |-> {1}, next |-> 3]

decode(state, byte) ==
    IF state = UTF8_ACCEPT THEN FirstState[ByteType(byte)]
    ELSE IF ByteType(byte) \in Continuation(state).types THEN Continuation(state).next
    ELSE UTF8_REJECT

(* The mask 0xff >> type leaves a first byte modulo these, and nothing of   *)
(* it from type 8 on.                                                       *)
FirstModulus == <<256, 128, 64, 32, 16, 8, 4, 2>>

DecodedPoint(state, codep, byte) ==
    IF state # UTF8_ACCEPT THEN (codep * 64) + (byte % 64)
    ELSE IF ByteType(byte) < 8 THEN byte % FirstModulus[ByteType(byte) + 1] ELSE 0

HexDigitOf(n) == IF n < 10 THEN 48 + n ELSE 87 + n

UnicodeEscape(n) == <<92, 117>> \o [i \in 1..4 |-> HexDigitOf((n \div 16^(4 - i)) % 16)]

(* The characters that have an escape of two.                               *)
ShortEscape == [c \in {8, 9, 10, 12, 13, 34, 92} |->
                    CASE c = 8 -> 98 [] c = 9 -> 116 [] c = 10 -> 110 [] c = 12 -> 102
                      [] c = 13 -> 114 [] OTHER -> c]

Escaped(codepoint) == codepoint <= 31 \/ (call.ensure_ascii /\ codepoint >= 127)

Surrogates(codepoint) ==
    UnicodeEscape(55232 + (codepoint \div 1024)) \o UnicodeEscape(56320 + (codepoint % 1024))

(* What is put into the buffer for an accepted code point.                  *)
Escape(codepoint, byte) ==
    CASE codepoint \in DOMAIN ShortEscape -> <<92, ShortEscape[codepoint]>>
      [] codepoint \notin DOMAIN ShortEscape /\ Escaped(codepoint) ->
            IF codepoint <= 65535 THEN UnicodeEscape(codepoint) ELSE Surrogates(codepoint)
      [] OTHER -> <<byte>>

Replacement == IF call.ensure_ascii THEN UnicodeEscape(65533) ELSE <<239, 191, 189>>

(* snprintf writes a terminator too.                                        *)
Reach(text) == IF Len(text) \in {6, 12} THEN Len(text) + 1 ELSE Len(text)

(* The mutant control: no room for snprintf's terminator.                   *)
TwelveBytesLeft(length) == BufferSize - length >= 12

EnoughLeft(length) == BufferSize - length >= 13

(* The buffer with text appended after its first n bytes; it is written out *)
(* when a code point might not fit any more.                                *)
Store(n, text) ==
    LET filled == SubSeq(esc.buffer, 1, n) \o text
    IN  IF EnoughLeft(Len(filled)) THEN <<filled, <<>>>> ELSE <<<<>>, filled>>

BeginString ==
    /\ status = "dumping" /\ todo # <<>> /\ Head(todo)[1] = "string"
    /\ esc' = [NoString EXCEPT !.s = Head(todo)[2]]
    /\ todo' = Tail(todo)
    /\ status' = "escaping"
    /\ UNCHANGED <<call, out, indent_string>>

AtByte == status = "escaping" /\ esc.i <= Len(esc.s)

NextState == decode(esc.state, esc.s[esc.i])

SameString == UNCHANGED <<call, todo, indent_string>>

AcceptByte ==
    /\ AtByte /\ NextState = UTF8_ACCEPT
    /\ LET codepoint == DecodedPoint(esc.state, esc.codepoint, esc.s[esc.i])
           text == Escape(codepoint, esc.s[esc.i])
           stored == Store(Len(esc.buffer), text)
       IN  /\ out' = out \o stored[2]
           /\ esc' = [esc EXCEPT !.i = @ + 1, !.state = UTF8_ACCEPT, !.codepoint = codepoint,
                                 !.buffer = stored[1], !.accepted = Len(stored[1]), !.undumped = 0,
                                 !.peak = Max({@, Len(esc.buffer) + Reach(text)})]
    /\ SameString /\ UNCHANGED status

(* The mutant control: the byte that ends an incomplete sequence is lost.   *)
SkipsByte == esc.i + 1

(* A byte that does not continue a sequence is read again.                  *)
AfterReject == IF esc.undumped > 0 THEN esc.i ELSE esc.i + 1

RejectByte ==
    /\ AtByte /\ NextState = UTF8_REJECT
    /\ IF call.error_handler = "strict"
       THEN status' = "thrown" /\ UNCHANGED <<out, esc>>
       ELSE LET stored == IF call.error_handler = "replace" THEN Store(esc.accepted, Replacement)
                          ELSE <<SubSeq(esc.buffer, 1, esc.accepted), <<>>>>
            IN  /\ out' = out \o stored[2]
                /\ esc' = [esc EXCEPT !.i = AfterReject, !.state = UTF8_ACCEPT,
                                      !.codepoint = DecodedPoint(esc.state, @, esc.s[esc.i]),
                                      !.buffer = stored[1], !.accepted = Len(stored[1]),
                                      !.undumped = 0,
                                      !.peak = Max({@, Len(stored[1]), Len(stored[2])})]
                /\ UNCHANGED status
    /\ SameString

IncompleteByte ==
    /\ AtByte /\ NextState \notin {UTF8_ACCEPT, UTF8_REJECT}
    /\ LET text == IF call.ensure_ascii THEN <<>> ELSE <<esc.s[esc.i]>>
       IN  esc' = [esc EXCEPT !.i = @ + 1, !.state = NextState,
                              !.codepoint = DecodedPoint(esc.state, @, esc.s[esc.i]),
                              !.buffer = @ \o text, !.undumped = @ + 1,
                              !.peak = Max({@, Len(esc.buffer \o text)})]
    /\ SameString /\ UNCHANGED <<out, status>>

EndString ==
    /\ status = "escaping" /\ esc.i > Len(esc.s)
    /\ IF esc.state # UTF8_ACCEPT /\ call.error_handler = "strict"
       THEN status' = "thrown" /\ UNCHANGED <<out, esc>>
       ELSE /\ out' = IF esc.state = UTF8_ACCEPT THEN out \o esc.buffer
                      ELSE out \o SubSeq(esc.buffer, 1, esc.accepted)
                               \o (IF call.error_handler = "replace" THEN Replacement ELSE <<>>)
            /\ status' = "dumping"
            /\ esc' = NoString
    /\ SameString

Next == Dump \/ DumpPart \/ WriteCharacters \/ WriteIndent \/ Finish \/ BeginString \/ AcceptByte
        \/ RejectByte \/ IncompleteByte \/ EndString

Spec == Init /\ [][Next]_vars

-----------------------------------------------------------------------------
(* Property *)

(* No write goes past the end of string_buffer: "there must be 13 bytes     *)
(* left", also after the bytes of an incomplete sequence.                   *)
WithinBuffer == esc.peak <= BufferSize
=============================================================================
