------------------------------- MODULE Base64 -------------------------------
(***************************************************************************)
(* The codec of src/common/encoding/base64.cpp.  A character and a byte    *)
(* are both a number in 0..255 (ASCII), as they are both a char in the     *)
(* code, so that the output of one call can be the input of the next.      *)
(*                                                                         *)
(* Each loop of the code is a recursive function that gives its variables  *)
(* after n iterations; the loop bodies (EncodeStep, DecodeStep) are        *)
(* operators of their own.                                                 *)
(* The masks and shifts of the code act on disjoint bits, which makes      *)
(* every & a remainder, every shift a product or a quotient and every |    *)
(* a sum.                                                                  *)
(***************************************************************************)
EXTENDS Integers, Sequences, SequencesExt

Byte == 0..255
Sextet == 0..63

(* std::optional, and the process abort that replaces a thrown exception   *)
(* under -fno-exceptions.                                                  *)
Some(x) == [outcome |-> "value", value |-> x]
NullOpt == [outcome |-> "nullopt"]
Aborted == [outcome |-> "abort"]

-----------------------------------------------------------------------------
(* The alphabets *)

\* 'A' = 65, 'a' = 97, '0' = 48, '?' = 63, '+' = 43, '/' = 47, '-' = 45,
\* '_' = 95, '=' = 61.
AlphaNumChar(v) ==
    CASE v \in 0..25  -> 65 + v
      [] v \in 26..51 -> 97 + (v - 26)
      [] v \in 52..61 -> 48 + (v - 52)

to_base64_char(v) ==
    CASE v < 62 -> AlphaNumChar(v)
      [] v = 62 -> 43
      [] v = 63 -> 47
      [] OTHER  -> 63

to_base64url_char(v) ==
    CASE v < 62 -> AlphaNumChar(v)
      [] v = 62 -> 45
      [] v = 63 -> 95
      [] OTHER  -> 63

from_base64url(c) ==
    CASE c \in 65..90  -> Some(c - 65)
      [] c \in 97..122 -> Some(c - 97 + 26)
      [] c \in 48..57  -> Some(c - 48 + 52)
      [] c = 45        -> Some(62)
      [] c = 95        -> Some(63)
      [] OTHER         -> NullOpt

\* A mutant: the table of the standard alphabet, '+' and '/'.
FromStandardAlphabet(c) ==
    CASE c = 43        -> Some(62)
      [] c = 47        -> Some(63)
      [] c \in {45, 95} -> NullOpt
      [] OTHER         -> from_base64url(c)

\* The two decoding tables of the code are the same: the one that serves
\* decode_base64 accepts '-' and '_', not '+' and '/'.
from_base64(c) == from_base64url(c)

\* The alphabets as functions, which the loops take as a parameter.
Base64Chars == [v \in Sextet |-> to_base64_char(v)]
Base64UrlChars == [v \in Sextet |-> to_base64url_char(v)]
Base64Values == [c \in Byte |-> from_base64(c)]
Base64UrlValues == [c \in Byte |-> from_base64url(c)]

-----------------------------------------------------------------------------
(* Encoding *)

encode_char_count(size) == (size * 8 + 5) \div 6

EncodeStart == [out |-> <<>>, carry |-> 0, carry_bits |-> 0]

\* A mutant: the carry is not moved to the top of its sextet.
UnshiftedCarry(byte, m) == byte % m

\* The low bits of a byte, which are its remainder modulo m, as the high
\* bits of the next sextet.
CarryOf(byte, m) == (byte % m) * (64 \div m)

\* One iteration of the for loop.  ends is the alphabet of the cases 0 and
\* 4, mid that of the case 2.
EncodeStep(ends, mid, s, byte) ==
    CASE s.carry_bits = 0 ->
            [out |-> Append(s.out, ends[byte \div 4]),
             carry |-> CarryOf(byte, 4), carry_bits |-> 2]
      [] s.carry_bits = 2 ->
            [out |-> Append(s.out, mid[s.carry + byte \div 16]),
             carry |-> CarryOf(byte, 16), carry_bits |-> 4]
      [] s.carry_bits = 4 ->
            [out |-> s.out \o <<ends[s.carry + byte \div 64], ends[byte % 64]>>,
             carry |-> 0, carry_bits |-> 0]

\* The trailing while loop: the carry, then zeros, up to the resized length.
EncodeFlush(ends, s, size) ==
    s.out \o [i \in 1..(encode_char_count(size) - Len(s.out)) |->
                 ends[IF i = 1 THEN s.carry ELSE 0]]

\* The for loop: its variables after n iterations.
EncodeLoop(ends, mid, data) ==
    LET after[n \in 0..Len(data)] ==
            IF n = 0 THEN EncodeStart ELSE EncodeStep(ends, mid, after[n - 1], data[n])
    IN  after

Encode(ends, mid, data) ==
    EncodeFlush(ends, EncodeLoop(ends, mid, data)[Len(data)], Len(data))

\* The code appends data.size() % 3 characters '=', and the case 2 of its
\* loop takes its character from the base64url table.
encode_base64(data) ==
    Some(Encode(Base64Chars, Base64UrlChars, data)
            \o [i \in 1..(Len(data) % 3) |-> 61])

encode_base64url(data) == Some(Encode(Base64UrlChars, Base64UrlChars, data))

-----------------------------------------------------------------------------
(* Decoding *)

\* A mutant: the incomplete last byte is counted.
StartedBytes(size) == (size * 6 + 7) \div 8

decode_char_count(size) == (size * 6) \div 8

\* out has one cell more than the string: std::string's terminator, which
\* the loop may address as out[out.size()].  out_idx counts from 0.
DecodeStart(size) ==
    [out |-> [i \in 0..decode_char_count(size) |-> 0], out_idx |-> 0,
     carry |-> FALSE, bits_to_read |-> 6, final_shift |-> 0, valid |-> TRUE]

\* One iteration of the for loop for a character with value v.
DecodeSextet(s, v) ==
    CASE s.bits_to_read = 6 /\ ~s.carry ->
            [s EXCEPT !.out[s.out_idx] = @ + v * 4,
                      !.bits_to_read = 2, !.final_shift = 2]
      [] s.bits_to_read = 6 /\ s.carry ->
            [s EXCEPT !.out[s.out_idx] = @ + v, !.out_idx = @ + 1,
                      !.final_shift = 0, !.carry = FALSE]
      [] s.bits_to_read = 2 ->
            [s EXCEPT !.out[s.out_idx] = @ + v \div 16,
                      !.out[s.out_idx + 1] = @ + (v % 16) * 16,
                      !.out_idx = @ + 1, !.bits_to_read = 4, !.final_shift = 4]
      [] s.bits_to_read = 4 ->
            [s EXCEPT !.out[s.out_idx] = @ + v \div 4,
                      !.out[s.out_idx + 1] = @ + (v % 4) * 64,
                      !.out_idx = @ + 1, !.carry = TRUE,
                      !.bits_to_read = 6, !.final_shift = 6]

\* A character outside the alphabet makes the whole call return nullopt.
DecodeStep(table, s, c) ==
    LET val == table[c] IN
    IF s.valid /\ val.outcome = "value" THEN DecodeSextet(s, val.value)
    ELSE [s EXCEPT !.valid = FALSE]

\* The for loop: its variables after n iterations.
DecodeLoop(table, chars) ==
    LET after[n \in 0..Len(chars)] ==
            IF n = 0 THEN DecodeStart(Len(chars)) ELSE DecodeStep(table, after[n - 1], chars[n])
    IN  after

\* What each final_shift divides by.
ShiftDivisor == [n \in {0, 2, 4, 6} |-> IF n = 0 THEN 1 ELSE IF n = 2 THEN 4 ELSE IF n = 4 THEN 16 ELSE 64]

\* out[out_idx] >>= final_shift, on a signed char: the sign bit is copied.
FinalShift(x, n) ==
    ((IF x < 128 THEN x ELSE x - 256) \div ShiftDivisor[n]) % 256

\* The buffer, terminator included, as the call leaves it.
DecodeFinish(s) == [s.out EXCEPT ![s.out_idx] = FinalShift(@, s.final_shift)]

\* The first n cells of a buffer, as the string that is returned.
Contents(buffer, n) == [i \in 1..n |-> buffer[i - 1]]

DecodeResult(s, n) == IF s.valid THEN Some(Contents(DecodeFinish(s), n)) ELSE NullOpt

Decode(table, chars) ==
    IF decode_char_count(Len(chars)) = 0 THEN Some(<<>>)
    ELSE DecodeResult(DecodeLoop(table, chars)[Len(chars)], decode_char_count(Len(chars)))

decode_base64(chars) == Decode(Base64Values, chars)
decode_base64url(chars) == Decode(Base64UrlValues, chars)

-----------------------------------------------------------------------------
(* Reference: bit k of a sequence of sextets, most significant bit first,  *)
(* and the byte j that eight bits in a row make.                           *)

BitWeight == <<32, 16, 8, 4, 2, 1>>

Bit(sextets, k) == (sextets[k \div 6 + 1] \div BitWeight[(k % 6) + 1]) % 2

EightBits(sextets, j) ==
    LET b(m) == Bit(sextets, 8 * (j - 1) + m)
    IN  128 * b(0) + 64 * b(1) + 32 * b(2) + 16 * b(3) + 8 * b(4) + 4 * b(5) + 2 * b(6) + b(7)

RefDecode(chars) ==
    LET sextets == [i \in DOMAIN chars |-> from_base64(chars[i]).value] IN
    [j \in 1..((6 * Len(chars)) \div 8) |-> EightBits(sextets, j)]

IsText(chars) == \A i \in DOMAIN chars : from_base64(chars[i]).outcome = "value"
=============================================================================
