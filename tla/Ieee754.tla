------------------------------ MODULE Ieee754 ------------------------------
(* The binary interchange formats of IEEE 754, as the processor that runs   *)
(* the library implements them.  A format has eb exponent bits and mb       *)
(* fraction bits: 5/10 is the half, 8/23 the float and 11/52 the double.    *)
(*                                                                          *)
(* A number is <<"nan">>, <<"inf", s>> or <<"finite", s, bits, e>>: the     *)
(* integer written bits, scaled by 2^e, with sign s.  bits begins and ends  *)
(* with a 1, so a number has one representation whatever format held it;    *)
(* zero is <<"finite", s, <<>>, 0>>.                                        *)
EXTENDS Integers, Sequences, FiniteSetsExt

Bias(eb) == 2^(eb - 1) - 1

Repeat(b, n) == [i \in 1..n |-> b]

BitsOf(n, w) == [i \in 1..w |-> (n \div 2^(w - i)) % 2]

NatOfBits(bits) ==
    LET value[i \in 0..Len(bits)] ==
            IF i = 0 THEN 0 ELSE 2 * value[i - 1] + bits[i]
    IN  value[Len(bits)]

(* The bits of a sequence of bytes, and the bytes of a sequence of bits.    *)
BitsOfBytes(b) ==
    [i \in 1..(8 * Len(b)) |-> BitsOf(b[((i - 1) \div 8) + 1], 8)[((i - 1) % 8) + 1]]

BytesOfBits(bits) ==
    [k \in 1..(Len(bits) \div 8) |-> NatOfBits(SubSeq(bits, 8 * k - 7, 8 * k))]

(* The number bits * 2^e with sign s, in its one representation.            *)
Finite(s, bits, e) ==
    LET ones == {i \in DOMAIN bits : bits[i] = 1}
    IN  IF ones = {} THEN <<"finite", s, <<>>, 0>>
        ELSE <<"finite", s, SubSeq(bits, Min(ones), Max(ones)), e + Len(bits) - Max(ones)>>

(* The number that the bits of an encoding stand for.                       *)
DecodeFloat(bits, eb, mb) ==
    LET s == bits[1]
        exponent == NatOfBits(SubSeq(bits, 2, eb + 1))
        fraction == SubSeq(bits, eb + 2, eb + mb + 1)
    IN  CASE exponent = 2^eb - 1 ->
                IF fraction = Repeat(0, mb) THEN <<"inf", s>> ELSE <<"nan">>
          [] exponent = 0 -> Finite(s, fraction, 1 - Bias(eb) - mb)
          [] OTHER -> Finite(s, <<1>> \o fraction, exponent - Bias(eb) - mb)

(* The exponent of the leading bit of a finite number other than zero.      *)
LeadingExponent(f) == f[4] + Len(f[3]) - 1

(* Whether a finite number is a number of the format.                       *)
Representable(f, eb, mb) ==
    \/ f[3] = <<>>
    \/ /\ LeadingExponent(f) <= Bias(eb)
       /\ Len(f[3]) <= mb + 1
       /\ f[4] >= 1 - Bias(eb) - mb

(* The encoding of a representable number.                                  *)
EncodeFloat(f, eb, mb) ==
    CASE f[1] = "nan" -> <<0>> \o Repeat(1, eb) \o <<1>> \o Repeat(0, mb - 1)
      [] f[1] = "inf" -> <<f[2]>> \o Repeat(1, eb) \o Repeat(0, mb)
      [] f[1] = "finite" /\ f[3] = <<>> -> <<f[2]>> \o Repeat(0, eb + mb)
      [] OTHER ->
            IF LeadingExponent(f) >= 1 - Bias(eb)
            THEN <<f[2]>> \o BitsOf(LeadingExponent(f) + Bias(eb), eb)
                          \o Tail(f[3]) \o Repeat(0, mb + 1 - Len(f[3]))
            ELSE LET shift == f[4] - (1 - Bias(eb) - mb)
                 IN  <<f[2]>> \o Repeat(0, eb) \o Repeat(0, mb - shift - Len(f[3]))
                              \o f[3] \o Repeat(0, shift)
=============================================================================
