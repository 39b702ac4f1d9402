-------------------------------- MODULE Utf8 --------------------------------
(***************************************************************************)
(* The Unicode standard's UTF-8, by arithmetic: the reference for the      *)
(* tables of ranges and states that json.hpp holds in three places.        *)
(***************************************************************************)
EXTENDS Integers, Sequences

IsScalar(cp) == cp \in 0..55295 \/ cp \in 57344..1114111

\* The length a first byte announces, 0 for a byte that cannot be first.
UnitLength(b) ==
    CASE b < 128 -> 1
      [] b \in 192..223 -> 2
      [] b \in 224..239 -> 3
      [] b \in 240..247 -> 4
      [] OTHER -> 0

\* The smallest code point that needs n bytes.
Shortest(n) == CASE n = 1 -> 0 [] n = 2 -> 128 [] n = 3 -> 2048 [] n = 4 -> 65536

\* The number that n bytes from position i encode.
UnitValue(bytes, i, n) ==
    CASE n = 1 -> bytes[i]
      [] n = 2 -> (bytes[i] % 32) * 64 + (bytes[i + 1] % 64)
      [] n = 3 -> (bytes[i] % 16) * 4096 + (bytes[i + 1] % 64) * 64 + (bytes[i + 2] % 64)
      [] n = 4 -> (bytes[i] % 8) * 262144 + (bytes[i + 1] % 64) * 4096
                  + (bytes[i + 2] % 64) * 64 + (bytes[i + 3] % 64)

\* A well-formed unit of n bytes starts at position i.
UnitAt(bytes, i, n) ==
    /\ n > 0
    /\ i + n - 1 <= Len(bytes)
    /\ \A k \in i + 1..i + n - 1 : bytes[k] \in 128..191
    /\ UnitValue(bytes, i, n) >= Shortest(n)
    /\ IsScalar(UnitValue(bytes, i, n))

\* The code points of a byte sequence from position i on; <<-1>> ends them
\* where it is ill-formed.
RECURSIVE CodepointsFrom(_, _)
CodepointsFrom(bytes, i) ==
    IF i > Len(bytes) THEN <<>>
    ELSE LET n == UnitLength(bytes[i]) IN
         IF UnitAt(bytes, i, n)
         THEN <<UnitValue(bytes, i, n)>> \o CodepointsFrom(bytes, i + n)
         ELSE <<-1>>

Codepoints(bytes) == CodepointsFrom(bytes, 1)

WellFormedUtf8(bytes) ==
    LET cps == Codepoints(bytes) IN \A i \in DOMAIN cps : cps[i] # -1
=============================================================================
