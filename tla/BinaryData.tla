----------------------------- MODULE BinaryData -----------------------------
(* The values that the binary formats carry and the bytes that carry them.  *)
(* A 64-bit integer is the sequence of its eight bytes, most significant    *)
(* first (two's complement when it is signed), so that every width keeps    *)
(* its real limits.                                                         *)
(*                                                                          *)
(* A value is a pair of its type and its content: <<"unsigned", n>> and     *)
(* <<"integer", n>> hold eight bytes, <<"float", f>> a number of Ieee754,   *)
(* <<"string", b>> bytes, <<"binary", b, s>> bytes and a subtype (<<>> when *)
(* has_subtype() is false), <<"array", elements>> a sequence and            *)
(* <<"object", members>> a function from keys.                              *)
EXTENDS Ieee754, SequencesExt

EOF == -1

Low(n, w) == SubSeq(n, 9 - w, 8)

BigEndian(n) == <<0, 0, 0, 0>> \o [i \in 1..4 |-> (n \div 256^(4 - i)) % 256]

ZeroExtend(b) == Repeat(0, 8 - Len(b)) \o b

SignExtend(b) == Repeat(IF b[1] >= 128 THEN 255 ELSE 0, 8 - Len(b)) \o b

Complement(n) == [i \in DOMAIN n |-> 255 - n[i]]

Negative(n) == n[1] >= 128

FitsUnsigned(n, w) == n = ZeroExtend(Low(n, w))

FitsSigned(n, w) == n = SignExtend(Low(n, w))

(* The width of the smallest unsigned type that holds n.                    *)
UnsignedWidth(n) == Min({w \in {1, 2, 4, 8} : FitsUnsigned(n, w)})

(* 0, 1, 2, 3 for the widths 1, 2, 4, 8.                                    *)
WidthClass(w) == CHOOSE k \in 0..3 : 2^k = w

(* Counts and lengths become numbers.  No input of the model has Huge       *)
(* bytes: a count that does not fit stands for any that the input cannot    *)
(* satisfy.                                                                 *)
Huge == 2^24

CountOf(n) == IF FitsUnsigned(n, 2) THEN n[7] * 256 + n[8]
              ELSE IF FitsUnsigned(n, 4) /\ n[5] = 0 THEN n[6] * 65536 + n[7] * 256 + n[8]
              ELSE Huge

(* Keys in the order of std::map: lexicographic on bytes.                   *)
KeyLess(a, b) ==
    \/ \E i \in 1..Min({Len(a), Len(b)}) :
            /\ \A k \in 1..(i - 1) : a[k] = b[k]
            /\ a[i] < b[i]
    \/ Len(a) < Len(b) /\ \A k \in 1..Len(a) : a[k] = b[k]

KeysInOrder(members) ==
    [i \in 1..Cardinality(DOMAIN members) |->
        CHOOSE k \in DOMAIN members :
            Cardinality({m \in DOMAIN members : KeyLess(m, k)}) = i - 1]

(* The annotated arrays of BJData.  The names _ArrayType_, _ArraySize_ and  *)
(* _ArrayData_ are shortened to two characters, and the name of an element  *)
(* type to its marker.                                                      *)
ArrayTypeKey == <<95, 84>>
ArraySizeKey == <<95, 83>>
ArrayDataKey == <<95, 68>>
=============================================================================
