----------------------------- MODULE Base64Proof -----------------------------
(***************************************************************************)
(* decode_base64 undoes encode_base64url for inputs of every length, and   *)
(* never writes past the terminator of its string.  First for the machine  *)
(* of Base64Inputs, whose steps are the iterations of the loops, then for  *)
(* the operators of Base64 that Snowflake calls.                           *)
(***************************************************************************)
EXTENDS Base64Inputs, SequenceTheorems, WellFoundedInduction, TLAPS

-----------------------------------------------------------------------------
(* What the loops have done so far.  Three bytes make four characters: a   *)
(* position in the input is 3p + t, one in the text 4k + r.                *)

\* The byte i of d, zero behind its end.
Cell(d, i) == IF i \in 1..Len(d) THEN d[i] ELSE 0

\* The sextet that character r of group k carries.
SextetAt(d, k, r) ==
    IF r = 0 THEN Cell(d, 3 * k + 1) \div 4
    ELSE IF r = 1 THEN (Cell(d, 3 * k + 1) % 4) * 16 + (Cell(d, 3 * k + 2) \div 16)
    ELSE IF r = 2 THEN (Cell(d, 3 * k + 2) % 16) * 4 + (Cell(d, 3 * k + 3) \div 64)
    ELSE Cell(d, 3 * k + 3) % 64

\* The characters of t are those of the sextets of d.
Spells(d, t) ==
    \A k \in 0..Len(t), r \in 0..3 :
        4 * k + r < Len(t) => t[4 * k + r + 1] = Base64UrlChars[SextetAt(d, k, r)]

\* The carry after 3p + t bytes.
CarryAfter(d, p, t) ==
    IF t = 0 THEN 0 ELSE IF t = 1 THEN (Cell(d, 3 * p + 1) % 4) * 16 ELSE (Cell(d, 3 * p + 2) % 16) * 4

\* The encoder has read d.
Encoding(d, e) ==
    LET p == Len(d) \div 3
        t == Len(d) % 3
    IN  /\ DOMAIN e = {"out", "carry", "carry_bits"}
        /\ e.out \in Seq(Byte) /\ Len(e.out) = 4 * p + t
        /\ e.carry_bits = 2 * t /\ e.carry = CarryAfter(d, p, t)
        /\ Spells(d, e.out)

\* t is the text of d.
TextOf(d, t) ==
    /\ t \in Seq(Byte) /\ Spells(d, t)
    /\ decode_char_count(Len(t)) = Len(d)

\* Where the decoder stands after 4k + r characters: n bytes in all.
DecoderIn(n, s, k, r) ==
    /\ DOMAIN s = {"out", "out_idx", "carry", "bits_to_read", "final_shift", "valid"}
    /\ DOMAIN s.out = 0..n
    /\ s.out_idx = 3 * k + (IF r = 0 THEN 0 ELSE r - 1) /\ s.out_idx \in 0..n
    /\ s.carry \in BOOLEAN /\ (s.carry <=> r = 3)
    /\ s.bits_to_read = IF r \in {0, 3} THEN 6 ELSE 2 * r
    /\ s.final_shift = 2 * r
    /\ s.valid = TRUE

DecoderAt(n, s, j) == DecoderIn(n, s, j \div 4, j % 4)

\* The high bits of x that r characters have brought.
Brought(x, r) ==
    IF r = 0 THEN 0 ELSE IF r = 1 THEN (x \div 4) * 4
    ELSE IF r = 2 THEN (x \div 16) * 16 ELSE (x \div 64) * 64

\* The decoder's string after j characters of the text of d.
Decoding(d, s, j) ==
    \A i \in DOMAIN s.out :
        s.out[i] = IF i < s.out_idx THEN Cell(d, i + 1)
                   ELSE IF i = s.out_idx THEN Brought(Cell(d, i + 1), j % 4)
                   ELSE 0

\* The inductive invariant: its types, and what holds while the input is
\* encoded, while its text is decoded, and at the end.
CodecTypes ==
    /\ data \in Seq(Byte) /\ text \in Seq(Byte) /\ next \in Nat \ {0}
    /\ encoded \in BOOLEAN /\ pc \in {"encoding", "decoding", "decoded"}

WhileEncoding ==
    pc = "encoding" => Encoding(data, enc) /\ encoded = FALSE /\ next = 1

TextIsMine == encoded = TRUE => TextOf(data, text)

WhileDecoding ==
    pc = "decoding" =>
        /\ next <= Len(text) + 1
        /\ DecoderAt(decode_char_count(Len(text)), dec, next - 1)
        /\ encoded = TRUE => Decoding(data, dec, next - 1)

StaysInString == dec.out_idx \in 0..decode_char_count(Len(text))

Restored ==
    encoded = TRUE /\ pc = "decoded" =>
        /\ dec.valid = TRUE
        /\ \A i \in 0..decode_char_count(Len(text)) : dec.out[i] = Cell(data, i + 1)

CodecInv ==
    CodecTypes /\ WhileEncoding /\ TextIsMine /\ WhileDecoding /\ StaysInString /\ Restored

-----------------------------------------------------------------------------
(* Arithmetic *)

LEMMA Thirds ==
    ASSUME NEW n \in Nat
    PROVE  /\ n \div 3 \in Nat /\ n % 3 \in 0..2
           /\ n = 3 * (n \div 3) + (n % 3)
           /\ n % 3 < 2 => (n + 1) \div 3 = n \div 3 /\ (n + 1) % 3 = (n % 3) + 1
           /\ n % 3 = 2 => (n + 1) \div 3 = (n \div 3) + 1 /\ (n + 1) % 3 = 0
    OBVIOUS

LEMMA Quarters ==
    ASSUME NEW n \in Nat
    PROVE  /\ n \div 4 \in Nat /\ n % 4 \in 0..3
           /\ n = 4 * (n \div 4) + (n % 4)
           /\ n % 4 < 3 => (n + 1) \div 4 = n \div 4 /\ (n + 1) % 4 = (n % 4) + 1
           /\ n % 4 = 3 => (n + 1) \div 4 = (n \div 4) + 1 /\ (n + 1) % 4 = 0
    OBVIOUS

\* The pieces of bytes that shifts and masks cut.
LEMMA Pieces ==
    ASSUME NEW x \in Byte
    PROVE  /\ x \div 4 \in 0..63 /\ x % 4 \in 0..3 /\ (x \div 4) * 4 + (x % 4) = x
           /\ x \div 16 \in 0..15 /\ x % 16 \in 0..15 /\ (x \div 16) * 16 + (x % 16) = x
           /\ x \div 64 \in 0..3 /\ x % 64 \in 0..63 /\ (x \div 64) * 64 + (x % 64) = x
    BY DEF Byte

\* Every byte of the input is one, and so is the zero behind it.
LEMMA CellType ==
    ASSUME NEW d \in Seq(Byte), NEW i
    PROVE  Cell(d, i) \in Byte
    <1>1. CASE i \in 1..Len(d) BY <1>1, ElementOfSeq DEF Cell
    <1>2. CASE i \notin 1..Len(d) BY <1>2 DEF Cell, Byte
    <1> QED BY <1>1, <1>2

LEMMA SextetType ==
    ASSUME NEW d \in Seq(Byte), NEW k \in Nat, NEW r \in 0..3
    PROVE  SextetAt(d, k, r) \in Sextet
    <1> DEFINE b1 == Cell(d, 3 * k + 1)
               b2 == Cell(d, 3 * k + 2)
               b3 == Cell(d, 3 * k + 3)
    <1>1. b1 \in Byte /\ b2 \in Byte /\ b3 \in Byte BY CellType
    <1>2. SextetAt(d, k, r) = IF r = 0 THEN b1 \div 4
                              ELSE IF r = 1 THEN (b1 % 4) * 16 + (b2 \div 16)
                              ELSE IF r = 2 THEN (b2 % 16) * 4 + (b3 \div 64)
                              ELSE b3 % 64
        BY DEF SextetAt
    <1> HIDE DEF b1, b2, b3
    <1>3. /\ b1 \div 4 \in 0..63 /\ b1 % 4 \in 0..3 /\ b2 \div 16 \in 0..15
          /\ b2 % 16 \in 0..15 /\ b3 \div 64 \in 0..3 /\ b3 % 64 \in 0..63
        BY <1>1, Pieces
    <1>4. /\ \A a \in 0..3, b \in 0..15 : a * 16 + b \in 0..63
          /\ \A a \in 0..15, b \in 0..3 : a * 4 + b \in 0..63
        OBVIOUS
    <1>5. (b1 % 4) * 16 + (b2 \div 16) \in 0..63 /\ (b2 % 16) * 4 + (b3 \div 64) \in 0..63
        BY <1>3, <1>4
    <1> QED BY <1>2, <1>3, <1>5 DEF Sextet

\* The table of decode_base64 inverts that of encode_base64url.
LEMMA Alphabet ==
    ASSUME NEW v \in Sextet
    PROVE  /\ Base64UrlChars[v] \in Byte
           /\ Base64Values[Base64UrlChars[v]] = Some(v)
    <1> DEFINE c == to_base64url_char(v)
    <1>1. v \in 0..63 /\ Base64UrlChars[v] = c BY DEF Sextet, Base64UrlChars
    <1>2. CASE v \in 0..25
        <2>1. c = 65 + v BY <1>1, <1>2 DEF to_base64url_char, AlphaNumChar
        <2> HIDE DEF c
        <2>2. c \in 65..90 /\ c - 65 = v /\ c \in Byte BY <1>2, <2>1 DEF Byte
        <2>3. from_base64url(c) = Some(c - 65) BY <2>2 DEF from_base64url
        <2> QED BY <1>1, <2>2, <2>3 DEF Base64Values, from_base64
    <1>3. CASE v \in 26..51
        <2>1. c = 97 + (v - 26) BY <1>1, <1>3 DEF to_base64url_char, AlphaNumChar
        <2> HIDE DEF c
        <2>2. c \in 97..122 /\ c \notin 65..90 /\ c - 97 + 26 = v /\ c \in Byte
            BY <1>3, <2>1 DEF Byte
        <2>3. from_base64url(c) = Some(c - 97 + 26) BY <2>2 DEF from_base64url
        <2> QED BY <1>1, <2>2, <2>3 DEF Base64Values, from_base64
    <1>4. CASE v \in 52..61
        <2>1. c = 48 + (v - 52) BY <1>1, <1>4 DEF to_base64url_char, AlphaNumChar
        <2> HIDE DEF c
        <2>2. /\ c \in 48..57 /\ c \notin 65..90 /\ c \notin 97..122
              /\ c - 48 + 52 = v /\ c \in Byte
            BY <1>4, <2>1 DEF Byte
        <2>3. from_base64url(c) = Some(c - 48 + 52) BY <2>2 DEF from_base64url
        <2> QED BY <1>1, <2>2, <2>3 DEF Base64Values, from_base64
    <1>5. CASE v = 62
        <2>1. c = 45 BY <1>5 DEF to_base64url_char
        <2>2. from_base64url(45) = Some(62) BY DEF from_base64url
        <2>3. 45 \in Byte BY DEF Byte
        <2> QED BY <1>1, <1>5, <2>1, <2>2, <2>3 DEF Base64Values, from_base64
    <1>6. CASE v = 63
        <2>1. c = 95 BY <1>6 DEF to_base64url_char
        <2>2. from_base64url(95) = Some(63) BY DEF from_base64url
        <2>3. 95 \in Byte BY DEF Byte
        <2> QED BY <1>1, <1>6, <2>1, <2>2, <2>3 DEF Base64Values, from_base64
    <1> QED BY <1>1, <1>2, <1>3, <1>4, <1>5, <1>6

-----------------------------------------------------------------------------
(* Encoding *)

\* A byte more changes no sextet that the bytes before it make.
LEMMA SextetsStay ==
    ASSUME NEW d \in Seq(Byte), NEW b \in Byte, NEW k \in Nat, NEW r \in 0..3,
           r = 3 => 3 * k + 3 <= Len(d),
           r < 3 => 3 * k + r + 1 <= Len(d)
    PROVE  SextetAt(Append(d, b), k, r) = SextetAt(d, k, r)
    <1> DEFINE e == Append(d, b)
    <1>1. Len(d) \in Nat /\ e \in Seq(Byte) /\ Len(e) = Len(d) + 1 OBVIOUS
    <1>2. \A i \in 1..Len(d) : e[i] = d[i] OBVIOUS
    <1> HIDE DEF e
    <1>3. \A i \in 1..Len(d) : Cell(e, i) = Cell(d, i)
        <2> SUFFICES ASSUME NEW i \in 1..Len(d) PROVE Cell(e, i) = Cell(d, i) OBVIOUS
        <2>1. i \in 1..Len(e) BY <1>1
        <2> QED BY <1>2, <2>1 DEF Cell
    <1>4. CASE r = 0
        <2>1. 3 * k + 1 \in 1..Len(d) BY <1>1, <1>4
        <2> QED BY <1>3, <1>4, <2>1 DEF SextetAt, e
    <1>5. CASE r = 1
        <2>1. 3 * k + 1 \in 1..Len(d) /\ 3 * k + 2 \in 1..Len(d) BY <1>1, <1>5
        <2> QED BY <1>3, <1>5, <2>1 DEF SextetAt, e
    <1>6. CASE r = 2
        <2>1. 3 * k + 2 \in 1..Len(d) /\ 3 * k + 3 \in 1..Len(d) BY <1>1, <1>6
        <2> QED BY <1>3, <1>6, <2>1 DEF SextetAt, e
    <1>7. CASE r = 3
        <2>1. 3 * k + 3 \in 1..Len(d) BY <1>1, <1>7
        <2> QED BY <1>3, <1>7, <2>1 DEF SextetAt, e
    <1> QED BY <1>4, <1>5, <1>6, <1>7

\* A text that spells d, and one that goes on with the next sextet.
LEMMA SpellsOn ==
    ASSUME NEW d \in Seq(Byte), NEW t \in Seq(Byte), Spells(d, t),
           NEW k \in Nat, NEW r \in 0..3, Len(t) = 4 * k + r,
           NEW c, c = Base64UrlChars[SextetAt(d, k, r)]
    PROVE  /\ Append(t, c) \in Seq(Byte)
           /\ Len(Append(t, c)) = Len(t) + 1
           /\ Spells(d, Append(t, c))
    <1> DEFINE u == Append(t, c)
    <1>1. c \in Byte BY SextetType, Alphabet
    <1>2. c = Base64UrlChars[SextetAt(d, k, r)] OBVIOUS
    <1>3. /\ u \in Seq(Byte) /\ Len(u) = Len(t) + 1 /\ Len(t) \in Nat
          /\ u[Len(t) + 1] = c /\ \A i \in 1..Len(t) : u[i] = t[i]
        BY <1>1
    <1> HIDE DEF u
    <1>4. Spells(d, u)
        <2> SUFFICES ASSUME NEW m \in 0..Len(u), NEW q \in 0..3, 4 * m + q < Len(u)
                     PROVE  u[4 * m + q + 1] = Base64UrlChars[SextetAt(d, m, q)]
            BY DEF Spells
        <2>1. m \in Nat /\ q \in Nat BY <1>3
        <2>2. CASE 4 * m + q < Len(t)
            <3>1. m \in 0..Len(t) /\ 4 * m + q + 1 \in 1..Len(t) BY <1>3, <2>1, <2>2
            <3>2. t[4 * m + q + 1] = Base64UrlChars[SextetAt(d, m, q)] BY <2>2, <3>1 DEF Spells
            <3> QED BY <1>3, <3>1, <3>2
        <2>3. CASE 4 * m + q = Len(t)
            <3>1. m = k /\ q = r BY <2>1, <2>3
            <3> QED BY <1>2, <1>3, <2>3, <3>1
        <2> DEFINE x == 4 * m + q
        <2>4. x \in Nat BY <2>1
        <2>5. x < Len(t) + 1 BY <1>3
        <2> HIDE DEF x
        <2>6. x < Len(t) \/ x = Len(t) BY <1>3, <2>4, <2>5
        <2> QED BY <2>2, <2>3, <2>6 DEF x
    <1> QED BY <1>2, <1>3, <1>4 DEF u

\* The encoder emits a character as soon as the bytes it needs are read.
LEMMA SpellsMore ==
    ASSUME NEW d \in Seq(Byte), NEW t \in Seq(Byte), Spells(d, t), NEW b \in Byte,
           Len(t) = 4 * (Len(d) \div 3) + (Len(d) % 3)
    PROVE  Spells(Append(d, b), t)
    <1>1. Len(d) \in Nat /\ Len(t) \in Nat OBVIOUS
    <1> SUFFICES ASSUME NEW k \in 0..Len(t), NEW r \in 0..3, 4 * k + r < Len(t)
                 PROVE  t[4 * k + r + 1] = Base64UrlChars[SextetAt(Append(d, b), k, r)]
        BY DEF Spells
    <1>2. k \in Nat BY <1>1
    <1> DEFINE p == Len(d) \div 3
               q == Len(d) % 3
    <1>3. p \in Nat /\ q \in 0..2 /\ Len(d) = 3 * p + q /\ Len(t) = 4 * p + q BY <1>1, Thirds
    <1> HIDE DEF p, q
    <1>4. (r = 3 => 3 * k + 3 <= Len(d)) /\ (r < 3 => 3 * k + r + 1 <= Len(d))
        BY <1>2, <1>3
    <1>5. SextetAt(Append(d, b), k, r) = SextetAt(d, k, r) BY <1>2, <1>4, SextetsStay
    <1> QED BY <1>5 DEF Spells

\* The cells of an input that got a byte more.
LEMMA CellsGrow ==
    ASSUME NEW d \in Seq(Byte), NEW b \in Byte
    PROVE  /\ Cell(Append(d, b), Len(d) + 1) = b
           /\ \A i \in 1..Len(d) : Cell(Append(d, b), i) = Cell(d, i)
    <1> DEFINE e == Append(d, b)
    <1>1. /\ Len(d) \in Nat /\ Len(e) = Len(d) + 1 /\ e[Len(d) + 1] = b
          /\ \A i \in 1..Len(d) : e[i] = d[i]
        OBVIOUS
    <1> HIDE DEF e
    <1>2. Cell(e, Len(d) + 1) = b BY <1>1 DEF Cell
    <1>3. \A i \in 1..Len(d) : i \in 1..Len(e) BY <1>1
    <1>4. \A i \in 1..Len(d) : Cell(e, i) = Cell(d, i) BY <1>1, <1>3 DEF Cell
    <1> QED BY <1>2, <1>4 DEF e

LEMMA EncodingStarts == Encoding(<<>>, EncodeStart)
    <1>1. Len(<<>>) = 0 /\ <<>> \in Seq(Byte) /\ 0 \div 3 = 0 /\ 0 % 3 = 0 OBVIOUS
    <1>2. /\ DOMAIN EncodeStart = {"out", "carry", "carry_bits"}
          /\ EncodeStart.out = <<>> /\ EncodeStart.carry = 0 /\ EncodeStart.carry_bits = 0
        BY DEF EncodeStart
    <1>3. Spells(<<>>, <<>>) BY DEF Spells
    <1> QED BY <1>1, <1>2, <1>3 DEF Encoding, CarryAfter

\* An iteration of the encoder's loop.
LEMMA EncodeStepKeeps ==
    ASSUME NEW d \in Seq(Byte), NEW e, Encoding(d, e), NEW b \in Byte
    PROVE  Encoding(Append(d, b), EncodeStep(Base64UrlChars, Base64UrlChars, e, b))
    <1> DEFINE f == Append(d, b)
               p == Len(d) \div 3
               t == Len(d) % 3
               s == EncodeStep(Base64UrlChars, Base64UrlChars, e, b)
               q == Len(f) \div 3
               u == Len(f) % 3
               w == e.out
    <1>1. f \in Seq(Byte) /\ Len(d) \in Nat /\ Len(f) = Len(d) + 1 OBVIOUS
    <1>2. /\ p \in Nat /\ t \in 0..2 /\ Len(d) = 3 * p + t
          /\ t < 2 => q = p /\ u = t + 1
          /\ t = 2 => q = p + 1 /\ u = 0
        BY <1>1, Thirds
    <1>3. /\ w \in Seq(Byte) /\ Len(w) = 4 * p + t
          /\ e.carry_bits = 2 * t /\ e.carry = CarryAfter(d, p, t)
          /\ Spells(d, w)
        BY DEF Encoding
    <1>4. Spells(f, w) BY <1>3, SpellsMore
    <1>5. /\ Cell(f, 3 * p + t + 1) = b
          /\ \A i \in 1..(3 * p + t) : Cell(f, i) = Cell(d, i)
        BY <1>2, CellsGrow
    <1>6. SUFFICES /\ DOMAIN s = {"out", "carry", "carry_bits"}
                   /\ s.out \in Seq(Byte) /\ Len(s.out) = 4 * q + u
                   /\ s.carry_bits = 2 * u /\ s.carry = CarryAfter(f, q, u)
                   /\ Spells(f, s.out)
        BY DEF Encoding
    <1> HIDE DEF f, p, t, q, u
    <1>7. CASE t = 0
        <2>1. s = [out |-> Append(w, Base64UrlChars[b \div 4]),
                   carry |-> CarryOf(b, 4), carry_bits |-> 2]
            BY <1>3, <1>7 DEF EncodeStep
        <2> HIDE DEF s, w
        <2>2. SextetAt(f, p, 0) = b \div 4 BY <1>2, <1>5, <1>7 DEF SextetAt
        <2>3. s.out \in Seq(Byte) /\ Len(s.out) = 4 * p + 1 /\ Spells(f, s.out)
            <3>1. PICK z \in 0..3 : z = 0 OBVIOUS
            <3> DEFINE x == Base64UrlChars[b \div 4]
            <3>2. Len(w) = 4 * p + z /\ x = Base64UrlChars[SextetAt(f, p, z)]
                BY <1>2, <1>3, <1>7, <2>2, <3>1
            <3>3. s.out = Append(w, x) BY <2>1
            <3> HIDE DEF x
            <3>4. /\ s.out \in Seq(Byte) /\ Len(s.out) = Len(w) + 1
                  /\ Spells(f, s.out)
                <4>1. /\ Append(w, x) \in Seq(Byte) /\ Len(Append(w, x)) = Len(w) + 1
                      /\ Spells(f, Append(w, x))
                    BY <1>1, <1>2, <1>3, <1>4, <3>1, <3>2, SpellsOn
                <4> QED BY <3>3, <4>1
            <3> QED BY <1>2, <3>1, <3>2, <3>4
        <2>4. CarryOf(b, 4) = (b % 4) * 16 BY DEF CarryOf
        <2>5. CarryAfter(f, p, 1) = (b % 4) * 16 BY <1>2, <1>5, <1>7 DEF CarryAfter
        <2> QED BY <1>2, <1>7, <2>1, <2>3, <2>4, <2>5
    <1>8. CASE t = 1
        <2>1. s = [out |-> Append(w, Base64UrlChars[e.carry + b \div 16]),
                   carry |-> CarryOf(b, 16), carry_bits |-> 4]
            BY <1>3, <1>8 DEF EncodeStep
        <2> HIDE DEF s, w
        <2>2. Cell(f, 3 * p + 1) = Cell(d, 3 * p + 1) /\ Cell(f, 3 * p + 2) = b
            <3>1. 3 * p + 1 \in 1..(3 * p + t) /\ 3 * p + t + 1 = 3 * p + 2 BY <1>2, <1>8
            <3> QED BY <1>5, <3>1
        <2>3. e.carry = (Cell(d, 3 * p + 1) % 4) * 16 BY <1>3, <1>8 DEF CarryAfter
        <2>4. SextetAt(f, p, 1) = e.carry + b \div 16 BY <2>2, <2>3 DEF SextetAt
        <2>5. s.out \in Seq(Byte) /\ Len(s.out) = 4 * p + 2 /\ Spells(f, s.out)
            <3>1. Len(w) = 4 * p + 1 /\ 1 \in 0..3 /\ 4 * p + 1 + 1 = 4 * p + 2 BY <1>2, <1>3, <1>8
            <3>2. s.out = Append(w, Base64UrlChars[e.carry + b \div 16]) BY <2>1
            <3> QED BY <1>1, <1>2, <1>3, <1>4, <2>4, <3>1, <3>2, SpellsOn
        <2>6. CarryOf(b, 16) = (b % 16) * 4 BY DEF CarryOf
        <2>7. CarryAfter(f, p, 2) = (b % 16) * 4 BY <2>2 DEF CarryAfter
        <2> QED BY <1>2, <1>8, <2>1, <2>5, <2>6, <2>7
    <1>9. CASE t = 2
        <2> DEFINE x == Base64UrlChars[e.carry + b \div 64]
                   y == Base64UrlChars[b % 64]
                   o == Append(w, x)
        <2>1. s = [out |-> w \o <<x, y>>, carry |-> 0, carry_bits |-> 0]
            BY <1>3, <1>9 DEF EncodeStep
        <2> HIDE DEF s, w
        <2>2. Cell(f, 3 * p + 2) = Cell(d, 3 * p + 2) /\ Cell(f, 3 * p + 3) = b
            <3>1. 3 * p + 2 \in 1..(3 * p + t) /\ 3 * p + t + 1 = 3 * p + 3 BY <1>2, <1>9
            <3> QED BY <1>5, <3>1
        <2>3. e.carry = (Cell(d, 3 * p + 2) % 16) * 4 BY <1>3, <1>9 DEF CarryAfter
        <2>4. SextetAt(f, p, 2) = e.carry + b \div 64 /\ SextetAt(f, p, 3) = b % 64
            BY <2>2, <2>3 DEF SextetAt
        <2>5. o \in Seq(Byte) /\ Len(o) = 4 * p + 3 /\ Spells(f, o)
            <3>1. Len(w) = 4 * p + 2 /\ 2 \in 0..3 /\ 4 * p + 2 + 1 = 4 * p + 3 BY <1>2, <1>3, <1>9
            <3> QED BY <1>1, <1>2, <1>3, <1>4, <2>4, <3>1, SpellsOn
        <2>6. /\ Append(o, y) \in Seq(Byte) /\ Len(Append(o, y)) = 4 * p + 4
              /\ Spells(f, Append(o, y))
            <3> HIDE DEF o
            <3>1. 3 \in 0..3 /\ 4 * p + 3 + 1 = 4 * p + 4 BY <1>2
            <3> QED BY <1>1, <1>2, <2>4, <2>5, <3>1, SpellsOn
        <2>7. x \in Byte /\ y \in Byte BY <1>1, <1>2, <2>4, SextetType, Alphabet
        <2>8. w \o <<x, y>> = Append(o, y)
            <3> HIDE DEF x, y
            <3> QED BY <1>3, <2>7
        <2>9. CarryAfter(f, p + 1, 0) = 0 BY DEF CarryAfter
        <2> HIDE DEF x, y, o
        <2>10. /\ DOMAIN s = {"out", "carry", "carry_bits"}
               /\ s.out = Append(o, y) /\ s.carry = 0 /\ s.carry_bits = 0
            BY <2>1, <2>8
        <2>11. q = p + 1 /\ u = 0 BY <1>2, <1>9
        <2> QED BY <1>2, <2>6, <2>9, <2>10, <2>11
    <1> QED BY <1>2, <1>7, <1>8, <1>9

\* How many characters 3p + t bytes take, and how many bytes come back.
LEMMA Counts ==
    ASSUME NEW p \in Nat
    PROVE  /\ encode_char_count(3 * p) = 4 * p /\ decode_char_count(4 * p) = 3 * p
           /\ encode_char_count(3 * p + 1) = 4 * p + 2 /\ decode_char_count(4 * p + 2) = 3 * p + 1
           /\ encode_char_count(3 * p + 2) = 4 * p + 3 /\ decode_char_count(4 * p + 3) = 3 * p + 2
           /\ decode_char_count(4 * p + 1) = 3 * p
    BY DEF encode_char_count, decode_char_count

\* The trailing loop of the encoder writes at most one character.
LEMMA FlushIs ==
    ASSUME NEW d \in Seq(Byte), NEW e, Encoding(d, e)
    PROVE  TextOf(d, EncodeFlush(Base64UrlChars, e, Len(d)))
    <1> DEFINE p == Len(d) \div 3
               t == Len(d) % 3
               w == e.out
               y == e.carry
               m == encode_char_count(Len(d)) - Len(w)
               tail == [i \in 1..m |-> Base64UrlChars[IF i = 1 THEN y ELSE 0]]
               x == Base64UrlChars[y]
    <1>1. Len(d) \in Nat OBVIOUS
    <1>2. p \in Nat /\ t \in 0..2 /\ Len(d) = 3 * p + t BY <1>1, Thirds
    <1>3. /\ w \in Seq(Byte) /\ Len(w) = 4 * p + t
          /\ y = CarryAfter(d, p, t) /\ Spells(d, w)
        BY DEF Encoding
    <1>4. EncodeFlush(Base64UrlChars, e, Len(d)) = w \o tail BY DEF EncodeFlush
    <1>5. \A i : i > Len(d) /\ i \in Nat => Cell(d, i) = 0 BY <1>1 DEF Cell
    <1> HIDE DEF p, t, w, y
    <1>6. CASE t = 0
        <2>1. m = 0 BY <1>2, <1>3, <1>6, Counts
        <2>2. tail = <<>>
            <3> HIDE DEF m
            <3> QED BY <2>1
        <2> HIDE DEF tail
        <2>3. w \o tail = w BY <1>3, <2>2
        <2>4. decode_char_count(Len(w)) = Len(d) BY <1>2, <1>3, <1>6, Counts
        <2> QED BY <1>3, <1>4, <2>3, <2>4 DEF TextOf
    <1>7. CASE t \in {1, 2}
        <2>1. m = 1 BY <1>2, <1>3, <1>7, Counts
        <2>2. SextetAt(d, p, t) = y
            <3>1. CASE t = 1
                <4>1. Cell(d, 3 * p + 2) = 0 BY <1>2, <1>5, <3>1
                <4>2. Cell(d, 3 * p + 1) \in Byte BY CellType
                <4>3. y = (Cell(d, 3 * p + 1) % 4) * 16 BY <1>3, <3>1 DEF CarryAfter
                <4>4. SextetAt(d, p, 1) = (Cell(d, 3 * p + 1) % 4) * 16 + (0 \div 16)
                    BY <4>1 DEF SextetAt
                <4> QED BY <3>1, <4>2, <4>3, <4>4 DEF Byte
            <3>2. CASE t = 2
                <4>1. Cell(d, 3 * p + 3) = 0 BY <1>2, <1>5, <3>2
                <4>2. Cell(d, 3 * p + 2) \in Byte BY CellType
                <4>3. y = (Cell(d, 3 * p + 2) % 16) * 4 BY <1>3, <3>2 DEF CarryAfter
                <4>4. SextetAt(d, p, 2) = (Cell(d, 3 * p + 2) % 16) * 4 + (0 \div 64)
                    BY <4>1 DEF SextetAt
                <4> QED BY <3>2, <4>2, <4>3, <4>4 DEF Byte
            <3> QED BY <1>7, <3>1, <3>2
        <2>3. t \in 0..3 /\ x = Base64UrlChars[SextetAt(d, p, t)] BY <1>7, <2>2
        <2>4. tail = <<x>>
            <3> HIDE DEF m
            <3> QED BY <2>1
        <2>5. x \in Byte BY <1>2, <2>3, SextetType, Alphabet
        <2> HIDE DEF x, tail
        <2>6. w \o tail = Append(w, x) BY <1>3, <2>4, <2>5
        <2>7. /\ Append(w, x) \in Seq(Byte) /\ Len(Append(w, x)) = Len(w) + 1
              /\ Spells(d, Append(w, x))
            BY <1>2, <1>3, <2>3, SpellsOn
        <2>8. decode_char_count(Len(w) + 1) = Len(d)
            <3>1. CASE t = 1 BY <1>2, <1>3, <3>1, Counts
            <3>2. CASE t = 2 BY <1>2, <1>3, <3>2, Counts
            <3> QED BY <1>7, <3>1, <3>2
        <2> QED BY <1>4, <2>6, <2>7, <2>8 DEF TextOf
    <1> QED BY <1>2, <1>6, <1>7

-----------------------------------------------------------------------------
(* Decoding *)

LEMMA DecoderStarts ==
    ASSUME NEW size \in Nat
    PROVE  DecoderAt(decode_char_count(size), DecodeStart(size), 0)
    <1>1. 0 \div 4 = 0 /\ 0 % 4 = 0 OBVIOUS
    <1>2. decode_char_count(size) \in Nat BY DEF decode_char_count
    <1> DEFINE s == DecodeStart(size)
    <1>3. /\ DOMAIN s = {"out", "out_idx", "carry", "bits_to_read", "final_shift", "valid"}
          /\ DOMAIN s.out = 0..decode_char_count(size)
          /\ s.out_idx = 0 /\ s.carry = FALSE /\ s.bits_to_read = 6
          /\ s.final_shift = 0 /\ s.valid = TRUE
        BY DEF DecodeStart
    <1> HIDE DEF s
    <1>4. DecoderIn(decode_char_count(size), s, 0, 0)
        <2>1. s.out_idx = 3 * 0 + (IF 0 = 0 THEN 0 ELSE 0 - 1) /\ s.out_idx \in 0..decode_char_count(size)
            BY <1>2, <1>3
        <2>2. s.bits_to_read = (IF 0 \in {0, 3} THEN 6 ELSE 2 * 0) /\ s.final_shift = 2 * 0
            BY <1>2, <1>3
        <2>3. s.carry \in BOOLEAN /\ (s.carry <=> 0 = 3)
            <3>1. s.carry = FALSE BY <1>3
            <3>2. 0 # 3 OBVIOUS
            <3> QED BY <3>1, <3>2, Zenon
        <2> QED BY <1>2, <1>3, <2>1, <2>2, <2>3, Zenon DEF DecoderIn
    <1> QED BY <1>1, <1>4 DEF DecoderAt, s

\* The bytes that the first j of size characters complete are in the string.
LEMMA IndexFits ==
    ASSUME NEW size \in Nat, NEW k \in Nat, NEW r \in 0..3, 4 * k + r <= size
    PROVE  /\ decode_char_count(size) \in Nat
           /\ 3 * k + (IF r = 0 THEN 0 ELSE r - 1) <= decode_char_count(size)
           /\ 4 * k + r = size => 3 * k + (IF r = 0 THEN 0 ELSE r - 1) = decode_char_count(size)
    <1>1. (size * 6) \div 8 \in Nat /\ 6 * size < 8 * ((size * 6) \div 8) + 8
          /\ 8 * ((size * 6) \div 8) <= 6 * size
        OBVIOUS
    <1> DEFINE n == (size * 6) \div 8
    <1> HIDE DEF n
    <1>2. n \in Nat /\ 6 * size < 8 * n + 8 /\ 8 * n <= 6 * size /\ n = decode_char_count(size)
        BY <1>1 DEF n, decode_char_count
    <1>3. CASE r = 0 BY <1>2, <1>3
    <1>4. CASE r = 1 BY <1>2, <1>4
    <1>5. CASE r = 2 BY <1>2, <1>5
    <1>6. CASE r = 3 BY <1>2, <1>6
    <1> QED BY <1>3, <1>4, <1>5, <1>6

\* The four cases of an iteration: where the decoder stands, and what the
\* value v adds to its string.
LEMMA FirstChar ==
    ASSUME NEW n \in Nat, NEW s, NEW k \in Nat, DecoderIn(n, s, k, 0), NEW v
    PROVE  LET z == DecodeSextet(s, v) IN
           /\ DecoderIn(n, z, k, 1)
           /\ \A i \in 0..n : z.out[i] = IF i = 3 * k THEN s.out[i] + v * 4 ELSE s.out[i]
    <1>1. /\ DOMAIN s = {"out", "out_idx", "carry", "bits_to_read", "final_shift", "valid"}
          /\ DOMAIN s.out = 0..n /\ s.out_idx = 3 * k /\ 3 * k \in 0..n
          /\ s.carry = FALSE /\ s.bits_to_read = 6 /\ s.valid = TRUE
        BY DEF DecoderIn
    <1> DEFINE z == DecodeSextet(s, v)
               q == 3 * k
    <1> HIDE DEF q
    <1>2. z = [s EXCEPT !.out[q] = @ + v * 4, !.bits_to_read = 2, !.final_shift = 2]
        BY <1>1 DEF DecodeSextet, q
    <1> HIDE DEF z
    <1>3. /\ DOMAIN z = {"out", "out_idx", "carry", "bits_to_read", "final_shift", "valid"}
          /\ z.out = [s.out EXCEPT ![q] = @ + v * 4]
          /\ z.out_idx = s.out_idx /\ z.carry = s.carry /\ z.bits_to_read = 2
          /\ z.final_shift = 2 /\ z.valid = s.valid
        BY <1>1, <1>2
    <1>4. DOMAIN z.out = 0..n /\ \A i \in 0..n : z.out[i] = IF i = q THEN s.out[i] + v * 4 ELSE s.out[i]
        BY <1>1, <1>3
    <1>5. DecoderIn(n, z, k, 1) BY <1>1, <1>3, <1>4 DEF DecoderIn
    <1> QED BY <1>4, <1>5 DEF z, q

LEMMA SecondChar ==
    ASSUME NEW n \in Nat, NEW s, NEW k \in Nat, DecoderIn(n, s, k, 1), NEW v, 3 * k + 1 <= n
    PROVE  LET z == DecodeSextet(s, v) IN
           /\ DecoderIn(n, z, k, 2)
           /\ \A i \in 0..n :
                 z.out[i] = IF i = 3 * k THEN s.out[i] + v \div 16
                            ELSE IF i = 3 * k + 1 THEN s.out[i] + (v % 16) * 16
                            ELSE s.out[i]
    <1>1. /\ DOMAIN s = {"out", "out_idx", "carry", "bits_to_read", "final_shift", "valid"}
          /\ DOMAIN s.out = 0..n /\ s.out_idx = 3 * k /\ 3 * k \in 0..n
          /\ s.carry = FALSE /\ s.bits_to_read = 2 /\ s.valid = TRUE
        BY DEF DecoderIn
    <1> DEFINE z == DecodeSextet(s, v)
               q == 3 * k
               x == v \div 16
               y == (v % 16) * 16
    <1> HIDE DEF q, x, y
    <1>2. z = [s EXCEPT !.out[q] = @ + x, !.out[q + 1] = @ + y, !.out_idx = @ + 1,
                        !.bits_to_read = 4, !.final_shift = 4]
        BY <1>1 DEF DecodeSextet, q, x, y
    <1> HIDE DEF z
    <1>3. /\ DOMAIN z = {"out", "out_idx", "carry", "bits_to_read", "final_shift", "valid"}
          /\ z.out = [[s.out EXCEPT ![q] = @ + x] EXCEPT ![q + 1] = @ + y]
          /\ z.out_idx = s.out_idx + 1 /\ z.carry = s.carry /\ z.bits_to_read = 4
          /\ z.final_shift = 4 /\ z.valid = s.valid
        BY <1>1, <1>2
    <1>4. /\ DOMAIN z.out = 0..n
          /\ \A i \in 0..n : z.out[i] = IF i = q THEN s.out[i] + x
                                        ELSE IF i = q + 1 THEN s.out[i] + y ELSE s.out[i]
        BY <1>1, <1>3 DEF q
    <1>5. DecoderIn(n, z, k, 2) BY <1>1, <1>3, <1>4 DEF DecoderIn
    <1> QED BY <1>4, <1>5 DEF z, q, x, y

LEMMA ThirdChar ==
    ASSUME NEW n \in Nat, NEW s, NEW k \in Nat, DecoderIn(n, s, k, 2), NEW v, 3 * k + 2 <= n
    PROVE  LET z == DecodeSextet(s, v) IN
           /\ DecoderIn(n, z, k, 3)
           /\ \A i \in 0..n :
                 z.out[i] = IF i = 3 * k + 1 THEN s.out[i] + v \div 4
                            ELSE IF i = 3 * k + 2 THEN s.out[i] + (v % 4) * 64
                            ELSE s.out[i]
    <1>1. /\ DOMAIN s = {"out", "out_idx", "carry", "bits_to_read", "final_shift", "valid"}
          /\ DOMAIN s.out = 0..n /\ s.out_idx = 3 * k + 1
          /\ s.carry = FALSE /\ s.bits_to_read = 4 /\ s.valid = TRUE
        BY DEF DecoderIn
    <1> DEFINE z == DecodeSextet(s, v)
               q == 3 * k + 1
               x == v \div 4
               y == (v % 4) * 64
    <1> HIDE DEF q, x, y
    <1>2. z = [s EXCEPT !.out[q] = @ + x, !.out[q + 1] = @ + y, !.out_idx = @ + 1,
                        !.carry = TRUE, !.bits_to_read = 6, !.final_shift = 6]
        BY <1>1 DEF DecodeSextet, q, x, y
    <1> HIDE DEF z
    <1>3. /\ DOMAIN z = {"out", "out_idx", "carry", "bits_to_read", "final_shift", "valid"}
          /\ z.out = [[s.out EXCEPT ![q] = @ + x] EXCEPT ![q + 1] = @ + y]
          /\ z.out_idx = s.out_idx + 1 /\ z.carry = TRUE /\ z.bits_to_read = 6
          /\ z.final_shift = 6 /\ z.valid = s.valid
        BY <1>1, <1>2
    <1>4. /\ DOMAIN z.out = 0..n
          /\ \A i \in 0..n : z.out[i] = IF i = q THEN s.out[i] + x
                                        ELSE IF i = q + 1 THEN s.out[i] + y ELSE s.out[i]
        BY <1>1, <1>3 DEF q
    <1>5. DecoderIn(n, z, k, 3)
        <2>1. z.out_idx = 3 * k + (IF 3 = 0 THEN 0 ELSE 3 - 1) /\ z.out_idx \in 0..n
            BY <1>1, <1>3, <1>4
        <2>2. z.bits_to_read = (IF 3 \in {0, 3} THEN 6 ELSE 2 * 3) /\ z.final_shift = 2 * 3
            BY <1>1, <1>3, <1>4
        <2>3. z.carry \in BOOLEAN /\ (z.carry <=> 3 = 3) BY <1>1, <1>3, <1>4
        <2> QED BY <1>1, <1>3, <1>4, <2>1, <2>2, <2>3, Zenon DEF DecoderIn
    <1>6. q = 3 * k + 1 /\ q + 1 = 3 * k + 2 BY DEF q
    <1> QED BY <1>4, <1>5, <1>6 DEF z, x, y

LEMMA FourthChar ==
    ASSUME NEW n \in Nat, NEW s, NEW k \in Nat, DecoderIn(n, s, k, 3), NEW v, 3 * k + 3 <= n
    PROVE  LET z == DecodeSextet(s, v) IN
           /\ DecoderIn(n, z, k + 1, 0)
           /\ \A i \in 0..n : z.out[i] = IF i = 3 * k + 2 THEN s.out[i] + v ELSE s.out[i]
    <1>1. /\ DOMAIN s = {"out", "out_idx", "carry", "bits_to_read", "final_shift", "valid"}
          /\ DOMAIN s.out = 0..n /\ s.out_idx = 3 * k + 2
          /\ s.carry = TRUE /\ s.bits_to_read = 6 /\ s.valid = TRUE
        BY DEF DecoderIn
    <1> DEFINE z == DecodeSextet(s, v)
               q == 3 * k + 2
    <1> HIDE DEF q
    <1>2. z = [s EXCEPT !.out[q] = @ + v, !.out_idx = @ + 1, !.final_shift = 0, !.carry = FALSE]
        BY <1>1 DEF DecodeSextet, q
    <1> HIDE DEF z
    <1>3. /\ DOMAIN z = {"out", "out_idx", "carry", "bits_to_read", "final_shift", "valid"}
          /\ z.out = [s.out EXCEPT ![q] = @ + v]
          /\ z.out_idx = s.out_idx + 1 /\ z.carry = FALSE /\ z.bits_to_read = s.bits_to_read
          /\ z.final_shift = 0 /\ z.valid = s.valid
        BY <1>1, <1>2
    <1>4. DOMAIN z.out = 0..n /\ \A i \in 0..n : z.out[i] = IF i = q THEN s.out[i] + v ELSE s.out[i]
        BY <1>1, <1>3
    <1>5. DecoderIn(n, z, k + 1, 0)
        <2>1. z.out_idx = 3 * (k + 1) + (IF 0 = 0 THEN 0 ELSE 0 - 1) /\ z.out_idx \in 0..n
            BY <1>1, <1>3, <1>4
        <2>2. z.bits_to_read = (IF 0 \in {0, 3} THEN 6 ELSE 2 * 0) /\ z.final_shift = 2 * 0
            BY <1>1, <1>3, <1>4
        <2>3. z.carry \in BOOLEAN /\ (z.carry <=> 0 = 3)
            <3>1. z.carry = FALSE BY <1>3
            <3>2. 0 # 3 OBVIOUS
            <3> QED BY <3>1, <3>2, Zenon
        <2> QED BY <1>1, <1>3, <1>4, <2>1, <2>2, <2>3, Zenon DEF DecoderIn
    <1> QED BY <1>4, <1>5 DEF z, q

\* What the shifts and masks of the decoder cut off a sextet.
LEMMA Joins ==
    ASSUME NEW x \in Byte, NEW y \in Byte
    PROVE  /\ ((x % 4) * 16 + (y \div 16)) \div 16 = x % 4
           /\ ((x % 4) * 16 + (y \div 16)) % 16 = y \div 16
           /\ ((x % 16) * 4 + (y \div 64)) \div 4 = x % 16
           /\ ((x % 16) * 4 + (y \div 64)) % 4 = y \div 64
    <1>1. /\ \A a \in 0..3, b \in 0..15 : (a * 16 + b) \div 16 = a /\ (a * 16 + b) % 16 = b
          /\ \A a \in 0..15, b \in 0..3 : (a * 4 + b) \div 4 = a /\ (a * 4 + b) % 4 = b
        OBVIOUS
    <1>2. x % 4 \in 0..3 /\ y \div 16 \in 0..15 /\ x % 16 \in 0..15 /\ y \div 64 \in 0..3
        BY Pieces
    <1> DEFINE a1 == x % 4
               b1 == y \div 16
               a2 == x % 16
               b2 == y \div 64
    <1> HIDE DEF a1, b1, a2, b2
    <1>3. a1 \in 0..3 /\ b1 \in 0..15 /\ a2 \in 0..15 /\ b2 \in 0..3 BY <1>2 DEF a1, b1, a2, b2
    <1>4. /\ (a1 * 16 + b1) \div 16 = a1 /\ (a1 * 16 + b1) % 16 = b1
          /\ (a2 * 4 + b2) \div 4 = a2 /\ (a2 * 4 + b2) % 4 = b2
        BY <1>1, <1>3
    <1> QED BY <1>4 DEF a1, b1, a2, b2

\* An iteration of the decoder's loop, whatever it reads.
LEMMA DecodeSextetKeeps ==
    ASSUME NEW size \in Nat, NEW j \in Nat, j < size, NEW s, NEW v,
           DecoderAt(decode_char_count(size), s, j)
    PROVE  DecoderAt(decode_char_count(size), DecodeSextet(s, v), j + 1)
    <1> DEFINE n == decode_char_count(size)
               k == j \div 4
               r == j % 4
    <1>1. /\ k \in Nat /\ r \in 0..3 /\ j = 4 * k + r
          /\ r < 3 => (j + 1) \div 4 = k /\ (j + 1) % 4 = r + 1
          /\ r = 3 => (j + 1) \div 4 = k + 1 /\ (j + 1) % 4 = 0
        BY Quarters
    <1>2. DecoderIn(n, s, k, r) BY DEF DecoderAt
    <1>3. SUFFICES DecoderIn(n, DecodeSextet(s, v), (j + 1) \div 4, (j + 1) % 4) BY DEF DecoderAt
    <1>4. n \in Nat BY <1>1, IndexFits
    <1>5. r = 1 => 3 * k + 1 <= n
        <2>1. r = 1 => 4 * k + 2 <= size BY <1>1
        <2> QED BY <1>1, <2>1, IndexFits
    <1>6. r = 2 => 3 * k + 2 <= n
        <2>1. r = 2 => 4 * k + 3 <= size BY <1>1
        <2> QED BY <1>1, <2>1, IndexFits
    <1>7. r = 3 => 3 * k + 3 <= n
        <2> SUFFICES ASSUME r = 3 PROVE 3 * k + 3 <= n OBVIOUS
        <2>1. PICK z \in 0..3 : z = 0 OBVIOUS
        <2>2. k + 1 \in Nat /\ 4 * (k + 1) + z <= size BY <1>1, <2>1
        <2>3. 3 * (k + 1) + (IF z = 0 THEN 0 ELSE z - 1) <= n BY <2>2, IndexFits
        <2> QED BY <1>1, <1>4, <2>1, <2>3
    <1> HIDE DEF n, k, r
    <1>8. CASE r = 0 BY <1>1, <1>2, <1>4, <1>8, FirstChar
    <1>9. CASE r = 1 BY <1>1, <1>2, <1>4, <1>5, <1>9, SecondChar
    <1>10. CASE r = 2 BY <1>1, <1>2, <1>4, <1>6, <1>10, ThirdChar
    <1>11. CASE r = 3 BY <1>1, <1>2, <1>4, <1>7, <1>11, FourthChar
    <1> QED BY <1>1, <1>8, <1>9, <1>10, <1>11

\* And with a character of the text of d.
LEMMA DecodingKeeps ==
    ASSUME NEW size \in Nat, NEW j \in Nat, j < size, NEW s,
           NEW d \in Seq(Byte),
           DecoderAt(decode_char_count(size), s, j), Decoding(d, s, j)
    PROVE  Decoding(d, DecodeSextet(s, SextetAt(d, j \div 4, j % 4)), j + 1)
    <1> DEFINE n == decode_char_count(size)
               k == j \div 4
               r == j % 4
               v == SextetAt(d, k, r)
               z == DecodeSextet(s, v)
               b1 == Cell(d, 3 * k + 1)
               b2 == Cell(d, 3 * k + 2)
               b3 == Cell(d, 3 * k + 3)
    <1>1. /\ k \in Nat /\ r \in 0..3 /\ j = 4 * k + r
          /\ r < 3 => (j + 1) % 4 = r + 1
          /\ r = 3 => (j + 1) % 4 = 0
        BY Quarters
    <1>2. DecoderIn(n, s, k, r) /\ DecoderAt(n, z, j + 1)
        BY DecodeSextetKeeps DEF DecoderAt
    <1>3. n \in Nat BY <1>1, IndexFits
    <1>4. b1 \in Byte /\ b2 \in Byte /\ b3 \in Byte BY CellType
    <1>5. s.out_idx = 3 * k + (IF r = 0 THEN 0 ELSE r - 1) BY <1>2 DEF DecoderIn
    <1>6. \A i \in 0..n : s.out[i] = IF i < s.out_idx THEN Cell(d, i + 1)
                                     ELSE IF i = s.out_idx THEN Brought(Cell(d, i + 1), r)
                                     ELSE 0
        BY <1>2 DEF Decoding, DecoderIn
    <1>7. SUFFICES ASSUME NEW i \in 0..n
                   PROVE  z.out[i] = IF i < z.out_idx THEN Cell(d, i + 1)
                                     ELSE IF i = z.out_idx THEN Brought(Cell(d, i + 1), (j + 1) % 4)
                                     ELSE 0
        BY <1>2 DEF Decoding, DecoderAt, DecoderIn
    <1>8. i = 3 * k => Cell(d, i + 1) = b1
        BY <1>1
    <1>9. i = 3 * k + 1 => Cell(d, i + 1) = b2
        BY <1>1
    <1>10. i = 3 * k + 2 => Cell(d, i + 1) = b3
        BY <1>1
    <1>11. /\ z.out_idx = 3 * ((j + 1) \div 4) + (IF (j + 1) % 4 = 0 THEN 0 ELSE ((j + 1) % 4) - 1)
           /\ z.out_idx \in 0..n
        BY <1>2 DEF DecoderAt, DecoderIn
    <1>12. /\ r < 3 => (j + 1) \div 4 = k
           /\ r = 3 => (j + 1) \div 4 = k + 1
        BY Quarters
    <1>13. v = IF r = 0 THEN b1 \div 4 ELSE IF r = 1 THEN (b1 % 4) * 16 + (b2 \div 16)
               ELSE IF r = 2 THEN (b2 % 16) * 4 + (b3 \div 64) ELSE b3 % 64
        BY DEF SextetAt
    <1> DEFINE jj == (j + 1) % 4
               kk == (j + 1) \div 4
               c == Cell(d, i + 1)
    <1> HIDE DEF n, k, r, v, b1, b2, b3, jj, kk, c
    <1>14. CASE r = 0
        <2>1. \A m \in 0..n : z.out[m] = IF m = 3 * k THEN s.out[m] + v * 4 ELSE s.out[m]
            <3>1. DecoderIn(n, s, k, 0) BY <1>2, <1>14
            <3> QED BY <1>1, <1>3, <3>1, FirstChar
        <2> HIDE DEF z
        <2>2. z.out_idx = 3 * k /\ s.out_idx = 3 * k /\ jj = 1
            BY <1>1, <1>5, <1>11, <1>12, <1>14 DEF jj, kk
        <2>3. i = 3 * k => z.out[i] = Brought(c, 1)
            <3> SUFFICES ASSUME i = 3 * k PROVE z.out[i] = Brought(b1, 1) BY <1>8 DEF c
            <3>1. s.out[i] = 0 BY <1>6, <1>14, <2>2 DEF Brought
            <3>2. v = b1 \div 4 BY <1>13, <1>14
            <3>3. b1 \div 4 \in 0..63 BY <1>4, Pieces
            <3> QED BY <2>1, <3>1, <3>2, <3>3 DEF Brought
        <2>4. i # 3 * k => z.out[i] = IF i < 3 * k THEN c ELSE 0
            BY <1>6, <2>1, <2>2 DEF c
        <2> QED BY <2>2, <2>3, <2>4 DEF jj, c
    <1>15. CASE r = 1
        <2>1. 3 * k + 1 <= n BY <1>1, <1>3, <1>11, <1>12, <1>15
        <2>2. \A m \in 0..n : z.out[m] = IF m = 3 * k THEN s.out[m] + v \div 16
                                         ELSE IF m = 3 * k + 1 THEN s.out[m] + (v % 16) * 16
                                         ELSE s.out[m]
            <3>1. DecoderIn(n, s, k, 1) BY <1>2, <1>15
            <3> QED BY <1>1, <1>3, <2>1, <3>1, SecondChar
        <2> HIDE DEF z
        <2>3. z.out_idx = 3 * k + 1 /\ s.out_idx = 3 * k /\ jj = 2
            BY <1>1, <1>5, <1>11, <1>12, <1>15 DEF jj, kk
        <2>4. v \div 16 = b1 % 4 /\ v % 16 = b2 \div 16 BY <1>4, <1>13, <1>15, Joins
        <2>5. i = 3 * k => z.out[i] = c
            <3> SUFFICES ASSUME i = 3 * k PROVE z.out[i] = b1 BY <1>8 DEF c
            <3>1. s.out[i] = (b1 \div 4) * 4 BY <1>1, <1>6, <1>8, <1>15, <2>3 DEF Brought
            <3>2. z.out[i] = s.out[i] + v \div 16 BY <2>2
            <3> QED BY <1>4, <2>4, <3>1, <3>2, Pieces
        <2>6. i = 3 * k + 1 => z.out[i] = Brought(c, 2)
            <3> SUFFICES ASSUME i = 3 * k + 1 PROVE z.out[i] = Brought(b2, 2) BY <1>9 DEF c
            <3>1. i # 3 * k /\ ~(i < 3 * k) BY <1>1
            <3>2. s.out[i] = 0 BY <1>6, <2>3, <3>1
            <3>3. z.out[i] = s.out[i] + (v % 16) * 16 BY <2>2, <3>1
            <3>4. b2 \div 16 \in 0..15 BY <1>4, Pieces
            <3> QED BY <2>4, <3>2, <3>3, <3>4 DEF Brought
        <2>7. i # 3 * k /\ i # 3 * k + 1 => z.out[i] = IF i < 3 * k THEN c ELSE 0
            BY <1>6, <2>2, <2>3 DEF c
        <2>8. i \in Nat /\ 3 * k \in Nat BY <1>1, <1>3
        <2> QED BY <2>3, <2>5, <2>6, <2>7, <2>8 DEF jj, c
    <1>16. CASE r = 2
        <2>1. 3 * k + 2 <= n BY <1>1, <1>3, <1>11, <1>12, <1>16
        <2>2. \A m \in 0..n : z.out[m] = IF m = 3 * k + 1 THEN s.out[m] + v \div 4
                                         ELSE IF m = 3 * k + 2 THEN s.out[m] + (v % 4) * 64
                                         ELSE s.out[m]
            <3>1. DecoderIn(n, s, k, 2) BY <1>2, <1>16
            <3> QED BY <1>1, <1>3, <2>1, <3>1, ThirdChar
        <2> HIDE DEF z
        <2>3. z.out_idx = 3 * k + 2 /\ s.out_idx = 3 * k + 1 /\ jj = 3
            BY <1>1, <1>5, <1>11, <1>12, <1>16 DEF jj, kk
        <2>4. v \div 4 = b2 % 16 /\ v % 4 = b3 \div 64 BY <1>4, <1>13, <1>16, Joins
        <2>5. i = 3 * k + 1 => z.out[i] = c
            <3> SUFFICES ASSUME i = 3 * k + 1 PROVE z.out[i] = b2 BY <1>9 DEF c
            <3>1. s.out[i] = (b2 \div 16) * 16 BY <1>1, <1>6, <1>9, <1>16, <2>3 DEF Brought
            <3>2. z.out[i] = s.out[i] + v \div 4 BY <2>2
            <3> QED BY <1>4, <2>4, <3>1, <3>2, Pieces
        <2>6. i = 3 * k + 2 => z.out[i] = Brought(c, 3)
            <3> SUFFICES ASSUME i = 3 * k + 2 PROVE z.out[i] = Brought(b3, 3) BY <1>10 DEF c
            <3>1. i # 3 * k + 1 /\ ~(i < 3 * k + 1) BY <1>1
            <3>2. s.out[i] = 0 BY <1>6, <2>3, <3>1
            <3>3. z.out[i] = s.out[i] + (v % 4) * 64 BY <2>2, <3>1
            <3>4. b3 \div 64 \in 0..3 BY <1>4, Pieces
            <3> QED BY <2>4, <3>2, <3>3, <3>4 DEF Brought
        <2>7. i # 3 * k + 1 /\ i # 3 * k + 2 => z.out[i] = IF i < 3 * k + 1 THEN c ELSE 0
            BY <1>6, <2>2, <2>3 DEF c
        <2>8. i \in Nat /\ 3 * k \in Nat BY <1>1, <1>3
        <2> QED BY <2>3, <2>5, <2>6, <2>7, <2>8 DEF jj, c
    <1>17. CASE r = 3
        <2>1. 3 * k + 3 <= n BY <1>1, <1>3, <1>11, <1>12, <1>17
        <2>2. \A m \in 0..n : z.out[m] = IF m = 3 * k + 2 THEN s.out[m] + v ELSE s.out[m]
            <3>1. DecoderIn(n, s, k, 3) BY <1>2, <1>17
            <3> QED BY <1>1, <1>3, <2>1, <3>1, FourthChar
        <2> HIDE DEF z
        <2>3. z.out_idx = 3 * k + 3 /\ s.out_idx = 3 * k + 2 /\ jj = 0
            BY <1>1, <1>5, <1>11, <1>12, <1>17 DEF jj, kk
        <2>4. i = 3 * k + 2 => z.out[i] = c
            <3> SUFFICES ASSUME i = 3 * k + 2 PROVE z.out[i] = b3 BY <1>10 DEF c
            <3>1. s.out[i] = (b3 \div 64) * 64 BY <1>1, <1>6, <1>10, <1>17, <2>3 DEF Brought
            <3>2. z.out[i] = s.out[i] + v /\ v = b3 % 64 BY <1>13, <1>17, <2>2
            <3> QED BY <1>4, <3>1, <3>2, Pieces
        <2>5. i # 3 * k + 2 => z.out[i] = IF i < 3 * k + 2 THEN c ELSE 0
            BY <1>6, <2>2, <2>3 DEF c
        <2>6. i \in Nat /\ 3 * k \in Nat BY <1>1, <1>3
        <2>7. Brought(c, 0) = 0 BY DEF Brought
        <2> QED BY <2>3, <2>4, <2>5, <2>6, <2>7 DEF jj, c
    <1> QED BY <1>1, <1>14, <1>15, <1>16, <1>17

-----------------------------------------------------------------------------
(* The invariant *)

LEMMA CodecStarts == CodecInit => CodecInv
    <1> SUFFICES ASSUME CodecInit PROVE CodecInv OBVIOUS
    <1>1. /\ data = <<>> /\ enc = EncodeStart /\ text = <<>> /\ encoded = FALSE
          /\ dec = DecodeStart(0) /\ next = 1 /\ pc = "encoding"
        BY DEF CodecInit
    <1>2. CodecTypes
        <2>1. data \in Seq(Byte) /\ text \in Seq(Byte) BY <1>1
        <2>2. next \in Nat \ {0} BY <1>1
        <2> QED BY <1>1, <2>1, <2>2, Zenon DEF CodecTypes
    <1>3. WhileEncoding BY <1>1, EncodingStarts DEF WhileEncoding
    <1>4. StaysInString
        <2>1. dec.out_idx = 0 BY <1>1 DEF DecodeStart
        <2>2. decode_char_count(Len(text)) = 0 BY <1>1 DEF decode_char_count
        <2> QED BY <2>1, <2>2 DEF StaysInString
    <1>5. TextIsMine /\ WhileDecoding /\ Restored
        BY <1>1 DEF TextIsMine, WhileDecoding, Restored
    <1> QED BY <1>2, <1>3, <1>4, <1>5 DEF CodecInv

LEMMA EncodeByteKeeps ==
    ASSUME CodecInv, EncodeByte
    PROVE  CodecInv'
    <1>1. CodecTypes /\ WhileEncoding /\ StaysInString BY DEF CodecInv
    <1>2. /\ pc = "encoding" /\ text' = text /\ encoded' = encoded
          /\ dec' = dec /\ next' = next /\ pc' = pc
        BY DEF EncodeByte
    <1>3. PICK b \in Bytes : /\ data' = Append(data, b)
                             /\ enc' = EncodeStep(Base64UrlChars, Base64UrlChars, enc, b)
        BY DEF EncodeByte
    <1>4. data \in Seq(Byte) /\ b \in Byte BY <1>1, InputsAssumption DEF CodecTypes
    <1>5. Encoding(data, enc) /\ encoded = FALSE /\ next = 1 BY <1>1, <1>2 DEF WhileEncoding
    <1>6. Encoding(data', enc') BY <1>3, <1>4, <1>5, EncodeStepKeeps
    <1>7. data' \in Seq(Byte) BY <1>3, <1>4
    <1>8. CodecTypes' BY <1>1, <1>2, <1>7 DEF CodecTypes
    <1>9. WhileEncoding' BY <1>2, <1>5, <1>6 DEF WhileEncoding
    <1>10. (TextIsMine /\ WhileDecoding /\ Restored)'
        BY <1>2, <1>5 DEF TextIsMine, WhileDecoding, Restored
    <1>11. StaysInString' BY <1>1, <1>2 DEF StaysInString
    <1> QED BY <1>8, <1>9, <1>10, <1>11 DEF CodecInv

\* The call of decode_base64.
LEMMA CallKeeps ==
    ASSUME CodecInv, pc = "encoding", NEW t \in Seq(Byte), Call(t),
           data' = data, next' = next, encoded' \in BOOLEAN,
           encoded' = TRUE => TextOf(data, t)
    PROVE  CodecInv'
    <1> DEFINE n == decode_char_count(Len(t))
               s == DecodeStart(Len(t))
    <1>1. CodecTypes /\ next = 1 BY DEF CodecInv, WhileEncoding
    <1>2. text' = t /\ dec' = s /\ pc' = IF n = 0 THEN "decoded" ELSE "decoding" BY DEF Call
    <1>3. Len(t) \in Nat /\ data \in Seq(Byte) /\ n \in Nat
        BY <1>1 DEF CodecTypes, decode_char_count
    <1>4. DecoderAt(n, s, 0) BY <1>3, DecoderStarts
    <1>5. /\ s.out_idx = 0 /\ s.valid = TRUE /\ DOMAIN s.out = 0..n
          /\ \A i \in 0..n : s.out[i] = 0
        BY DEF DecodeStart
    <1> HIDE DEF s, n
    <1>6. CodecTypes' BY <1>1, <1>2 DEF CodecTypes
    <1>7. WhileEncoding' BY <1>2 DEF WhileEncoding
    <1>8. TextIsMine' BY <1>2 DEF TextIsMine
    <1>9. StaysInString' BY <1>2, <1>3, <1>5 DEF StaysInString, n
    <1>10. WhileDecoding'
        <2>1. next' = 1 /\ next' - 1 = 0 /\ next' <= Len(t) + 1 BY <1>1, <1>3
        <2>2. encoded' = TRUE => Decoding(data, s, 0)
            <3> SUFFICES ASSUME encoded' = TRUE, NEW i \in 0..n
                         PROVE  s.out[i] = IF i < s.out_idx THEN Cell(data, i + 1)
                                           ELSE IF i = s.out_idx THEN Brought(Cell(data, i + 1), 0 % 4)
                                           ELSE 0
                BY <1>5 DEF Decoding
            <3>1. s.out[i] = 0 /\ ~(i < s.out_idx) BY <1>3, <1>5
            <3>2. 0 % 4 = 0 OBVIOUS
            <3> QED BY <3>1, <3>2 DEF Brought
        <2> QED BY <1>2, <1>4, <2>1, <2>2 DEF WhileDecoding, n
    <1>11. Restored'
        <2> SUFFICES ASSUME encoded' = TRUE, pc' = "decoded"
                     PROVE  dec'.valid = TRUE /\ \A i \in 0..n : dec'.out[i] = Cell(data', i + 1)
            BY <1>2 DEF Restored, n
        <2>1. n = 0 /\ Len(data) = 0 BY <1>2 DEF TextOf, n
        <2>2. \A i \in 0..n : Cell(data, i + 1) = 0 BY <2>1 DEF Cell
        <2> QED BY <1>2, <1>5, <2>2
    <1> QED BY <1>6, <1>7, <1>8, <1>9, <1>10, <1>11 DEF CodecInv

LEMMA DecodeCharKeeps ==
    ASSUME CodecInv, DecodeChar
    PROVE  CodecInv'
    <1> DEFINE n == decode_char_count(Len(text))
               j == next - 1
               c == text[next]
               val == Base64Values[c]
    <1>1. CodecTypes /\ TextIsMine /\ WhileDecoding BY DEF CodecInv
    <1>2. /\ pc = "decoding" /\ next <= Len(text)
          /\ dec' = DecodeStep(Base64Values, dec, c) /\ next' = next + 1
          /\ pc' = IF dec'.valid THEN pc ELSE "decoded"
          /\ data' = data /\ text' = text /\ encoded' = encoded
        BY DEF DecodeChar
    <1>3. /\ data \in Seq(Byte) /\ text \in Seq(Byte) /\ Len(text) \in Nat
          /\ next \in Nat /\ next # 0 /\ j \in Nat /\ j < Len(text) /\ j + 1 = next
          /\ next' - 1 = j + 1
        BY <1>1, <1>2 DEF CodecTypes
    <1>4. DecoderAt(n, dec, j) /\ (encoded = TRUE => Decoding(data, dec, j))
        BY <1>1, <1>2 DEF WhileDecoding
    <1>5. /\ dec.valid = TRUE /\ dec.out_idx \in 0..n
          /\ DOMAIN dec = {"out", "out_idx", "carry", "bits_to_read", "final_shift", "valid"}
        BY <1>4 DEF DecoderAt, DecoderIn
    <1>6. TextIsMine' BY <1>1, <1>2 DEF TextIsMine
    <1>7. encoded = TRUE => val = Some(SextetAt(data, j \div 4, j % 4))
        <2> SUFFICES ASSUME encoded = TRUE PROVE val = Some(SextetAt(data, j \div 4, j % 4))
            OBVIOUS
        <2> DEFINE k == j \div 4
                   r == j % 4
        <2>1. k \in Nat /\ r \in 0..3 /\ j = 4 * k + r BY <1>3, Quarters
        <2>2. Spells(data, text) BY <1>1 DEF TextIsMine, TextOf
        <2> HIDE DEF k, r
        <2>3. k \in 0..Len(text) /\ 4 * k + r < Len(text) /\ 4 * k + r + 1 = next BY <1>3, <2>1
        <2>4. c = Base64UrlChars[SextetAt(data, k, r)] BY <2>1, <2>2, <2>3 DEF Spells
        <2> QED BY <1>3, <2>1, <2>4, SextetType, Alphabet DEF k, r
    <1> HIDE DEF val, j
    <1>8. CASE val.outcome = "value"
        <2> DEFINE v == val.value
                   z == DecodeSextet(dec, v)
        <2>1. dec' = z BY <1>2, <1>5, <1>8 DEF DecodeStep, val
        <2>2. DecoderAt(n, z, j + 1) BY <1>3, <1>4, DecodeSextetKeeps
        <2>3. encoded = TRUE => Decoding(data, z, j + 1)
            <3> SUFFICES ASSUME encoded = TRUE PROVE Decoding(data, z, j + 1) OBVIOUS
            <3>1. v = SextetAt(data, j \div 4, j % 4) BY <1>7 DEF Some
            <3> QED BY <1>3, <1>4, <3>1, DecodingKeeps
        <2> HIDE DEF z, v
        <2>4. z.valid = TRUE /\ z.out_idx \in 0..n BY <2>2 DEF DecoderAt, DecoderIn
        <2>5. pc' = "decoding" BY <1>2, <2>1, <2>4
        <2>6. CodecTypes' BY <1>1, <1>2, <1>3, <2>5 DEF CodecTypes
        <2>7. (WhileEncoding /\ Restored)' BY <2>5 DEF WhileEncoding, Restored
        <2>8. StaysInString' BY <1>2, <2>1, <2>4 DEF StaysInString
        <2>9. next' <= Len(text') + 1 BY <1>2, <1>3
        <2>10. WhileDecoding' BY <1>2, <1>3, <2>1, <2>2, <2>3, <2>9 DEF WhileDecoding
        <2> QED BY <1>6, <2>6, <2>7, <2>8, <2>10 DEF CodecInv
    <1>9. CASE val.outcome # "value"
        <2>1. encoded = FALSE
            <3>1. \A x : Some(x).outcome = "value" BY DEF Some
            <3>2. encoded # TRUE BY <1>7, <1>9, <3>1, Zenon
            <3>3. encoded \in BOOLEAN BY <1>1 DEF CodecTypes
            <3> QED BY <3>2, <3>3
        <2>2. dec' = [dec EXCEPT !.valid = FALSE] BY <1>2, <1>9 DEF DecodeStep, val
        <2>3. dec'.valid = FALSE /\ dec'.out_idx = dec.out_idx BY <1>5, <2>2
        <2>4. pc' = "decoded" BY <1>2, <2>3
        <2>5. CodecTypes' BY <1>1, <1>2, <1>3, <2>4 DEF CodecTypes
        <2>6. (WhileEncoding /\ WhileDecoding)' BY <2>4 DEF WhileEncoding, WhileDecoding
        <2>7. Restored' BY <1>2, <2>1 DEF Restored
        <2>8. StaysInString' BY <1>2, <1>5, <2>3 DEF StaysInString
        <2> QED BY <1>6, <2>5, <2>6, <2>7, <2>8 DEF CodecInv
    <1> QED BY <1>8, <1>9

LEMMA DecodeReturnKeeps ==
    ASSUME CodecInv, DecodeReturn
    PROVE  CodecInv'
    <1> DEFINE n == decode_char_count(Len(text))
               j == next - 1
               k == j \div 4
               r == j % 4
    <1>1. CodecTypes /\ TextIsMine /\ WhileDecoding BY DEF CodecInv
    <1>2. /\ pc = "decoding" /\ next > Len(text) /\ pc' = "decoded"
          /\ dec' = [dec EXCEPT !.out = DecodeFinish(dec)]
          /\ data' = data /\ text' = text /\ encoded' = encoded /\ next' = next
        BY DEF DecodeReturn
    <1>3. /\ data \in Seq(Byte) /\ Len(text) \in Nat /\ Len(data) \in Nat
          /\ j \in Nat /\ j = Len(text)
        BY <1>1, <1>2 DEF CodecTypes, WhileDecoding
    <1>4. DecoderAt(n, dec, j) /\ (encoded = TRUE => Decoding(data, dec, j))
        BY <1>1, <1>2 DEF WhileDecoding
    <1>5. k \in Nat /\ r \in 0..3 /\ j = 4 * k + r BY <1>3, Quarters
    <1>6. /\ DOMAIN dec = {"out", "out_idx", "carry", "bits_to_read", "final_shift", "valid"}
          /\ DOMAIN dec.out = 0..n /\ dec.valid = TRUE /\ dec.final_shift = 2 * r
          /\ dec.out_idx = 3 * k + (IF r = 0 THEN 0 ELSE r - 1)
        BY <1>4 DEF DecoderAt, DecoderIn
    <1> HIDE DEF k, r, j
    <1>7. n \in Nat /\ dec.out_idx = n BY <1>3, <1>5, <1>6, IndexFits
    <1>8. /\ dec'.out_idx = dec.out_idx /\ dec'.valid = dec.valid
          /\ dec'.out = [dec.out EXCEPT ![n] = FinalShift(@, 2 * r)]
        BY <1>2, <1>6, <1>7 DEF DecodeFinish
    <1>9. CodecTypes' BY <1>1, <1>2 DEF CodecTypes
    <1>10. (WhileEncoding /\ WhileDecoding)' BY <1>2 DEF WhileEncoding, WhileDecoding
    <1>11. TextIsMine' BY <1>1, <1>2 DEF TextIsMine
    <1>12. StaysInString' BY <1>2, <1>7, <1>8 DEF StaysInString
    <1>13. Restored'
        <2> SUFFICES ASSUME encoded = TRUE, NEW i \in 0..n
                     PROVE  dec'.out[i] = Cell(data, i + 1)
            BY <1>2, <1>6, <1>8 DEF Restored
        <2>1. Len(data) = n BY <1>1 DEF TextIsMine, TextOf
        <2> HIDE DEF n
        <2>2. dec.out[i] = IF i < n THEN Cell(data, i + 1) ELSE Brought(Cell(data, i + 1), r)
            BY <1>4, <1>6, <1>7, <2>1 DEF Decoding, r
        <2>3. CASE i < n
            <3>1. dec'.out[i] = dec.out[i] BY <1>6, <1>7, <1>8, <2>3
            <3> QED BY <2>2, <2>3, <3>1
        <2>4. CASE i = n
            <3>1. Cell(data, i + 1) = 0 BY <1>7, <2>1, <2>4 DEF Cell
            <3>2. dec.out[i] = 0
                <4>1. dec.out[i] = Brought(0, r) BY <1>7, <2>2, <2>4, <3>1
                <4> QED BY <1>5, <4>1 DEF Brought
            <3>3. FinalShift(0, 2 * r) = 0 BY <1>5 DEF FinalShift, ShiftDivisor
            <3>4. dec'.out[i] = FinalShift(0, 2 * r) BY <1>6, <1>8, <2>4, <3>2
            <3> QED BY <3>1, <3>3, <3>4
        <2> QED BY <1>7, <2>3, <2>4
    <1> QED BY <1>9, <1>10, <1>11, <1>12, <1>13 DEF CodecInv

\* CodecInv is an invariant of the loops of encode_base64url and
\* decode_base64, for inputs of every length over every set of bytes.
THEOREM CodecInvariant == CodecSpec => []CodecInv
    <1>1. CodecInv /\ [CodecNext]_codecVars => CodecInv'
        <2> SUFFICES ASSUME CodecInv, [CodecNext]_codecVars PROVE CodecInv' OBVIOUS
        <2>1. CASE EncodeByte BY <2>1, EncodeByteKeeps
        <2>2. CASE DecodeEncoded
            <3> DEFINE t == EncodeFlush(Base64UrlChars, enc, Len(data))
            <3>1. pc = "encoding" /\ Call(t) /\ encoded' = TRUE /\ data' = data /\ next' = next
                BY <2>2 DEF DecodeEncoded
            <3>2. data \in Seq(Byte) /\ Encoding(data, enc)
                BY <3>1 DEF CodecInv, CodecTypes, WhileEncoding
            <3>3. TextOf(data, t) BY <3>2, FlushIs
            <3> HIDE DEF t
            <3>4. t \in Seq(Byte) BY <3>3 DEF TextOf
            <3> QED BY <3>1, <3>3, <3>4, CallKeeps
        <2>3. CASE DecodeGiven
            <3>1. pc = "encoding" /\ Call(data) /\ encoded' = encoded /\ data' = data /\ next' = next
                BY <2>3 DEF DecodeGiven
            <3>2. data \in Seq(Byte) /\ encoded = FALSE
                BY <3>1 DEF CodecInv, CodecTypes, WhileEncoding
            <3> QED BY <3>1, <3>2, CallKeeps
        <2>4. CASE DecodeChar BY <2>4, DecodeCharKeeps
        <2>5. CASE DecodeReturn BY <2>5, DecodeReturnKeeps
        <2>6. CASE UNCHANGED codecVars
            BY <2>6 DEF codecVars, CodecInv, CodecTypes, WhileEncoding, TextIsMine, WhileDecoding,
                        StaysInString, Restored
        <2> QED BY <2>1, <2>2, <2>3, <2>4, <2>5, <2>6 DEF CodecNext
    <1> QED BY CodecStarts, <1>1, PTL DEF CodecSpec

\* decode_base64 undoes encode_base64url: an id of any length that as_json
\* writes is the one that from_json_string reads.
THEOREM IdsSurviveTheCodec == CodecSpec => []IdCodecRoundTrip
    <1>1. CodecInv => IdCodecRoundTrip
        <2> SUFFICES ASSUME CodecInv, encoded = TRUE, pc = "decoded" PROVE Returned = Some(data)
            BY DEF IdCodecRoundTrip, CodecInv, CodecTypes
        <2> DEFINE n == decode_char_count(Len(text))
        <2>1. data \in Seq(Byte) /\ n = Len(data) /\ Len(data) \in Nat
            BY DEF CodecInv, CodecTypes, TextIsMine, TextOf
        <2>2. dec.valid = TRUE /\ \A i \in 0..n : dec.out[i] = Cell(data, i + 1)
            BY DEF CodecInv, Restored
        <2>3. Returned = Some(Contents(dec.out, n)) BY <2>2 DEF Returned
        <2> HIDE DEF n
        <2>4. \A i \in 1..n : dec.out[i - 1] = data[i]
            <3> SUFFICES ASSUME NEW i \in 1..n PROVE dec.out[i - 1] = data[i] OBVIOUS
            <3>1. i - 1 \in 0..n /\ (i - 1) + 1 = i /\ i \in 1..Len(data) BY <2>1
            <3>2. dec.out[i - 1] = Cell(data, i) BY <2>2, <3>1
            <3> QED BY <3>1, <3>2 DEF Cell
        <2>5. Contents(dec.out, n) = [i \in 1..n |-> data[i]] BY <2>4 DEF Contents
        <2>6. [i \in 1..n |-> data[i]] = data BY <2>1
        <2> QED BY <2>3, <2>5, <2>6
    <1> QED BY <1>1, CodecInvariant, PTL

\* decode_base64 never addresses a cell behind the terminator of its string,
\* whatever it reads, and leaves that zero when it reads an id.
THEOREM DecoderStaysInString == CodecSpec => []TerminatorPreserved
    <1>1. CodecInv => TerminatorPreserved
        <2> SUFFICES ASSUME CodecInv PROVE TerminatorPreserved OBVIOUS
        <2> DEFINE n == decode_char_count(Len(text))
        <2>1. dec.out_idx \in 0..n /\ encoded \in BOOLEAN
            BY DEF CodecInv, StaysInString, CodecTypes
        <2>2. encoded = TRUE /\ pc = "decoded" => dec.out[n] = 0
            <3> SUFFICES ASSUME encoded = TRUE, pc = "decoded" PROVE dec.out[n] = 0 OBVIOUS
            <3>1. n = Len(data) /\ n \in Nat BY DEF CodecInv, CodecTypes, TextIsMine, TextOf
            <3>2. \A i \in 0..n : dec.out[i] = Cell(data, i + 1) BY DEF CodecInv, Restored
            <3> HIDE DEF n
            <3>3. Cell(data, n + 1) = 0 BY <3>1 DEF Cell
            <3> QED BY <3>1, <3>2, <3>3
        <2> QED BY <2>1, <2>2 DEF TerminatorPreserved
    <1> QED BY <1>1, CodecInvariant, PTL

-----------------------------------------------------------------------------
(* The operators of Base64, for the calls that Snowflake makes: the loops  *)
(* are recursive functions, which are shown to be defined and followed by  *)
(* induction on their iterations.                                          *)

\* Induction up to N, stated with a set of numbers.
LEMMA UpTo ==
    ASSUME NEW N \in Nat, NEW T, 0 \in T,
           \A n \in 0..N : n < N /\ n \in T => n + 1 \in T
    PROVE  \A n \in 0..N : n \in T
    <1> SUFFICES ASSUME NEW z \in 0..N, z \notin T PROVE FALSE OBVIOUS
    <1> DEFINE R == OpToRel(<, Nat)
               U == {n \in 0..N : n \notin T}
    <1>1. \A x, y \in Nat : <<x, y>> \in R <=> x < y BY DEF OpToRel
    <1>2. IsWellFoundedOn(R, Nat) BY NatLessThanWellFounded
    <1>3. U \subseteq Nat /\ U # {} OBVIOUS
    <1> HIDE DEF R, U
    <1>4. PICK x \in U : \A y \in U : ~ (<<y, x>> \in R) BY <1>2, <1>3, WFMin
    <1>5. x \in 0..N /\ x \notin T BY DEF U
    <1>6. x - 1 \in 0..N /\ x - 1 < N /\ (x - 1) + 1 = x BY <1>5
    <1>7. x - 1 \notin T BY <1>5, <1>6
    <1>8. x - 1 \in U BY <1>6, <1>7 DEF U
    <1>9. <<x - 1, x>> \in R BY <1>1, <1>5, <1>6
    <1> QED BY <1>4, <1>8, <1>9

\* The recursive function of the encoder's loop is defined.
LEMMA EncodeLoopIs ==
    ASSUME NEW d \in Seq(Byte), NEW u, NEW m
    PROVE  LET s == EncodeLoop(u, m, d) IN
           s = [n \in 0..Len(d) |-> IF n = 0 THEN EncodeStart
                                    ELSE EncodeStep(u, m, s[n - 1], d[n])]
    <1> DEFINE Def(f, N) == [n \in 0..N |-> IF n = 0 THEN EncodeStart
                                            ELSE EncodeStep(u, m, f[n - 1], d[n])]
               T == {N \in 0..Len(d) : \E f : f = Def(f, N)}
    <1>1. Len(d) \in Nat OBVIOUS
    <1>2. 0 \in T
        <2> DEFINE f == [n \in 0..0 |-> EncodeStart]
        <2>1. f = Def(f, 0) OBVIOUS
        <2>2. 0 \in 0..Len(d) BY <1>1
        <2> HIDE DEF f, Def
        <2>3. \E h : h = Def(h, 0) BY <2>1
        <2> QED BY <2>2, <2>3
    <1>3. ASSUME NEW N \in 0..Len(d), N < Len(d), N \in T PROVE N + 1 \in T
        <2>1. PICK f : f = Def(f, N) BY <1>3
        <2> DEFINE g == [n \in 0..N + 1 |-> IF n = N + 1 THEN EncodeStep(u, m, f[N], d[N + 1])
                                            ELSE f[n]]
        <2>2. ASSUME NEW n \in 0..N + 1
              PROVE  g[n] = IF n = 0 THEN EncodeStart ELSE EncodeStep(u, m, g[n - 1], d[n])
            <3>1. CASE n = N + 1
                <4>1. n - 1 \in 0..N + 1 /\ n - 1 # N + 1 /\ n - 1 = N /\ n # 0 BY <3>1
                <4>2. g[n - 1] = f[N] BY <4>1
                <4> QED BY <3>1, <4>1, <4>2
            <3>2. CASE n # N + 1
                <4>1. n \in 0..N /\ g[n] = f[n] BY <3>2
                <4>2. n # 0 => n - 1 \in 0..N + 1 /\ n - 1 # N + 1 BY <4>1
                <4>3. n # 0 => g[n - 1] = f[n - 1] BY <4>2
                <4>4. f[n] = Def(f, N)[n] BY <2>1
                <4>5. Def(f, N)[n] = IF n = 0 THEN EncodeStart ELSE EncodeStep(u, m, f[n - 1], d[n])
                    BY <4>1
                <4> QED BY <4>1, <4>3, <4>4, <4>5
            <3> QED BY <3>1, <3>2
        <2>3. DOMAIN g = 0..N + 1 OBVIOUS
        <2> HIDE DEF g
        <2>4. g = [n \in 0..N + 1 |-> g[n]] BY <2>3 DEF g
        <2>5. [n \in 0..N + 1 |-> g[n]] = Def(g, N + 1) BY <2>2
        <2>6. N + 1 \in 0..Len(d) BY <1>1, <1>3
        <2> HIDE DEF Def
        <2>7. \E h : h = Def(h, N + 1) BY <2>4, <2>5
        <2> QED BY <2>6, <2>7
    <1> HIDE DEF T
    <1>4. \A N \in 0..Len(d) : N \in T BY <1>1, <1>2, <1>3, UpTo
    <1>5. Len(d) \in T BY <1>1, <1>4
    <1>6. \E f : f = Def(f, Len(d)) BY <1>5 DEF T
    <1>7. EncodeLoop(u, m, d) = CHOOSE f : f = Def(f, Len(d)) BY DEF EncodeLoop
    <1> HIDE DEF Def
    <1>8. EncodeLoop(u, m, d) = Def(EncodeLoop(u, m, d), Len(d)) BY <1>6, <1>7
    <1> QED BY <1>8 DEF Def
\* The recursive function of the decoder's loop is defined.
LEMMA DecodeLoopIs ==
    ASSUME NEW t \in Seq(Byte), NEW table
    PROVE  LET s == DecodeLoop(table, t) IN
           s = [n \in 0..Len(t) |-> IF n = 0 THEN DecodeStart(Len(t))
                                    ELSE DecodeStep(table, s[n - 1], t[n])]
    <1> DEFINE Def(f, N) == [n \in 0..N |-> IF n = 0 THEN DecodeStart(Len(t))
                                            ELSE DecodeStep(table, f[n - 1], t[n])]
               T == {N \in 0..Len(t) : \E f : f = Def(f, N)}
    <1>1. Len(t) \in Nat OBVIOUS
    <1>2. 0 \in T
        <2> DEFINE f == [n \in 0..0 |-> DecodeStart(Len(t))]
        <2>1. f = Def(f, 0) OBVIOUS
        <2>2. 0 \in 0..Len(t) BY <1>1
        <2> HIDE DEF f, Def
        <2>3. \E h : h = Def(h, 0) BY <2>1
        <2> QED BY <2>2, <2>3
    <1>3. ASSUME NEW N \in 0..Len(t), N < Len(t), N \in T PROVE N + 1 \in T
        <2>1. PICK f : f = Def(f, N) BY <1>3
        <2> DEFINE g == [n \in 0..N + 1 |-> IF n = N + 1 THEN DecodeStep(table, f[N], t[N + 1])
                                            ELSE f[n]]
        <2>2. ASSUME NEW n \in 0..N + 1
              PROVE  g[n] = IF n = 0 THEN DecodeStart(Len(t)) ELSE DecodeStep(table, g[n - 1], t[n])
            <3>1. CASE n = N + 1
                <4>1. n - 1 \in 0..N + 1 /\ n - 1 # N + 1 /\ n - 1 = N /\ n # 0 BY <3>1
                <4>2. g[n - 1] = f[N] BY <4>1
                <4> QED BY <3>1, <4>1, <4>2
            <3>2. CASE n # N + 1
                <4>1. n \in 0..N /\ g[n] = f[n] BY <3>2
                <4>2. n # 0 => n - 1 \in 0..N + 1 /\ n - 1 # N + 1 BY <4>1
                <4>3. n # 0 => g[n - 1] = f[n - 1] BY <4>2
                <4>4. f[n] = Def(f, N)[n] BY <2>1
                <4>5. Def(f, N)[n] = IF n = 0 THEN DecodeStart(Len(t)) ELSE DecodeStep(table, f[n - 1], t[n])
                    BY <4>1
                <4> QED BY <4>1, <4>3, <4>4, <4>5
            <3> QED BY <3>1, <3>2
        <2>3. DOMAIN g = 0..N + 1 OBVIOUS
        <2> HIDE DEF g
        <2>4. g = [n \in 0..N + 1 |-> g[n]] BY <2>3 DEF g
        <2>5. [n \in 0..N + 1 |-> g[n]] = Def(g, N + 1) BY <2>2
        <2>6. N + 1 \in 0..Len(t) BY <1>1, <1>3
        <2> HIDE DEF Def
        <2>7. \E h : h = Def(h, N + 1) BY <2>4, <2>5
        <2> QED BY <2>6, <2>7
    <1> HIDE DEF T
    <1>4. \A N \in 0..Len(t) : N \in T BY <1>1, <1>2, <1>3, UpTo
    <1>5. Len(t) \in T BY <1>1, <1>4
    <1>6. \E f : f = Def(f, Len(t)) BY <1>5 DEF T
    <1>7. DecodeLoop(table, t) = CHOOSE f : f = Def(f, Len(t)) BY DEF DecodeLoop
    <1> HIDE DEF Def
    <1>8. DecodeLoop(table, t) = Def(DecodeLoop(table, t), Len(t)) BY <1>6, <1>7
    <1> QED BY <1>8 DEF Def

\* encode_base64url returns the text of its input.
LEMMA Encodes ==
    ASSUME NEW d \in Seq(Byte)
    PROVE  TextOf(d, encode_base64url(d).value)
    <1> DEFINE s == EncodeLoop(Base64UrlChars, Base64UrlChars, d)
               P(n) == SubSeq(d, 1, n)
               T == {n \in 0..Len(d) : Encoding(P(n), s[n])}
    <1>1. Len(d) \in Nat OBVIOUS
    <1>2. s = [n \in 0..Len(d) |-> IF n = 0 THEN EncodeStart
                                   ELSE EncodeStep(Base64UrlChars, Base64UrlChars, s[n - 1], d[n])]
        BY EncodeLoopIs
    <1> HIDE DEF s
    <1>3. 0 \in T
        <2>1. P(0) = <<>> /\ 0 \in 0..Len(d) BY <1>1
        <2>2. s[0] = EncodeStart BY <1>2, <2>1
        <2> QED BY <2>1, <2>2, EncodingStarts
    <1>4. ASSUME NEW n \in 0..Len(d), n < Len(d), n \in T PROVE n + 1 \in T
        <2>1. n + 1 \in 1..Len(d) /\ n + 1 \in 0..Len(d) /\ n + 1 # 0 /\ (n + 1) - 1 = n BY <1>1, <1>4
        <2>2. s[n + 1] = EncodeStep(Base64UrlChars, Base64UrlChars, s[n], d[n + 1]) BY <1>2, <2>1
        <2>3. d[n + 1] \in Byte BY <2>1, ElementOfSeq
        <2>4. P(n) \in Seq(Byte) /\ Encoding(P(n), s[n]) BY <1>4
        <2>5. P(n + 1) = Append(P(n), d[n + 1]) BY <1>1, <2>1
        <2> QED BY <2>1, <2>2, <2>3, <2>4, <2>5, EncodeStepKeeps
    <1> HIDE DEF T
    <1>5. \A n \in 0..Len(d) : n \in T BY <1>1, <1>3, <1>4, UpTo
    <1>6. Encoding(P(Len(d)), s[Len(d)]) BY <1>1, <1>5 DEF T
    <1>7. P(Len(d)) = d BY <1>1
    <1>8. TextOf(d, EncodeFlush(Base64UrlChars, s[Len(d)], Len(d))) BY <1>6, <1>7, FlushIs
    <1> QED BY <1>8 DEF encode_base64url, Encode, Some, s

\* The characters of the text of d have values.
LEMMA CharOfText ==
    ASSUME NEW d \in Seq(Byte), NEW t \in Seq(Byte), Spells(d, t), NEW j \in Nat, j < Len(t)
    PROVE  Base64Values[t[j + 1]] = Some(SextetAt(d, j \div 4, j % 4))
    <1> DEFINE k == j \div 4
               r == j % 4
    <1>1. k \in Nat /\ r \in 0..3 /\ j = 4 * k + r BY Quarters
    <1> HIDE DEF k, r
    <1>2. Len(t) \in Nat OBVIOUS
    <1>3. k \in 0..Len(t) /\ 4 * k + r < Len(t) /\ 4 * k + r + 1 = j + 1 BY <1>1, <1>2
    <1>4. t[j + 1] = Base64UrlChars[SextetAt(d, k, r)] BY <1>1, <1>3 DEF Spells
    <1> QED BY <1>1, <1>4, SextetType, Alphabet DEF k, r

\* The last shift: the loop has come to the end of the string.
LEMMA FinishIs ==
    ASSUME NEW size \in Nat, NEW s, DecoderAt(decode_char_count(size), s, size),
           NEW d \in Seq(Byte), Decoding(d, s, size)
    PROVE  /\ s.valid = TRUE
           /\ \A i \in 1..decode_char_count(size) : DecodeFinish(s)[i - 1] = Cell(d, i)
    <1> DEFINE n == decode_char_count(size)
    <1>0. n \in Nat BY DEF decode_char_count
    <1> DEFINE k == size \div 4
               r == size % 4
               g == DecodeFinish(s)
    <1>1. k \in Nat /\ r \in 0..3 /\ size = 4 * k + r BY Quarters
    <1>2. /\ DOMAIN s.out = 0..n /\ s.valid = TRUE /\ s.final_shift = 2 * r
          /\ s.out_idx = 3 * k + (IF r = 0 THEN 0 ELSE r - 1)
        BY DEF DecoderAt, DecoderIn
    <1>3. \A i \in 0..n : i < s.out_idx => s.out[i] = Cell(d, i + 1) BY <1>2 DEF Decoding
    <1>4. s.out_idx = n BY <1>1, <1>2, IndexFits
    <1> HIDE DEF k, r, n
    <1>5. g = [s.out EXCEPT ![n] = FinalShift(@, 2 * r)] BY <1>2, <1>4 DEF DecodeFinish
    <1>6. ASSUME NEW i \in 1..n PROVE g[i - 1] = Cell(d, i)
        <2>1. i - 1 \in 0..n /\ i - 1 < n /\ i - 1 # n /\ (i - 1) + 1 = i BY <1>0
        <2>2. g[i - 1] = s.out[i - 1] BY <1>2, <1>5, <2>1
        <2> QED BY <1>3, <1>4, <2>1, <2>2
    <1> QED BY <1>2, <1>6 DEF n

\* The decoder's loop reads a text that spells d.
LEMMA DecodesSpelled ==
    ASSUME NEW d \in Seq(Byte), NEW t \in Seq(Byte), Spells(d, t), decode_char_count(Len(t)) # 0
    PROVE  decode_base64(t) = Some([i \in 1..decode_char_count(Len(t)) |-> Cell(d, i)])
    <1> DEFINE s == DecodeLoop(Base64Values, t)
               n == decode_char_count(Len(t))
               T == {j \in 0..Len(t) : DecoderAt(n, s[j], j) /\ Decoding(d, s[j], j)}
    <1>1. Len(t) \in Nat /\ n \in Nat BY DEF decode_char_count
    <1>2. s = [j \in 0..Len(t) |-> IF j = 0 THEN DecodeStart(Len(t))
                                   ELSE DecodeStep(Base64Values, s[j - 1], t[j])]
        BY DecodeLoopIs
    <1> HIDE DEF s, n
    <1>3. 0 \in T
        <2>1. 0 \in 0..Len(t) /\ s[0] = DecodeStart(Len(t)) BY <1>1, <1>2
        <2>2. DecoderAt(n, s[0], 0) BY <1>1, <2>1, DecoderStarts DEF n
        <2>3. s[0].out_idx = 0 /\ DOMAIN s[0].out = 0..n /\ \A i \in 0..n : s[0].out[i] = 0
            BY <2>1 DEF DecodeStart, n
        <2>4. \A x : Brought(x, 0 % 4) = 0 BY DEF Brought
        <2>5. Decoding(d, s[0], 0) BY <1>1, <2>3, <2>4 DEF Decoding
        <2> QED BY <2>1, <2>2, <2>5
    <1>4. ASSUME NEW j \in 0..Len(t), j < Len(t), j \in T PROVE j + 1 \in T
        <2> DEFINE v == SextetAt(d, j \div 4, j % 4)
        <2>1. j \in Nat /\ j + 1 \in 0..Len(t) /\ j + 1 # 0 /\ (j + 1) - 1 = j BY <1>1, <1>4
        <2>2. s[j + 1] = DecodeStep(Base64Values, s[j], t[j + 1]) BY <1>2, <2>1
        <2>3. DecoderAt(n, s[j], j) /\ Decoding(d, s[j], j) BY <1>4
        <2>4. s[j].valid = TRUE BY <2>3 DEF DecoderAt, DecoderIn
        <2>5. Base64Values[t[j + 1]] = Some(v) BY <1>4, <2>1, CharOfText
        <2> HIDE DEF v
        <2>6. Some(v).outcome = "value" /\ Some(v).value = v BY DEF Some
        <2>7. s[j + 1] = DecodeSextet(s[j], v) BY <2>2, <2>4, <2>5, <2>6 DEF DecodeStep
        <2>8. DecoderAt(n, s[j + 1], j + 1) BY <1>1, <1>4, <2>1, <2>3, <2>7, DecodeSextetKeeps DEF n
        <2>9. Decoding(d, s[j + 1], j + 1)
            BY <1>1, <1>4, <2>1, <2>3, <2>7, DecodingKeeps DEF n, v
        <2> QED BY <2>1, <2>8, <2>9
    <1> HIDE DEF T
    <1>5. \A j \in 0..Len(t) : j \in T BY <1>1, <1>3, <1>4, UpTo
    <1> DEFINE z == s[Len(t)]
               g == DecodeFinish(z)
    <1>6. DecoderAt(n, z, Len(t)) /\ Decoding(d, z, Len(t)) BY <1>1, <1>5 DEF T
    <1>7. decode_base64(t) = DecodeResult(z, n) BY DEF decode_base64, Decode, n, s
    <1> HIDE DEF z
    <1>8. z.valid = TRUE /\ \A i \in 1..n : g[i - 1] = Cell(d, i) BY <1>1, <1>6, FinishIs DEF n
    <1> HIDE DEF g
    <1>9. Contents(g, n) = [i \in 1..n |-> Cell(d, i)] BY <1>8 DEF Contents
    <1> QED BY <1>7, <1>8, <1>9 DEF DecodeResult, g, n

\* decode_base64 undoes encode_base64url.
LEMMA CodecInverts ==
    ASSUME NEW d \in Seq(Byte)
    PROVE  /\ encode_base64url(d).value \in Seq(Byte)
           /\ decode_base64(encode_base64url(d).value) = Some(d)
    <1> DEFINE t == encode_base64url(d).value
               n == decode_char_count(Len(t))
    <1>1. TextOf(d, t) BY Encodes
    <1> HIDE DEF t
    <1>2. t \in Seq(Byte) /\ Spells(d, t) /\ n = Len(d) BY <1>1 DEF TextOf
    <1>3. decode_base64(t) = Some(d)
        <2>1. CASE n = 0
            <3>1. d = <<>> BY <1>2, <2>1, EmptySeq
            <3>2. decode_base64(t) = Some(<<>>) BY <2>1 DEF decode_base64, Decode
            <3> QED BY <3>1, <3>2
        <2>2. CASE n # 0
            <3>1. decode_base64(t) = Some([i \in 1..n |-> Cell(d, i)]) BY <1>2, <2>2, DecodesSpelled
            <3>2. \A i \in 1..Len(d) : Cell(d, i) = d[i] BY DEF Cell
            <3> HIDE DEF n
            <3>3. [i \in 1..n |-> Cell(d, i)] = [i \in 1..Len(d) |-> d[i]] BY <1>2, <3>2
            <3>4. [i \in 1..Len(d) |-> d[i]] = d OBVIOUS
            <3> QED BY <3>1, <3>3, <3>4
        <2> QED BY <2>1, <2>2
    <1> QED BY <1>2, <1>3 DEF t

-----------------------------------------------------------------------------
(* What decode_base64 returns for any text                                 *)

\* A character that has a value is the one that encode_base64url writes for it.
LEMMA AlphabetInverts ==
    ASSUME NEW c \in Byte, from_base64(c).outcome = "value"
    PROVE  /\ from_base64(c).value \in Sextet
           /\ Base64UrlChars[from_base64(c).value] = c
    <1> DEFINE v == from_base64url(c).value
    <1>1. from_base64(c) = from_base64url(c) BY DEF from_base64
    <1>2. \A x : Some(x).value = x BY DEF Some
    <1>3. NullOpt.outcome # "value" BY DEF NullOpt
    <1>4. c \in 0..255 BY DEF Byte
    <1>5. SUFFICES v \in 0..63 /\ to_base64url_char(v) = c BY <1>1 DEF Sextet, Base64UrlChars
    <1>6. CASE c \in 65..90
        <2>1. v = c - 65 BY <1>2, <1>6 DEF from_base64url
        <2> HIDE DEF v
        <2>2. v \in 0..25 /\ v \in 0..63 /\ v < 62 /\ 65 + v = c BY <1>6, <2>1
        <2> QED BY <2>2 DEF to_base64url_char, AlphaNumChar
    <1>7. CASE c \in 97..122
        <2>1. v = c - 97 + 26 BY <1>2, <1>7 DEF from_base64url
        <2> HIDE DEF v
        <2>2. v \in 26..51 /\ v \in 0..63 /\ v \notin 0..25 /\ v < 62 /\ 97 + (v - 26) = c
            BY <1>7, <2>1
        <2> QED BY <2>2 DEF to_base64url_char, AlphaNumChar
    <1>8. CASE c \in 48..57
        <2>1. v = c - 48 + 52 BY <1>2, <1>8 DEF from_base64url
        <2> HIDE DEF v
        <2>2. /\ v \in 52..61 /\ v \in 0..63 /\ v \notin 0..25 /\ v \notin 26..51
              /\ v < 62 /\ 48 + (v - 52) = c
            BY <1>8, <2>1
        <2> QED BY <2>2 DEF to_base64url_char, AlphaNumChar
    <1>9. CASE c = 45
        <2>1. v = 62 BY <1>2, <1>9 DEF from_base64url
        <2> QED BY <1>9, <2>1 DEF to_base64url_char
    <1>10. CASE c = 95
        <2>1. v = 63 BY <1>2, <1>10 DEF from_base64url
        <2> QED BY <1>10, <2>1 DEF to_base64url_char
    <1>11. CASE c \notin 65..90 \cup 97..122 \cup 48..57 /\ c # 45 /\ c # 95
        <2>1. from_base64url(c) = NullOpt BY <1>11 DEF from_base64url
        <2> QED BY <1>1, <1>3, <2>1
    <1> QED BY <1>4, <1>6, <1>7, <1>8, <1>9, <1>10, <1>11

\* The value of character m of t, zero behind its end.
ValueAt(t, m) == IF m \in 1..Len(t) THEN from_base64(t[m]).value ELSE 0

\* The three bytes that four sextets make.
FirstByte(v1, v2) == v1 * 4 + (v2 \div 16)
SecondByte(v2, v3) == (v2 % 16) * 16 + (v3 \div 4)
ThirdByte(v3, v4) == (v3 % 4) * 64 + v4

\* The byte q of group k that the values of t make.
Joined(t, k, q) ==
    IF q = 0 THEN FirstByte(ValueAt(t, 4 * k + 1), ValueAt(t, 4 * k + 2))
    ELSE IF q = 1 THEN SecondByte(ValueAt(t, 4 * k + 2), ValueAt(t, 4 * k + 3))
    ELSE ThirdByte(ValueAt(t, 4 * k + 3), ValueAt(t, 4 * k + 4))

\* The bytes of t, the one begun by its last character included.
BytesOf(t) ==
    [i \in 1..decode_char_count(Len(t)) + 1 |-> Joined(t, (i - 1) \div 3, (i - 1) % 3)]

LEMMA ValueType ==
    ASSUME NEW t \in Seq(Byte), IsText(t), NEW m
    PROVE  ValueAt(t, m) \in 0..63
    <1>1. CASE m \in 1..Len(t)
        <2>1. t[m] \in Byte BY <1>1, ElementOfSeq
        <2>2. from_base64(t[m]).outcome = "value" BY <1>1 DEF IsText
        <2> QED BY <1>1, <2>1, <2>2, AlphabetInverts DEF ValueAt, Sextet
    <1>2. CASE m \notin 1..Len(t) BY <1>2 DEF ValueAt
    <1> QED BY <1>1, <1>2

\* They are bytes, and the pieces of the sextets can be cut from them again.
LEMMA FirstByteIs ==
    ASSUME NEW v \in 0..63, NEW w \in 0..63
    PROVE  /\ FirstByte(v, w) \in Byte
           /\ FirstByte(v, w) \div 4 = v /\ FirstByte(v, w) % 4 = w \div 16
    <1> DEFINE a == w \div 16
    <1>1. a \in 0..3 OBVIOUS
    <1> HIDE DEF a
    <1>2. v * 4 + a \in 0..255 /\ (v * 4 + a) \div 4 = v /\ (v * 4 + a) % 4 = a BY <1>1
    <1> QED BY <1>2 DEF FirstByte, Byte, a

LEMMA SecondByteIs ==
    ASSUME NEW v \in 0..63, NEW w \in 0..63
    PROVE  /\ SecondByte(v, w) \in Byte
           /\ SecondByte(v, w) \div 16 = v % 16 /\ SecondByte(v, w) % 16 = w \div 4
    <1> DEFINE a == v % 16
               b == w \div 4
    <1>1. a \in 0..15 /\ b \in 0..15 OBVIOUS
    <1> HIDE DEF a, b
    <1>2. a * 16 + b \in 0..255 /\ (a * 16 + b) \div 16 = a /\ (a * 16 + b) % 16 = b BY <1>1
    <1> QED BY <1>2 DEF SecondByte, Byte, a, b

LEMMA ThirdByteIs ==
    ASSUME NEW v \in 0..63, NEW w \in 0..63
    PROVE  /\ ThirdByte(v, w) \in Byte
           /\ ThirdByte(v, w) \div 64 = v % 4 /\ ThirdByte(v, w) % 64 = w
    <1> DEFINE a == v % 4
    <1>1. a \in 0..3 OBVIOUS
    <1> HIDE DEF a
    <1>2. a * 64 + w \in 0..255 /\ (a * 64 + w) \div 64 = a /\ (a * 64 + w) % 64 = w BY <1>1
    <1> QED BY <1>2 DEF ThirdByte, Byte, a

\* Every text of the alphabet is the text of its bytes.
LEMMA TextSpellsItsBytes ==
    ASSUME NEW t \in Seq(Byte), IsText(t)
    PROVE  BytesOf(t) \in Seq(Byte) /\ Spells(BytesOf(t), t)
    <1> DEFINE n == decode_char_count(Len(t))
               D == BytesOf(t)
    <1>1. Len(t) \in Nat /\ n \in Nat BY DEF decode_char_count
    <1>2. \A k \in Nat, q \in 0..2 : Joined(t, k, q) \in Byte
        <2> SUFFICES ASSUME NEW k \in Nat, NEW q \in 0..2 PROVE Joined(t, k, q) \in Byte OBVIOUS
        <2> DEFINE v1 == ValueAt(t, 4 * k + 1)
                   v2 == ValueAt(t, 4 * k + 2)
                   v3 == ValueAt(t, 4 * k + 3)
                   v4 == ValueAt(t, 4 * k + 4)
        <2>1. v1 \in 0..63 /\ v2 \in 0..63 /\ v3 \in 0..63 /\ v4 \in 0..63 BY ValueType
        <2>2. Joined(t, k, q) = IF q = 0 THEN FirstByte(v1, v2)
                                ELSE IF q = 1 THEN SecondByte(v2, v3) ELSE ThirdByte(v3, v4)
            BY DEF Joined
        <2> HIDE DEF v1, v2, v3, v4
        <2>3. /\ FirstByte(v1, v2) \in Byte /\ SecondByte(v2, v3) \in Byte
              /\ ThirdByte(v3, v4) \in Byte
            BY <2>1, FirstByteIs, SecondByteIs, ThirdByteIs
        <2> QED BY <2>2, <2>3
    <1>3. D \in Seq(Byte) /\ Len(D) = n + 1
        <2>1. \A i \in 1..n + 1 : (i - 1) \div 3 \in Nat /\ (i - 1) % 3 \in 0..2 BY <1>1
        <2>2. D = [i \in 1..n + 1 |-> Joined(t, (i - 1) \div 3, (i - 1) % 3)] BY DEF BytesOf
        <2> HIDE DEF n, D
        <2>3. \A i \in 1..n + 1 : Joined(t, (i - 1) \div 3, (i - 1) % 3) \in Byte BY <1>2, <2>1
        <2> QED BY <1>1, <2>2, <2>3
    <1>4. \A k \in Nat, q \in 0..2 : 3 * k + q <= n => Cell(D, 3 * k + q + 1) = Joined(t, k, q)
        <2> SUFFICES ASSUME NEW k \in Nat, NEW q \in 0..2, 3 * k + q <= n
                     PROVE  Cell(D, 3 * k + q + 1) = Joined(t, k, q)
            OBVIOUS
        <2> DEFINE i == 3 * k + q + 1
        <2>1. i \in 1..n + 1 BY <1>1
        <2>2. i - 1 = 3 * k + q OBVIOUS
        <2>3. (i - 1) \div 3 = k /\ (i - 1) % 3 = q BY <2>2
        <2>4. Cell(D, i) = D[i] BY <1>3, <2>1 DEF Cell
        <2>5. D[i] = Joined(t, (i - 1) \div 3, (i - 1) % 3) BY <2>1 DEF BytesOf
        <2> HIDE DEF i
        <2>6. Cell(D, i) = Joined(t, k, q) BY <2>3, <2>4, <2>5
        <2> QED BY <2>6 DEF i
    <1> HIDE DEF D, n
    <1>5. ASSUME NEW k \in 0..Len(t), NEW r \in 0..3, 4 * k + r < Len(t)
          PROVE  t[4 * k + r + 1] = Base64UrlChars[SextetAt(D, k, r)]
        <2> DEFINE v1 == ValueAt(t, 4 * k + 1)
                   v2 == ValueAt(t, 4 * k + 2)
                   v3 == ValueAt(t, 4 * k + 3)
                   v4 == ValueAt(t, 4 * k + 4)
                   m == 4 * k + r + 1
        <2>1. v1 \in 0..63 /\ v2 \in 0..63 /\ v3 \in 0..63 /\ v4 \in 0..63 BY ValueType
        <2>2. k \in Nat /\ m \in 1..Len(t) BY <1>1, <1>5
        <2>3. /\ Joined(t, k, 0) = FirstByte(v1, v2) /\ Joined(t, k, 1) = SecondByte(v2, v3)
              /\ Joined(t, k, 2) = ThirdByte(v3, v4)
            BY DEF Joined
        <2>4. t[m] = Base64UrlChars[ValueAt(t, m)]
            <3>1. t[m] \in Byte BY <2>2, ElementOfSeq
            <3>2. from_base64(t[m]).outcome = "value" BY <2>2 DEF IsText
            <3> QED BY <2>2, <3>1, <3>2, AlphabetInverts DEF ValueAt
        <2>5. ValueAt(t, m) = IF r = 0 THEN v1 ELSE IF r = 1 THEN v2 ELSE IF r = 2 THEN v3 ELSE v4
            <3>1. CASE r = 0 BY <2>2, <3>1
            <3>2. CASE r = 1 BY <2>2, <3>2
            <3>3. CASE r = 2 BY <2>2, <3>3
            <3>4. CASE r = 3 BY <2>2, <3>4
            <3> QED BY <3>1, <3>2, <3>3, <3>4
        <2>6. (r < 3 => 3 * k + r <= n) /\ (r = 3 => 3 * k + 2 <= n)
            <3>1. CASE r = 0
                <4>1. 4 * k + 1 <= Len(t) BY <1>1, <1>5, <2>2, <3>1
                <4> QED BY <1>1, <2>2, <3>1, <4>1, IndexFits DEF n
            <3>2. CASE r = 1
                <4>1. 4 * k + 2 <= Len(t) BY <1>1, <1>5, <2>2, <3>2
                <4> QED BY <1>1, <2>2, <3>2, <4>1, IndexFits DEF n
            <3>3. CASE r \in {2, 3}
                <4>1. 4 * k + 3 <= Len(t) BY <1>1, <1>5, <2>2, <3>3
                <4> QED BY <1>1, <2>2, <3>3, <4>1, IndexFits DEF n
            <3> QED BY <3>1, <3>2, <3>3
        <2> DEFINE x1 == FirstByte(v1, v2)
                   x2 == SecondByte(v2, v3)
                   x3 == ThirdByte(v3, v4)
        <2>7. /\ Cell(D, 3 * k + 1) = x1
              /\ r \in {1, 2, 3} => Cell(D, 3 * k + 2) = x2
              /\ r \in {2, 3} => Cell(D, 3 * k + 3) = x3
            <3>1. 3 * k + 0 <= n /\ 3 * k + 0 + 1 = 3 * k + 1 BY <1>1, <2>2, <2>6
            <3>2. Cell(D, 3 * k + 1) = x1 BY <1>4, <2>2, <2>3, <3>1
            <3>3. r \in {1, 2, 3} => 3 * k + 1 <= n BY <1>1, <2>2, <2>6
            <3>4. r \in {2, 3} => 3 * k + 2 <= n BY <1>1, <2>2, <2>6
            <3>5. 3 * k + 1 + 1 = 3 * k + 2 /\ 3 * k + 2 + 1 = 3 * k + 3 BY <2>2
            <3>6. r \in {1, 2, 3} => Cell(D, 3 * k + 2) = x2
                <4> SUFFICES ASSUME r \in {1, 2, 3} PROVE Cell(D, 3 * k + 2) = x2 OBVIOUS
                <4>1. Cell(D, 3 * k + 1 + 1) = Joined(t, k, 1) BY <1>4, <2>2, <3>3
                <4> QED BY <2>3, <3>5, <4>1
            <3>7. r \in {2, 3} => Cell(D, 3 * k + 3) = x3
                <4> SUFFICES ASSUME r \in {2, 3} PROVE Cell(D, 3 * k + 3) = x3 OBVIOUS
                <4>1. Cell(D, 3 * k + 2 + 1) = Joined(t, k, 2) BY <1>4, <2>2, <3>4
                <4> QED BY <2>3, <3>5, <4>1
            <3> QED BY <3>2, <3>6, <3>7
        <2>8. /\ x1 \div 4 = v1 /\ (x1 % 4) * 16 + (x2 \div 16) = v2
              /\ (x2 % 16) * 4 + (x3 \div 64) = v3 /\ x3 % 64 = v4
            <3> HIDE DEF v1, v2, v3, v4
            <3>1. x1 \div 4 = v1 /\ x1 % 4 = v2 \div 16 BY <2>1, FirstByteIs
            <3>2. x2 \div 16 = v2 % 16 /\ x2 % 16 = v3 \div 4 BY <2>1, SecondByteIs
            <3>3. x3 \div 64 = v3 % 4 /\ x3 % 64 = v4 BY <2>1, ThirdByteIs
            <3>4. (v2 \div 16) * 16 + (v2 % 16) = v2 /\ (v3 \div 4) * 4 + (v3 % 4) = v3 BY <2>1
            <3> QED BY <3>1, <3>2, <3>3, <3>4
        <2> HIDE DEF x1, x2, x3, v1, v2, v3, v4
        <2>9. SextetAt(D, k, r) = ValueAt(t, m) BY <2>5, <2>7, <2>8 DEF SextetAt
        <2> HIDE DEF m
        <2> QED BY <2>4, <2>9 DEF m
    <1> QED BY <1>3, <1>5 DEF Spells, D

\* Bit j of a sextet, and what the bits sum up to.
BitOf(v, j) == (v \div BitWeight[j + 1]) % 2

LEMMA BitsOfSextet ==
    ASSUME NEW v \in 0..63
    PROVE  /\ \A j \in 0..5 : BitOf(v, j) \in 0..1
           /\ v \div 16 = 2 * BitOf(v, 0) + BitOf(v, 1)
           /\ v \div 4 = 8 * BitOf(v, 0) + 4 * BitOf(v, 1) + 2 * BitOf(v, 2) + BitOf(v, 3)
           /\ v % 16 = 8 * BitOf(v, 2) + 4 * BitOf(v, 3) + 2 * BitOf(v, 4) + BitOf(v, 5)
           /\ v % 4 = 2 * BitOf(v, 4) + BitOf(v, 5)
           /\ v = 32 * BitOf(v, 0) + 16 * BitOf(v, 1) + 8 * BitOf(v, 2) + 4 * BitOf(v, 3)
                    + 2 * BitOf(v, 4) + BitOf(v, 5)
    <1>1. /\ BitOf(v, 0) = (v \div 32) % 2 /\ BitOf(v, 1) = (v \div 16) % 2
          /\ BitOf(v, 2) = (v \div 8) % 2 /\ BitOf(v, 3) = (v \div 4) % 2
          /\ BitOf(v, 4) = (v \div 2) % 2 /\ BitOf(v, 5) = (v \div 1) % 2
        BY DEF BitOf, BitWeight
    <1>2. \A j \in 0..5 : j = 0 \/ j = 1 \/ j = 2 \/ j = 3 \/ j = 4 \/ j = 5 OBVIOUS
    <1> DEFINE h1 == v \div 2
               h2 == v \div 4
               h3 == v \div 8
               h4 == v \div 16
               h5 == v \div 32
    <1>3. h5 \in 0..1 /\ h5 % 2 = h5 /\ h4 = 2 * h5 + (h4 % 2) /\ h4 % 2 \in 0..1 OBVIOUS
    <1>4. h3 = 2 * h4 + (h3 % 2) /\ h3 % 2 \in 0..1 /\ h2 = 2 * h3 + (h2 % 2) /\ h2 % 2 \in 0..1
        OBVIOUS
    <1>5. h1 = 2 * h2 + (h1 % 2) /\ h1 % 2 \in 0..1 /\ v = 2 * h1 + (v % 2) /\ v % 2 \in 0..1
        OBVIOUS
    <1>6. v = 16 * h4 + (v % 16) /\ v % 16 \in 0..15 /\ v = 4 * h2 + (v % 4) /\ v % 4 \in 0..3
        OBVIOUS
    <1>7. h1 \in Nat /\ h2 \in Nat /\ h3 \in Nat /\ h4 \in Nat /\ v \div 1 = v OBVIOUS
    <1> DEFINE b0 == BitOf(v, 0)
               b1 == BitOf(v, 1)
               b2 == BitOf(v, 2)
               b3 == BitOf(v, 3)
               b4 == BitOf(v, 4)
               b5 == BitOf(v, 5)
    <1>8. /\ b0 = h5 /\ b1 = h4 % 2 /\ b2 = h3 % 2 /\ b3 = h2 % 2 /\ b4 = h1 % 2
          /\ b5 = v % 2
        BY <1>1, <1>3, <1>7
    <1> HIDE DEF h1, h2, h3, h4, h5, b0, b1, b2, b3, b4, b5
    <1>9. /\ b0 \in 0..1 /\ b1 \in 0..1 /\ b2 \in 0..1
          /\ b3 \in 0..1 /\ b4 \in 0..1 /\ b5 \in 0..1
        BY <1>3, <1>4, <1>5, <1>8
    <1>10. /\ h4 = 2 * b0 + b1 /\ h3 = 2 * h4 + b2 /\ h2 = 2 * h3 + b3
           /\ h1 = 2 * h2 + b4 /\ v = 2 * h1 + b5
        BY <1>3, <1>4, <1>5, <1>8
    <1>11. /\ h4 = 2 * b0 + b1 /\ h2 = 8 * b0 + 4 * b1 + 2 * b2 + b3
           /\ v % 16 = 8 * b2 + 4 * b3 + 2 * b4 + b5 /\ v % 4 = 2 * b4 + b5
           /\ v = 32 * b0 + 16 * b1 + 8 * b2 + 4 * b3 + 2 * b4 + b5
        BY <1>6, <1>7, <1>9, <1>10
    <1>12. \A j \in 0..5 : BitOf(v, j) \in 0..1 BY <1>2, <1>9 DEF b0, b1, b2, b3, b4, b5
    <1> QED BY <1>11, <1>12 DEF b0, b1, b2, b3, b4, b5, h2, h4

\* The byte of eight bits.
Octet(a, b, c, d, e, f, g, h) ==
    128 * a + 64 * b + 32 * c + 16 * d + 8 * e + 4 * f + 2 * g + h

\* The bytes that two sextets make, bit by bit.
LEMMA BytesOfBits ==
    ASSUME NEW v \in 0..63, NEW w \in 0..63
    PROVE  /\ FirstByte(v, w) = Octet(BitOf(v, 0), BitOf(v, 1), BitOf(v, 2), BitOf(v, 3),
                                      BitOf(v, 4), BitOf(v, 5), BitOf(w, 0), BitOf(w, 1))
           /\ SecondByte(v, w) = Octet(BitOf(v, 2), BitOf(v, 3), BitOf(v, 4), BitOf(v, 5),
                                       BitOf(w, 0), BitOf(w, 1), BitOf(w, 2), BitOf(w, 3))
           /\ ThirdByte(v, w) = Octet(BitOf(v, 4), BitOf(v, 5), BitOf(w, 0), BitOf(w, 1),
                                      BitOf(w, 2), BitOf(w, 3), BitOf(w, 4), BitOf(w, 5))
    <1>1. /\ \A j \in 0..5 : BitOf(v, j) \in 0..1
          /\ v % 16 = 8 * BitOf(v, 2) + 4 * BitOf(v, 3) + 2 * BitOf(v, 4) + BitOf(v, 5)
          /\ v % 4 = 2 * BitOf(v, 4) + BitOf(v, 5)
          /\ v = 32 * BitOf(v, 0) + 16 * BitOf(v, 1) + 8 * BitOf(v, 2) + 4 * BitOf(v, 3)
                   + 2 * BitOf(v, 4) + BitOf(v, 5)
        BY BitsOfSextet
    <1>2. /\ \A j \in 0..5 : BitOf(w, j) \in 0..1
          /\ w \div 16 = 2 * BitOf(w, 0) + BitOf(w, 1)
          /\ w \div 4 = 8 * BitOf(w, 0) + 4 * BitOf(w, 1) + 2 * BitOf(w, 2) + BitOf(w, 3)
          /\ w = 32 * BitOf(w, 0) + 16 * BitOf(w, 1) + 8 * BitOf(w, 2) + 4 * BitOf(w, 3)
                   + 2 * BitOf(w, 4) + BitOf(w, 5)
        BY BitsOfSextet
    <1> DEFINE a0 == BitOf(v, 0)
               a1 == BitOf(v, 1)
               a2 == BitOf(v, 2)
               a3 == BitOf(v, 3)
               a4 == BitOf(v, 4)
               a5 == BitOf(v, 5)
               b0 == BitOf(w, 0)
               b1 == BitOf(w, 1)
               b2 == BitOf(w, 2)
               b3 == BitOf(w, 3)
               b4 == BitOf(w, 4)
               b5 == BitOf(w, 5)
    <1>3. a0 \in 0..1 /\ a1 \in 0..1 /\ a2 \in 0..1 /\ a3 \in 0..1 /\ a4 \in 0..1 /\ a5 \in 0..1
        BY <1>1
    <1>4. b0 \in 0..1 /\ b1 \in 0..1 /\ b2 \in 0..1 /\ b3 \in 0..1 /\ b4 \in 0..1 /\ b5 \in 0..1
        BY <1>2
    <1>5. /\ v % 16 = 8 * a2 + 4 * a3 + 2 * a4 + a5 /\ v % 4 = 2 * a4 + a5
          /\ v = 32 * a0 + 16 * a1 + 8 * a2 + 4 * a3 + 2 * a4 + a5
        BY <1>1
    <1>6. /\ w \div 16 = 2 * b0 + b1 /\ w \div 4 = 8 * b0 + 4 * b1 + 2 * b2 + b3
          /\ w = 32 * b0 + 16 * b1 + 8 * b2 + 4 * b3 + 2 * b4 + b5
        BY <1>2
    <1> HIDE DEF a0, a1, a2, a3, a4, a5, b0, b1, b2, b3, b4, b5
    <1>7. FirstByte(v, w) = 128 * a0 + 64 * a1 + 32 * a2 + 16 * a3 + 8 * a4 + 4 * a5 + 2 * b0 + b1
        BY <1>3, <1>4, <1>5, <1>6 DEF FirstByte
    <1>8. SecondByte(v, w) = 128 * a2 + 64 * a3 + 32 * a4 + 16 * a5 + 8 * b0 + 4 * b1 + 2 * b2 + b3
        BY <1>3, <1>4, <1>5, <1>6 DEF SecondByte
    <1>9. ThirdByte(v, w) = 128 * a4 + 64 * a5 + 32 * b0 + 16 * b1 + 8 * b2 + 4 * b3 + 2 * b4 + b5
        BY <1>3, <1>4, <1>5, <1>6 DEF ThirdByte
    <1> QED BY <1>7, <1>8, <1>9 DEF Octet, a0, a1, a2, a3, a4, a5, b0, b1, b2, b3, b4, b5

\* The reference, sextet by sextet.
LEMMA EightBitsAre ==
    ASSUME NEW x, NEW k \in Nat
    PROVE  /\ EightBits(x, 3 * k + 1) =
                  Octet(BitOf(x[4 * k + 1], 0), BitOf(x[4 * k + 1], 1),
                        BitOf(x[4 * k + 1], 2), BitOf(x[4 * k + 1], 3),
                        BitOf(x[4 * k + 1], 4), BitOf(x[4 * k + 1], 5),
                        BitOf(x[4 * k + 2], 0), BitOf(x[4 * k + 2], 1))
           /\ EightBits(x, 3 * k + 2) =
                  Octet(BitOf(x[4 * k + 2], 2), BitOf(x[4 * k + 2], 3),
                        BitOf(x[4 * k + 2], 4), BitOf(x[4 * k + 2], 5),
                        BitOf(x[4 * k + 3], 0), BitOf(x[4 * k + 3], 1),
                        BitOf(x[4 * k + 3], 2), BitOf(x[4 * k + 3], 3))
           /\ EightBits(x, 3 * k + 3) =
                  Octet(BitOf(x[4 * k + 3], 4), BitOf(x[4 * k + 3], 5),
                        BitOf(x[4 * k + 4], 0), BitOf(x[4 * k + 4], 1),
                        BitOf(x[4 * k + 4], 2), BitOf(x[4 * k + 4], 3),
                        BitOf(x[4 * k + 4], 4), BitOf(x[4 * k + 4], 5))
    <1>1. EightBits(x, 3 * k + 1) =
                  Octet(BitOf(x[4 * k + 1], 0), BitOf(x[4 * k + 1], 1),
                        BitOf(x[4 * k + 1], 2), BitOf(x[4 * k + 1], 3),
                        BitOf(x[4 * k + 1], 4), BitOf(x[4 * k + 1], 5),
                        BitOf(x[4 * k + 2], 0), BitOf(x[4 * k + 2], 1))
        <2> DEFINE e == 8 * ((3 * k + 1) - 1)
        <2>1. /\ (e + 0) \div 6 + 1 = 4 * k + 1 /\ (e + 0) % 6 = 0
              /\ (e + 1) \div 6 + 1 = 4 * k + 1 /\ (e + 1) % 6 = 1
              /\ (e + 2) \div 6 + 1 = 4 * k + 1 /\ (e + 2) % 6 = 2
              /\ (e + 3) \div 6 + 1 = 4 * k + 1 /\ (e + 3) % 6 = 3
              /\ (e + 4) \div 6 + 1 = 4 * k + 1 /\ (e + 4) % 6 = 4
              /\ (e + 5) \div 6 + 1 = 4 * k + 1 /\ (e + 5) % 6 = 5
              /\ (e + 6) \div 6 + 1 = 4 * k + 2 /\ (e + 6) % 6 = 0
              /\ (e + 7) \div 6 + 1 = 4 * k + 2 /\ (e + 7) % 6 = 1
            OBVIOUS
        <2> HIDE DEF e
        <2>2. /\ Bit(x, e + 0) = BitOf(x[4 * k + 1], 0) /\ Bit(x, e + 1) = BitOf(x[4 * k + 1], 1)
              /\ Bit(x, e + 2) = BitOf(x[4 * k + 1], 2) /\ Bit(x, e + 3) = BitOf(x[4 * k + 1], 3)
              /\ Bit(x, e + 4) = BitOf(x[4 * k + 1], 4) /\ Bit(x, e + 5) = BitOf(x[4 * k + 1], 5)
              /\ Bit(x, e + 6) = BitOf(x[4 * k + 2], 0) /\ Bit(x, e + 7) = BitOf(x[4 * k + 2], 1)
            BY <2>1 DEF Bit, BitOf
        <2>3. EightBits(x, 3 * k + 1) =
                  128 * Bit(x, e + 0) + 64 * Bit(x, e + 1) + 32 * Bit(x, e + 2) + 16 * Bit(x, e + 3)
                  + 8 * Bit(x, e + 4) + 4 * Bit(x, e + 5) + 2 * Bit(x, e + 6) + Bit(x, e + 7)
            BY DEF EightBits, e
        <2> QED BY <2>2, <2>3 DEF Octet
    <1>2. EightBits(x, 3 * k + 2) =
                  Octet(BitOf(x[4 * k + 2], 2), BitOf(x[4 * k + 2], 3),
                        BitOf(x[4 * k + 2], 4), BitOf(x[4 * k + 2], 5),
                        BitOf(x[4 * k + 3], 0), BitOf(x[4 * k + 3], 1),
                        BitOf(x[4 * k + 3], 2), BitOf(x[4 * k + 3], 3))
        <2> DEFINE e == 8 * ((3 * k + 2) - 1)
        <2>1. /\ (e + 0) \div 6 + 1 = 4 * k + 2 /\ (e + 0) % 6 = 2
              /\ (e + 1) \div 6 + 1 = 4 * k + 2 /\ (e + 1) % 6 = 3
              /\ (e + 2) \div 6 + 1 = 4 * k + 2 /\ (e + 2) % 6 = 4
              /\ (e + 3) \div 6 + 1 = 4 * k + 2 /\ (e + 3) % 6 = 5
              /\ (e + 4) \div 6 + 1 = 4 * k + 3 /\ (e + 4) % 6 = 0
              /\ (e + 5) \div 6 + 1 = 4 * k + 3 /\ (e + 5) % 6 = 1
              /\ (e + 6) \div 6 + 1 = 4 * k + 3 /\ (e + 6) % 6 = 2
              /\ (e + 7) \div 6 + 1 = 4 * k + 3 /\ (e + 7) % 6 = 3
            OBVIOUS
        <2> HIDE DEF e
        <2>2. /\ Bit(x, e + 0) = BitOf(x[4 * k + 2], 2) /\ Bit(x, e + 1) = BitOf(x[4 * k + 2], 3)
              /\ Bit(x, e + 2) = BitOf(x[4 * k + 2], 4) /\ Bit(x, e + 3) = BitOf(x[4 * k + 2], 5)
              /\ Bit(x, e + 4) = BitOf(x[4 * k + 3], 0) /\ Bit(x, e + 5) = BitOf(x[4 * k + 3], 1)
              /\ Bit(x, e + 6) = BitOf(x[4 * k + 3], 2) /\ Bit(x, e + 7) = BitOf(x[4 * k + 3], 3)
            BY <2>1 DEF Bit, BitOf
        <2>3. EightBits(x, 3 * k + 2) =
                  128 * Bit(x, e + 0) + 64 * Bit(x, e + 1) + 32 * Bit(x, e + 2) + 16 * Bit(x, e + 3)
                  + 8 * Bit(x, e + 4) + 4 * Bit(x, e + 5) + 2 * Bit(x, e + 6) + Bit(x, e + 7)
            BY DEF EightBits, e
        <2> QED BY <2>2, <2>3 DEF Octet
    <1>3. EightBits(x, 3 * k + 3) =
                  Octet(BitOf(x[4 * k + 3], 4), BitOf(x[4 * k + 3], 5),
                        BitOf(x[4 * k + 4], 0), BitOf(x[4 * k + 4], 1),
                        BitOf(x[4 * k + 4], 2), BitOf(x[4 * k + 4], 3),
                        BitOf(x[4 * k + 4], 4), BitOf(x[4 * k + 4], 5))
        <2> DEFINE e == 8 * ((3 * k + 3) - 1)
        <2>1. /\ (e + 0) \div 6 + 1 = 4 * k + 3 /\ (e + 0) % 6 = 4
              /\ (e + 1) \div 6 + 1 = 4 * k + 3 /\ (e + 1) % 6 = 5
              /\ (e + 2) \div 6 + 1 = 4 * k + 4 /\ (e + 2) % 6 = 0
              /\ (e + 3) \div 6 + 1 = 4 * k + 4 /\ (e + 3) % 6 = 1
              /\ (e + 4) \div 6 + 1 = 4 * k + 4 /\ (e + 4) % 6 = 2
              /\ (e + 5) \div 6 + 1 = 4 * k + 4 /\ (e + 5) % 6 = 3
              /\ (e + 6) \div 6 + 1 = 4 * k + 4 /\ (e + 6) % 6 = 4
              /\ (e + 7) \div 6 + 1 = 4 * k + 4 /\ (e + 7) % 6 = 5
            OBVIOUS
        <2> HIDE DEF e
        <2>2. /\ Bit(x, e + 0) = BitOf(x[4 * k + 3], 4) /\ Bit(x, e + 1) = BitOf(x[4 * k + 3], 5)
              /\ Bit(x, e + 2) = BitOf(x[4 * k + 4], 0) /\ Bit(x, e + 3) = BitOf(x[4 * k + 4], 1)
              /\ Bit(x, e + 4) = BitOf(x[4 * k + 4], 2) /\ Bit(x, e + 5) = BitOf(x[4 * k + 4], 3)
              /\ Bit(x, e + 6) = BitOf(x[4 * k + 4], 4) /\ Bit(x, e + 7) = BitOf(x[4 * k + 4], 5)
            BY <2>1 DEF Bit, BitOf
        <2>3. EightBits(x, 3 * k + 3) =
                  128 * Bit(x, e + 0) + 64 * Bit(x, e + 1) + 32 * Bit(x, e + 2) + 16 * Bit(x, e + 3)
                  + 8 * Bit(x, e + 4) + 4 * Bit(x, e + 5) + 2 * Bit(x, e + 6) + Bit(x, e + 7)
            BY DEF EightBits, e
        <2> QED BY <2>2, <2>3 DEF Octet
    <1> QED BY <1>1, <1>2, <1>3

\* The reference cuts the same bytes.
LEMMA ReferenceIs ==
    ASSUME NEW t \in Seq(Byte), IsText(t)
    PROVE  RefDecode(t) = [i \in 1..decode_char_count(Len(t)) |-> Cell(BytesOf(t), i)]
    <1> DEFINE n == decode_char_count(Len(t))
               x == [m \in DOMAIN t |-> from_base64(t[m]).value]
    <1>1. /\ Len(t) \in Nat /\ DOMAIN t = 1..Len(t)
          /\ n = (6 * Len(t)) \div 8 /\ n \in Nat /\ 8 * n <= 6 * Len(t)
        BY DEF decode_char_count
    <1>2. RefDecode(t) = [i \in 1..n |-> EightBits(x, i)] BY <1>1 DEF RefDecode
    <1>3. \A m \in 1..Len(t) : x[m] = ValueAt(t, m) BY <1>1 DEF ValueAt
    <1>4. BytesOf(t) \in Seq(Byte) /\ Len(BytesOf(t)) = n + 1
        <2>1. BytesOf(t) \in Seq(Byte) BY TextSpellsItsBytes
        <2>2. DOMAIN BytesOf(t) = 1..n + 1 BY DEF BytesOf
        <2> HIDE DEF n
        <2> QED BY <1>1, <2>1, <2>2
    <1> HIDE DEF n, x
    <1>5. ASSUME NEW i \in 1..n PROVE EightBits(x, i) = Cell(BytesOf(t), i)
        <2> DEFINE k == (i - 1) \div 3
                   q == (i - 1) % 3
                   v1 == ValueAt(t, 4 * k + 1)
                   v2 == ValueAt(t, 4 * k + 2)
                   v3 == ValueAt(t, 4 * k + 3)
                   v4 == ValueAt(t, 4 * k + 4)
        <2>1. i - 1 \in Nat BY <1>1
        <2>2. k \in Nat /\ q \in 0..2 /\ i - 1 = 3 * k + q BY <2>1, Thirds
        <2>3. Cell(BytesOf(t), i) = Joined(t, k, q)
            <3>1. i \in 1..Len(BytesOf(t)) /\ i \in 1..n + 1 BY <1>1, <1>4
            <3> QED BY <3>1 DEF Cell, BytesOf, n
        <2>4. v1 \in 0..63 /\ v2 \in 0..63 /\ v3 \in 0..63 /\ v4 \in 0..63 BY ValueType
        <2>5. 8 * i <= 6 * Len(t) BY <1>1
        <2> HIDE DEF k, q
        <2>6. CASE q = 0
            <3>1. i = 3 * k + 1 /\ 4 * k + 1 \in 1..Len(t) /\ 4 * k + 2 \in 1..Len(t)
                BY <1>1, <2>2, <2>5, <2>6
            <3>2. x[4 * k + 1] = v1 /\ x[4 * k + 2] = v2 BY <1>3, <3>1
            <3>3. Joined(t, k, q) = FirstByte(v1, v2) BY <2>6 DEF Joined
            <3> HIDE DEF v1, v2, v3, v4
            <3>4. EightBits(x, i) = Octet(BitOf(v1, 0), BitOf(v1, 1), BitOf(v1, 2), BitOf(v1, 3),
                                          BitOf(v1, 4), BitOf(v1, 5), BitOf(v2, 0), BitOf(v2, 1))
                BY <2>2, <3>1, <3>2, EightBitsAre
            <3>5. EightBits(x, i) = FirstByte(v1, v2) BY <2>4, <3>4, BytesOfBits
            <3> QED BY <2>3, <3>3, <3>5
        <2>7. CASE q = 1
            <3>1. i = 3 * k + 2 /\ 4 * k + 2 \in 1..Len(t) /\ 4 * k + 3 \in 1..Len(t)
                BY <1>1, <2>2, <2>5, <2>7
            <3>2. x[4 * k + 2] = v2 /\ x[4 * k + 3] = v3 BY <1>3, <3>1
            <3>3. Joined(t, k, q) = SecondByte(v2, v3) BY <2>7 DEF Joined
            <3> HIDE DEF v1, v2, v3, v4
            <3>4. EightBits(x, i) = Octet(BitOf(v2, 2), BitOf(v2, 3), BitOf(v2, 4), BitOf(v2, 5),
                                          BitOf(v3, 0), BitOf(v3, 1), BitOf(v3, 2), BitOf(v3, 3))
                BY <2>2, <3>1, <3>2, EightBitsAre
            <3>5. EightBits(x, i) = SecondByte(v2, v3) BY <2>4, <3>4, BytesOfBits
            <3> QED BY <2>3, <3>3, <3>5
        <2>8. CASE q = 2
            <3>1. i = 3 * k + 3 /\ 4 * k + 3 \in 1..Len(t) /\ 4 * k + 4 \in 1..Len(t)
                BY <1>1, <2>2, <2>5, <2>8
            <3>2. x[4 * k + 3] = v3 /\ x[4 * k + 4] = v4 BY <1>3, <3>1
            <3>3. Joined(t, k, q) = ThirdByte(v3, v4) BY <2>8 DEF Joined
            <3> HIDE DEF v1, v2, v3, v4
            <3>4. EightBits(x, i) = Octet(BitOf(v3, 4), BitOf(v3, 5), BitOf(v4, 0), BitOf(v4, 1),
                                          BitOf(v4, 2), BitOf(v4, 3), BitOf(v4, 4), BitOf(v4, 5))
                BY <2>2, <3>1, <3>2, EightBitsAre
            <3>5. EightBits(x, i) = ThirdByte(v3, v4) BY <2>4, <3>4, BytesOfBits
            <3> QED BY <2>3, <3>3, <3>5
        <2> QED BY <2>2, <2>6, <2>7, <2>8
    <1>6. [i \in 1..n |-> EightBits(x, i)] = [i \in 1..n |-> Cell(BytesOf(t), i)] BY <1>5
    <1> QED BY <1>2, <1>6 DEF n

\* A character without a value makes decode_base64 return nullopt.
LEMMA Refuses ==
    ASSUME NEW t \in Seq(Byte), ~IsText(t), decode_char_count(Len(t)) # 0
    PROVE  decode_base64(t) = NullOpt
    <1> DEFINE s == DecodeLoop(Base64Values, t)
               n == decode_char_count(Len(t))
               IsValue(m) == from_base64(t[m]).outcome = "value"
               P(j) == /\ "valid" \in DOMAIN s[j]
                       /\ s[j].valid # FALSE =>
                             DecoderAt(n, s[j], j) /\ \A m \in 1..j : IsValue(m)
               T == {j \in 0..Len(t) : P(j)}
    <1>1. Len(t) \in Nat /\ n \in Nat BY DEF decode_char_count
    <1>2. s = [j \in 0..Len(t) |-> IF j = 0 THEN DecodeStart(Len(t))
                                   ELSE DecodeStep(Base64Values, s[j - 1], t[j])]
        BY DecodeLoopIs
    <1>3. \A m \in 1..Len(t) : t[m] \in Byte /\ Base64Values[t[m]] = from_base64(t[m])
        <2> SUFFICES ASSUME NEW m \in 1..Len(t)
                     PROVE  t[m] \in Byte /\ Base64Values[t[m]] = from_base64(t[m])
            OBVIOUS
        <2>1. t[m] \in Byte BY ElementOfSeq
        <2> QED BY <2>1 DEF Base64Values
    <1> HIDE DEF s, n
    <1>4. 0 \in T
        <2>1. 0 \in 0..Len(t) /\ s[0] = DecodeStart(Len(t)) BY <1>1, <1>2
        <2>2. DecoderAt(n, s[0], 0) BY <1>1, <2>1, DecoderStarts DEF n
        <2>3. "valid" \in DOMAIN s[0] BY <2>1 DEF DecodeStart
        <2>4. \A m \in 1..0 : IsValue(m) OBVIOUS
        <2>5. P(0) BY <2>2, <2>3, <2>4
        <2> HIDE DEF P
        <2> QED BY <2>1, <2>5
    <1>5. ASSUME NEW j \in 0..Len(t), j < Len(t), j \in T PROVE j + 1 \in T
        <2> DEFINE val == Base64Values[t[j + 1]]
                   v == val.value
                   z == s[j]
        <2>1. /\ j \in Nat /\ j + 1 \in 0..Len(t) /\ j + 1 \in 1..Len(t)
              /\ j + 1 # 0 /\ (j + 1) - 1 = j
            BY <1>1, <1>5
        <2>2. s[j + 1] = DecodeStep(Base64Values, z, t[j + 1]) BY <1>2, <2>1
        <2>3. P(j) BY <1>5
        <2> HIDE DEF z
        <2>4. CASE z.valid /\ val.outcome = "value"
            <3>1. s[j + 1] = DecodeSextet(z, v) BY <2>2, <2>4 DEF DecodeStep
            <3>2. DecoderAt(n, z, j) /\ \A m \in 1..j : IsValue(m) BY <2>3, <2>4 DEF z
            <3>3. IsValue(j + 1) BY <1>3, <2>1, <2>4
            <3> HIDE DEF v, IsValue
            <3>4. DecoderAt(n, s[j + 1], j + 1)
                BY <1>1, <1>5, <2>1, <3>1, <3>2, DecodeSextetKeeps DEF n
            <3>5. "valid" \in DOMAIN s[j + 1] BY <3>4 DEF DecoderAt, DecoderIn
            <3>6. \A m \in 1..j + 1 : m \in 1..j \/ m = j + 1 BY <2>1
            <3> QED BY <2>1, <3>2, <3>3, <3>4, <3>5, <3>6
        <2>5. CASE ~(z.valid /\ val.outcome = "value")
            <3>1. s[j + 1] = [z EXCEPT !.valid = FALSE] BY <2>2, <2>5 DEF DecodeStep
            <3>2. "valid" \in DOMAIN z BY <2>3 DEF z
            <3>3. "valid" \in DOMAIN s[j + 1] /\ s[j + 1].valid = FALSE BY <3>1, <3>2
            <3>4. P(j + 1) BY <3>3
            <3> HIDE DEF P
            <3> QED BY <2>1, <3>4
        <2> QED BY <2>4, <2>5
    <1> HIDE DEF T
    <1>6. \A j \in 0..Len(t) : j \in T BY <1>1, <1>4, <1>5, UpTo
    <1> HIDE DEF P
    <1>7. P(Len(t)) BY <1>1, <1>6 DEF T
    <1>8. ~ \A m \in 1..Len(t) : IsValue(m) BY <1>1 DEF IsText
    <1>9. s[Len(t)].valid = FALSE BY <1>7, <1>8 DEF P
    <1>10. decode_base64(t) = DecodeResult(s[Len(t)], n) BY DEF decode_base64, Decode, n, s
    <1> QED BY <1>9, <1>10 DEF DecodeResult

\* What decode_base64 returns for any text.
LEMMA DecodesAs ==
    ASSUME NEW t \in Seq(Byte)
    PROVE  decode_base64(t) = IF Len(t) <= 1 THEN Some(<<>>)
                              ELSE IF IsText(t) THEN Some(RefDecode(t)) ELSE NullOpt
    <1> DEFINE n == decode_char_count(Len(t))
    <1>1. Len(t) \in Nat /\ (n = 0 <=> Len(t) <= 1) BY DEF decode_char_count
    <1>2. CASE Len(t) <= 1 BY <1>1, <1>2 DEF decode_base64, Decode
    <1>3. CASE Len(t) > 1 /\ IsText(t)
        <2>1. BytesOf(t) \in Seq(Byte) /\ Spells(BytesOf(t), t) BY <1>3, TextSpellsItsBytes
        <2>2. decode_base64(t) = Some([i \in 1..n |-> Cell(BytesOf(t), i)])
            BY <1>1, <1>3, <2>1, DecodesSpelled
        <2>3. RefDecode(t) = [i \in 1..n |-> Cell(BytesOf(t), i)] BY <1>3, ReferenceIs
        <2> HIDE DEF n
        <2> QED BY <1>1, <1>3, <2>2, <2>3
    <1>4. CASE Len(t) > 1 /\ ~IsText(t)
        <2>1. decode_base64(t) = NullOpt BY <1>1, <1>4, Refuses
        <2> QED BY <1>1, <1>4, <2>1
    <1> QED BY <1>1, <1>2, <1>3, <1>4

\* decode_base64 returns nullopt or bytes.
LEMMA DecodesToBytes ==
    ASSUME NEW t \in Seq(Byte), decode_base64(t).outcome = "value"
    PROVE  decode_base64(t).value \in Seq(Byte)
    <1>1. Len(t) \in Nat OBVIOUS
    <1>2. CASE Len(t) <= 1
        <2>1. decode_base64(t) = Some(<<>>) BY <1>2, DecodesAs
        <2> QED BY <2>1 DEF Some
    <1>3. CASE Len(t) > 1
        <2>1. NullOpt.outcome # "value" BY DEF NullOpt
        <2>2. IsText(t) /\ decode_base64(t) = Some(RefDecode(t)) BY <1>1, <1>3, <2>1, DecodesAs
        <2> DEFINE n == decode_char_count(Len(t))
                   D == BytesOf(t)
        <2>3. RefDecode(t) = [i \in 1..n |-> Cell(D, i)] BY <2>2, ReferenceIs
        <2>4. \A i \in 1..n : Cell(D, i) \in Byte BY <2>2, TextSpellsItsBytes, CellType
        <2>5. n \in Nat BY <1>1 DEF decode_char_count
        <2> HIDE DEF n, D
        <2>6. RefDecode(t) \in Seq(Byte) BY <2>3, <2>4, <2>5
        <2> QED BY <2>2, <2>6 DEF Some
    <1> QED BY <1>1, <1>2, <1>3

-----------------------------------------------------------------------------
(* The text of encode_base64: where its alphabet is the other one, its     *)
(* characters have no value.                                               *)

LEMMA CharsAgree ==
    ASSUME NEW v \in Sextet
    PROVE  /\ Base64Chars[v] \in Byte
           /\ \/ Base64Chars[v] = Base64UrlChars[v]
              \/ from_base64(Base64Chars[v]).outcome # "value"
    <1>1. /\ v \in 0..63 /\ Base64Chars[v] = to_base64_char(v)
          /\ Base64UrlChars[v] = to_base64url_char(v)
        BY DEF Sextet, Base64Chars, Base64UrlChars
    <1>2. NullOpt.outcome # "value" BY DEF NullOpt
    <1>3. CASE v < 62
        <2>1. Base64Chars[v] = Base64UrlChars[v]
            BY <1>1, <1>3 DEF to_base64_char, to_base64url_char
        <2> QED BY <2>1, Alphabet
    <1>4. CASE v = 62
        <2>1. Base64Chars[v] = 43 BY <1>1, <1>4 DEF to_base64_char
        <2>2. from_base64(43) = NullOpt BY DEF from_base64, from_base64url
        <2> QED BY <1>2, <2>1, <2>2 DEF Byte
    <1>5. CASE v = 63
        <2>1. Base64Chars[v] = 47 BY <1>1, <1>5 DEF to_base64_char
        <2>2. from_base64(47) = NullOpt BY DEF from_base64, from_base64url
        <2> QED BY <1>2, <2>1, <2>2 DEF Byte
    <1> QED BY <1>1, <1>3, <1>4, <1>5

\* w has the characters of u, or ones without a value.
Resembles(w, u) ==
    /\ w \in Seq(Byte) /\ u \in Seq(Byte) /\ Len(w) = Len(u)
    /\ \A i \in 1..Len(u) : w[i] = u[i] \/ from_base64(w[i]).outcome # "value"

LEMMA ResemblesOn ==
    ASSUME NEW w, NEW u, Resembles(w, u), NEW v \in Sextet,
           NEW c \in {Base64Chars[v], Base64UrlChars[v]}
    PROVE  Resembles(Append(w, c), Append(u, Base64UrlChars[v]))
    <1> DEFINE e == Base64UrlChars[v]
               x == Append(w, c)
               y == Append(u, e)
    <1>1. e \in Byte /\ c \in Byte /\ (c = e \/ from_base64(c).outcome # "value")
        BY Alphabet, CharsAgree
    <1> HIDE DEF e
    <1>2. w \in Seq(Byte) /\ u \in Seq(Byte) /\ Len(w) = Len(u) /\ Len(u) \in Nat
        BY DEF Resembles
    <1>3. /\ x \in Seq(Byte) /\ Len(x) = Len(u) + 1 /\ x[Len(u) + 1] = c
          /\ \A i \in 1..Len(u) : x[i] = w[i]
        BY <1>1, <1>2
    <1>4. /\ y \in Seq(Byte) /\ Len(y) = Len(u) + 1 /\ y[Len(u) + 1] = e
          /\ \A i \in 1..Len(u) : y[i] = u[i]
        BY <1>1, <1>2
    <1> HIDE DEF x, y
    <1>5. \A i \in 1..Len(u) + 1 : i \in 1..Len(u) \/ i = Len(u) + 1 BY <1>2
    <1>6. \A i \in 1..Len(y) : x[i] = y[i] \/ from_base64(x[i]).outcome # "value"
        BY <1>1, <1>3, <1>4, <1>5 DEF Resembles
    <1>7. Resembles(x, y) BY <1>3, <1>4, <1>6 DEF Resembles
    <1> QED BY <1>7 DEF x, y, e

\* The states of the two encoders after the bytes d.
SameSoFar(d, f, e) ==
    /\ Encoding(d, e)
    /\ f.carry = e.carry /\ f.carry_bits = e.carry_bits
    /\ Resembles(f.out, e.out)

LEMMA StandardStep ==
    ASSUME NEW d \in Seq(Byte), NEW f, NEW e, SameSoFar(d, f, e), NEW b \in Byte
    PROVE  SameSoFar(Append(d, b), EncodeStep(Base64Chars, Base64UrlChars, f, b),
                     EncodeStep(Base64UrlChars, Base64UrlChars, e, b))
    <1> DEFINE y == EncodeStep(Base64Chars, Base64UrlChars, f, b)
               z == EncodeStep(Base64UrlChars, Base64UrlChars, e, b)
               t == Len(d) % 3
               p == Len(d) \div 3
               x1 == Cell(d, 3 * p + 1)
               x2 == Cell(d, 3 * p + 2)
               r == e.carry
    <1>1. Encoding(d, e) /\ f.carry = r /\ f.carry_bits = e.carry_bits /\ Resembles(f.out, e.out)
        BY DEF SameSoFar
    <1>2. Encoding(Append(d, b), z) BY <1>1, EncodeStepKeeps
    <1>3. t \in 0..2 /\ e.carry_bits = 2 * t /\ r = CarryAfter(d, p, t)
        BY <1>1, Thirds DEF Encoding
    <1>4. x1 \in Byte /\ x2 \in Byte BY CellType
    <1>5. r = IF t = 0 THEN 0 ELSE IF t = 1 THEN (x1 % 4) * 16 ELSE (x2 % 16) * 4
        BY <1>3 DEF CarryAfter
    <1>6. /\ b \div 4 \in Sextet /\ b % 64 \in Sextet
          /\ t = 1 => r + (b \div 16) \in Sextet
          /\ t = 2 => r + (b \div 64) \in Sextet
        <2>1. /\ b \div 4 \in 0..63 /\ b % 64 \in 0..63 /\ b \div 16 \in 0..15 /\ b \div 64 \in 0..3
              /\ x1 % 4 \in 0..3 /\ x2 % 16 \in 0..15
            BY <1>4, Pieces
        <2> DEFINE g == b \div 16
                   h == b \div 64
                   k == x1 % 4
                   l == x2 % 16
        <2> HIDE DEF g, h, k, l, t, x1, x2, r
        <2>2. g \in 0..15 /\ h \in 0..3 /\ k \in 0..3 /\ l \in 0..15 BY <2>1 DEF g, h, k, l
        <2>3. (t = 1 => r + g \in 0..63) /\ (t = 2 => r + h \in 0..63)
            <3>1. t = 1 => r = k * 16 BY <1>5 DEF k
            <3>2. t = 2 => r = l * 4 BY <1>5 DEF l
            <3>3. k * 16 + g \in 0..63 /\ l * 4 + h \in 0..63 BY <2>2
            <3> QED BY <3>1, <3>2, <3>3
        <2> QED BY <2>1, <2>3 DEF g, h, Sextet
    <1>7. SUFFICES y.carry = z.carry /\ y.carry_bits = z.carry_bits /\ Resembles(y.out, z.out)
        BY <1>2 DEF SameSoFar
    <1> HIDE DEF t, p, r
    <1>8. CASE t = 0
        <2> DEFINE v == b \div 4
        <2>1. /\ y = [out |-> Append(f.out, Base64Chars[v]), carry |-> CarryOf(b, 4), carry_bits |-> 2]
              /\ z = [out |-> Append(e.out, Base64UrlChars[v]), carry |-> CarryOf(b, 4), carry_bits |-> 2]
            BY <1>1, <1>3, <1>8 DEF EncodeStep
        <2> HIDE DEF v, y, z
        <2>2. Resembles(Append(f.out, Base64Chars[v]), Append(e.out, Base64UrlChars[v]))
            BY <1>1, <1>6, ResemblesOn DEF v
        <2> QED BY <2>1, <2>2
    <1>9. CASE t = 1
        <2> DEFINE v == r + (b \div 16)
        <2>1. /\ y = [out |-> Append(f.out, Base64UrlChars[v]), carry |-> CarryOf(b, 16), carry_bits |-> 4]
              /\ z = [out |-> Append(e.out, Base64UrlChars[v]), carry |-> CarryOf(b, 16), carry_bits |-> 4]
            BY <1>1, <1>3, <1>9 DEF EncodeStep, r
        <2> HIDE DEF v, y, z
        <2>2. Resembles(Append(f.out, Base64UrlChars[v]), Append(e.out, Base64UrlChars[v]))
            BY <1>1, <1>6, <1>9, ResemblesOn DEF v
        <2> QED BY <2>1, <2>2
    <1>10. CASE t = 2
        <2> DEFINE v == r + (b \div 64)
                   w == b % 64
                   fo == Append(f.out, Base64Chars[v])
                   eo == Append(e.out, Base64UrlChars[v])
        <2>1. /\ y = [out |-> f.out \o <<Base64Chars[v], Base64Chars[w]>>, carry |-> 0, carry_bits |-> 0]
              /\ z = [out |-> e.out \o <<Base64UrlChars[v], Base64UrlChars[w]>>, carry |-> 0, carry_bits |-> 0]
            BY <1>1, <1>3, <1>10 DEF EncodeStep, r
        <2>2. v \in Sextet /\ w \in Sextet BY <1>6, <1>10
        <2> HIDE DEF v, w, y, z
        <2>3. f.out \in Seq(Byte) /\ e.out \in Seq(Byte) BY <1>1 DEF Resembles
        <2>4. /\ Base64Chars[v] \in Byte /\ Base64Chars[w] \in Byte
              /\ Base64UrlChars[v] \in Byte /\ Base64UrlChars[w] \in Byte
            BY <2>2, Alphabet, CharsAgree
        <2>5. /\ f.out \o <<Base64Chars[v], Base64Chars[w]>> = Append(fo, Base64Chars[w])
              /\ e.out \o <<Base64UrlChars[v], Base64UrlChars[w]>> = Append(eo, Base64UrlChars[w])
            BY <2>3, <2>4
        <2>6. Resembles(fo, eo) BY <1>1, <2>2, ResemblesOn
        <2> HIDE DEF fo, eo
        <2>7. Resembles(Append(fo, Base64Chars[w]), Append(eo, Base64UrlChars[w]))
            BY <2>2, <2>6, ResemblesOn
        <2> QED BY <2>1, <2>5, <2>7
    <1> QED BY <1>3, <1>8, <1>9, <1>10

\* decode_base64 reads a text of encode_base64 as the same bytes, or not at
\* all.
LEMMA StandardReadsOrRefuses ==
    ASSUME NEW d \in Seq(Byte)
    PROVE  decode_base64(encode_base64(d).value) \in {Some(d), NullOpt}
    <1> DEFINE ys == EncodeLoop(Base64Chars, Base64UrlChars, d)
               zs == EncodeLoop(Base64UrlChars, Base64UrlChars, d)
               P(n) == SubSeq(d, 1, n)
               T == {n \in 0..Len(d) : SameSoFar(P(n), ys[n], zs[n])}
    <1>1. Len(d) \in Nat OBVIOUS
    <1>2. /\ ys = [n \in 0..Len(d) |-> IF n = 0 THEN EncodeStart
                                       ELSE EncodeStep(Base64Chars, Base64UrlChars, ys[n - 1], d[n])]
          /\ zs = [n \in 0..Len(d) |-> IF n = 0 THEN EncodeStart
                                       ELSE EncodeStep(Base64UrlChars, Base64UrlChars, zs[n - 1], d[n])]
        BY EncodeLoopIs
    <1> HIDE DEF ys, zs
    <1>3. 0 \in T
        <2>1. P(0) = <<>> /\ 0 \in 0..Len(d) BY <1>1
        <2>2. ys[0] = EncodeStart /\ zs[0] = EncodeStart BY <1>2, <2>1
        <2>3. EncodeStart.out = <<>> BY DEF EncodeStart
        <2>4. Resembles(<<>>, <<>>) BY DEF Resembles
        <2>5. SameSoFar(<<>>, EncodeStart, EncodeStart) BY <2>3, <2>4, EncodingStarts DEF SameSoFar
        <2> QED BY <2>1, <2>2, <2>5
    <1>4. ASSUME NEW n \in 0..Len(d), n < Len(d), n \in T PROVE n + 1 \in T
        <2>1. n + 1 \in 1..Len(d) /\ n + 1 \in 0..Len(d) /\ n + 1 # 0 /\ (n + 1) - 1 = n BY <1>1, <1>4
        <2>2. /\ ys[n + 1] = EncodeStep(Base64Chars, Base64UrlChars, ys[n], d[n + 1])
              /\ zs[n + 1] = EncodeStep(Base64UrlChars, Base64UrlChars, zs[n], d[n + 1])
            BY <1>2, <2>1
        <2>3. d[n + 1] \in Byte BY <2>1, ElementOfSeq
        <2>4. P(n) \in Seq(Byte) /\ SameSoFar(P(n), ys[n], zs[n]) BY <1>4
        <2>5. P(n + 1) = Append(P(n), d[n + 1]) BY <1>1, <2>1
        <2> QED BY <2>1, <2>2, <2>3, <2>4, <2>5, StandardStep
    <1> HIDE DEF T
    <1>5. \A n \in 0..Len(d) : n \in T BY <1>1, <1>3, <1>4, UpTo
    <1> DEFINE y == ys[Len(d)]
               z == zs[Len(d)]
               p == Len(d) \div 3
               t == Len(d) % 3
               m == encode_char_count(Len(d)) - Len(y.out)
               tail == [i \in 1..m |-> Base64Chars[IF i = 1 THEN y.carry ELSE 0]]
               pad == [i \in 1..t |-> 61]
               text1 == (y.out \o tail) \o pad
    <1>6. SameSoFar(d, y, z)
        <2>1. SameSoFar(P(Len(d)), y, z) BY <1>1, <1>5 DEF T
        <2>2. P(Len(d)) = d BY <1>1
        <2> QED BY <2>1, <2>2
    <1>7. encode_base64(d).value = text1
        BY DEF encode_base64, Encode, EncodeFlush, Some, ys
    <1>8. /\ encode_base64url(d).value =
                z.out \o [i \in 1..(encode_char_count(Len(d)) - Len(z.out)) |->
                             Base64UrlChars[IF i = 1 THEN z.carry ELSE 0]]
        BY DEF encode_base64url, Encode, EncodeFlush, Some, zs
    <1>9. p \in Nat /\ t \in 0..2 /\ Len(d) = 3 * p + t BY <1>1, Thirds
    <1>10. /\ y.out \in Seq(Byte) /\ z.out \in Seq(Byte) /\ Len(y.out) = 4 * p + t
           /\ Len(z.out) = 4 * p + t /\ y.carry = CarryAfter(d, p, t)
        BY <1>6 DEF SameSoFar, Resembles, Encoding
    <1>11. Resembles(y.out, z.out) BY <1>6 DEF SameSoFar
    <1> HIDE DEF y, z, p, t
    <1>12. m = IF t = 0 THEN 0 ELSE 1
        <2>1. CASE t = 0 BY <1>9, <1>10, <2>1, Counts
        <2>2. CASE t = 1 BY <1>9, <1>10, <2>2, Counts
        <2>3. CASE t = 2 BY <1>9, <1>10, <2>3, Counts
        <2> QED BY <1>9, <2>1, <2>2, <2>3
    <1>13. CASE t = 0
        <2>1. tail = <<>> /\ pad = <<>>
            <3>1. m = 0 BY <1>12, <1>13
            <3> HIDE DEF m
            <3> QED BY <1>13, <3>1
        <2> HIDE DEF tail, pad
        <2>2. text1 = y.out BY <1>10, <2>1
        <2>3. encode_base64url(d).value = z.out
            <3> DEFINE m2 == encode_char_count(Len(d)) - Len(z.out)
                       tail2 == [i \in 1..m2 |-> Base64UrlChars[IF i = 1 THEN z.carry ELSE 0]]
            <3>1. m2 = 0 BY <1>10, <1>12, <1>13
            <3> HIDE DEF m2
            <3>2. tail2 = <<>> BY <3>1
            <3> HIDE DEF tail2
            <3>3. encode_base64url(d).value = z.out \o tail2 BY <1>8 DEF tail2, m2
            <3> QED BY <1>10, <3>2, <3>3
        <2>4. CASE IsText(y.out)
            <3>1. /\ Len(y.out) = Len(z.out)
                  /\ \A i \in 1..Len(z.out) : y.out[i] = z.out[i] \/ from_base64(y.out[i]).outcome # "value"
                BY <1>11 DEF Resembles
            <3>2. \A i \in 1..Len(y.out) : from_base64(y.out[i]).outcome = "value"
                BY <1>10, <2>4 DEF IsText
            <3>3. \A i \in 1..Len(z.out) : y.out[i] = z.out[i] BY <3>1, <3>2
            <3>4. y.out = z.out BY <1>10, <3>1, <3>3, SeqEqual
            <3> QED BY <1>7, <2>2, <2>3, <3>4, CodecInverts
        <2>5. CASE ~IsText(y.out)
            <3>1. Len(y.out) # 0 BY <1>10, <2>5 DEF IsText
            <3>2. ~ (Len(y.out) <= 1) BY <1>9, <1>10, <1>13, <3>1
            <3>3. decode_base64(y.out) = NullOpt BY <1>10, <2>5, <3>2, DecodesAs
            <3> QED BY <1>7, <2>2, <3>3
        <2> QED BY <2>4, <2>5
    <1>14. CASE t \in {1, 2}
        <2>1. y.carry \in Sextet /\ 0 \in Sextet
            <3> DEFINE x1 == Cell(d, 3 * p + 1)
                       x2 == Cell(d, 3 * p + 2)
            <3>1. x1 \in Byte /\ x2 \in Byte BY CellType
            <3>2. y.carry = IF t = 1 THEN (x1 % 4) * 16 ELSE (x2 % 16) * 4
                BY <1>10, <1>14 DEF CarryAfter
            <3> HIDE DEF x1, x2
            <3>3. x1 % 4 \in 0..3 /\ x2 % 16 \in 0..15 BY <3>1, Pieces
            <3>4. \A k \in 0..3, l \in 0..15 : k * 16 \in 0..63 /\ l * 4 \in 0..63 OBVIOUS
            <3>5. (x1 % 4) * 16 \in 0..63 /\ (x2 % 16) * 4 \in 0..63 BY <3>3, <3>4
            <3> QED BY <3>2, <3>5 DEF Sextet
        <2>2. m = 1 BY <1>12, <1>14
        <2> HIDE DEF m
        <2>3. tail \in Seq(Byte)
            <3>1. \A i \in 1..m : Base64Chars[IF i = 1 THEN y.carry ELSE 0] \in Byte
                BY <2>1, CharsAgree
            <3> QED BY <2>2, <3>1
        <2>4. pad \in Seq(Byte) /\ Len(pad) = t /\ pad[1] = 61
            <3>1. t \in Nat /\ 1 \in 1..t /\ 61 \in Byte BY <1>14 DEF Byte
            <3> QED BY <3>1
        <2> DEFINE x == y.out \o tail
        <2> HIDE DEF tail, pad
        <2>5. x \in Seq(Byte) /\ Len(x) \in Nat /\ Len(x) >= 4 * p + t BY <1>9, <1>10, <2>3
        <2> HIDE DEF x
        <2>6. text1 = x \o pad BY DEF x
        <2>7. /\ x \o pad \in Seq(Byte) /\ Len(x \o pad) = Len(x) + t
              /\ (x \o pad)[Len(x) + 1] = 61
            <3>1. Len(x) + 1 \in 1..Len(x) + Len(pad) /\ ~ (Len(x) + 1 <= Len(x)) BY <1>14, <2>4, <2>5
            <3> QED BY <1>14, <2>4, <2>5, <3>1
        <2>8. ~IsText(x \o pad)
            <3>1. from_base64(61) = NullOpt BY DEF from_base64, from_base64url
            <3>2. NullOpt.outcome # "value" BY DEF NullOpt
            <3>3. Len(x) + 1 \in DOMAIN (x \o pad) BY <1>14, <2>5, <2>7
            <3> QED BY <2>7, <3>1, <3>2, <3>3 DEF IsText
        <2>9. ~ (Len(x \o pad) <= 1) BY <1>9, <1>14, <2>5, <2>7
        <2>10. decode_base64(x \o pad) = NullOpt BY <2>7, <2>8, <2>9, DecodesAs
        <2> QED BY <1>7, <2>6, <2>10
    <1> QED BY <1>9, <1>13, <1>14

-----------------------------------------------------------------------------
(* The machine of Base64Inputs and the operators of Base64 do the same     *)

\* The loop's variables do not depend on the bytes that it has not read.
LEMMA EncodeLoopGrows ==
    ASSUME NEW d \in Seq(Byte), NEW b \in Byte, NEW u, NEW m
    PROVE  EncodeLoop(u, m, Append(d, b))[Len(d) + 1] = EncodeStep(u, m, EncodeLoop(u, m, d)[Len(d)], b)
    <1> DEFINE e == Append(d, b)
               y == EncodeLoop(u, m, d)
               z == EncodeLoop(u, m, e)
               T == {n \in 0..Len(d) : z[n] = y[n]}
    <1>1. /\ Len(d) \in Nat /\ e \in Seq(Byte) /\ Len(e) = Len(d) + 1 /\ e[Len(d) + 1] = b
          /\ \A n \in 1..Len(d) : e[n] = d[n]
        OBVIOUS
    <1> HIDE DEF e
    <1>2. y = [n \in 0..Len(d) |-> IF n = 0 THEN EncodeStart ELSE EncodeStep(u, m, y[n - 1], d[n])]
        BY EncodeLoopIs
    <1>3. z = [n \in 0..Len(e) |-> IF n = 0 THEN EncodeStart ELSE EncodeStep(u, m, z[n - 1], e[n])]
        BY <1>1, EncodeLoopIs
    <1> HIDE DEF y, z
    <1>4. 0 \in T
        <2>1. 0 \in 0..Len(d) /\ 0 \in 0..Len(e) BY <1>1
        <2> QED BY <1>2, <1>3, <2>1
    <1>5. ASSUME NEW n \in 0..Len(d), n < Len(d), n \in T PROVE n + 1 \in T
        <2>1. /\ n + 1 \in 0..Len(d) /\ n + 1 \in 0..Len(e) /\ n + 1 \in 1..Len(d)
              /\ n + 1 # 0 /\ (n + 1) - 1 = n
            BY <1>1, <1>5
        <2>2. y[n + 1] = EncodeStep(u, m, y[n], d[n + 1]) BY <1>2, <2>1
        <2>3. z[n + 1] = EncodeStep(u, m, z[n], e[n + 1]) BY <1>3, <2>1
        <2>4. z[n] = y[n] /\ e[n + 1] = d[n + 1] BY <1>1, <1>5, <2>1
        <2> QED BY <2>1, <2>2, <2>3, <2>4
    <1> HIDE DEF T
    <1>6. \A n \in 0..Len(d) : n \in T BY <1>1, <1>4, <1>5, UpTo
    <1>7. z[Len(d)] = y[Len(d)] BY <1>1, <1>6 DEF T
    <1>8. Len(d) + 1 \in 0..Len(e) /\ Len(d) + 1 # 0 /\ (Len(d) + 1) - 1 = Len(d) BY <1>1
    <1>9. z[Len(d) + 1] = EncodeStep(u, m, z[Len(d)], e[Len(d) + 1]) BY <1>3, <1>8
    <1> QED BY <1>1, <1>7, <1>9 DEF y, z, e

\* The variables of the machine are those of the recursive functions, and
\* what it returns is what decode_base64 does.
LoopInv ==
    /\ pc = "encoding" => enc = EncodeLoop(Base64UrlChars, Base64UrlChars, data)[Len(data)]
    /\ encoded = TRUE => text = encode_base64url(data).value
    /\ pc = "decoding" => /\ decode_char_count(Len(text)) # 0
                          /\ dec = DecodeLoop(Base64Values, text)[next - 1]
    /\ pc = "decoded" => Returned = decode_base64(text)

\* Before the first iteration the encoder's variables are as declared.
LEMMA LoopOfNothing ==
    ASSUME NEW u, NEW m
    PROVE  EncodeLoop(u, m, <<>>)[0] = EncodeStart
    <1> DEFINE d == <<>>
               s == EncodeLoop(u, m, d)
    <1>1. d \in Seq(Byte) /\ 0 \in 0..Len(d) OBVIOUS
    <1> HIDE DEF d
    <1>2. s = [n \in 0..Len(d) |-> IF n = 0 THEN EncodeStart
                                   ELSE EncodeStep(u, m, s[n - 1], d[n])]
        BY <1>1, EncodeLoopIs
    <1> HIDE DEF s
    <1>3. s[0] = EncodeStart BY <1>1, <1>2
    <1> QED BY <1>3 DEF s, d

LEMMA LoopStarts == CodecInit => LoopInv
    <1> SUFFICES ASSUME CodecInit PROVE LoopInv OBVIOUS
    <1>1. data = <<>> /\ enc = EncodeStart /\ encoded = FALSE /\ pc = "encoding" BY DEF CodecInit
    <1>2. EncodeLoop(Base64UrlChars, Base64UrlChars, <<>>)[0] = EncodeStart
        BY LoopOfNothing
    <1>3. Len(data) = 0 BY <1>1
    <1>4. enc = EncodeLoop(Base64UrlChars, Base64UrlChars, data)[Len(data)]
        BY <1>1, <1>2, <1>3
    <1> QED BY <1>1, <1>4 DEF LoopInv

\* The call of decode_base64.
LEMMA CallBegins ==
    ASSUME NEW t \in Seq(Byte), Call(t), next' = 1
    PROVE  /\ pc' = "decoding" => /\ decode_char_count(Len(text')) # 0
                                  /\ dec' = DecodeLoop(Base64Values, text')[next' - 1]
           /\ pc' = "decoded" => Returned' = decode_base64(text')
    <1> DEFINE n == decode_char_count(Len(t))
               s == DecodeLoop(Base64Values, t)
    <1>1. /\ text' = t /\ dec' = DecodeStart(Len(t))
          /\ pc' = IF n = 0 THEN "decoded" ELSE "decoding"
        BY DEF Call
    <1>2. s = [j \in 0..Len(t) |-> IF j = 0 THEN DecodeStart(Len(t))
                                   ELSE DecodeStep(Base64Values, s[j - 1], t[j])]
        BY DecodeLoopIs
    <1> HIDE DEF s
    <1>3. s[0] = DecodeStart(Len(t))
        <2>1. 0 \in 0..Len(t) OBVIOUS
        <2> QED BY <1>2, <2>1
    <1>4. CASE n = 0
        <2>1. dec'.valid = TRUE BY <1>1 DEF DecodeStart
        <2>2. Contents(dec'.out, n) = <<>>
            <3> HIDE DEF n
            <3> QED BY <1>4 DEF Contents
        <2>3. Returned' = Some(<<>>) BY <1>1, <2>1, <2>2 DEF Returned
        <2>4. decode_base64(t) = Some(<<>>) BY <1>4 DEF decode_base64, Decode
        <2> QED BY <1>1, <1>4, <2>3, <2>4
    <1>5. CASE n # 0
        <2>1. next' - 1 = 0 OBVIOUS
        <2> QED BY <1>1, <1>3, <1>5, <2>1 DEF s
    <1> QED BY <1>4, <1>5

LEMMA LoopStep ==
    ASSUME CodecInv, CodecInv', LoopInv, [CodecNext]_codecVars
    PROVE  LoopInv'
    <1>0. /\ data \in Seq(Byte) /\ text \in Seq(Byte) /\ next \in Nat \ {0}
          /\ encoded \in BOOLEAN
        BY DEF CodecInv, CodecTypes
    <1>1. CASE EncodeByte
        <2>1. pc = "encoding" /\ pc' = pc /\ encoded' = encoded BY <1>1 DEF EncodeByte
        <2>2. PICK b \in Bytes : /\ data' = Append(data, b)
                                 /\ enc' = EncodeStep(Base64UrlChars, Base64UrlChars, enc, b)
            BY <1>1 DEF EncodeByte
        <2>3. b \in Byte BY InputsAssumption
        <2>4. encoded = FALSE BY <2>1 DEF CodecInv, WhileEncoding
        <2>5. enc = EncodeLoop(Base64UrlChars, Base64UrlChars, data)[Len(data)] BY <2>1 DEF LoopInv
        <2>6. Len(data') = Len(data) + 1 BY <1>0, <2>2, <2>3
        <2>7. enc' = EncodeLoop(Base64UrlChars, Base64UrlChars, data')[Len(data')]
            BY <1>0, <2>2, <2>3, <2>5, <2>6, EncodeLoopGrows
        <2> QED BY <2>1, <2>4, <2>7 DEF LoopInv
    <1>2. CASE DecodeEncoded
        <2> DEFINE t == EncodeFlush(Base64UrlChars, enc, Len(data))
        <2>1. pc = "encoding" /\ Call(t) /\ encoded' = TRUE /\ data' = data /\ next' = next
            BY <1>2 DEF DecodeEncoded
        <2>2. enc = EncodeLoop(Base64UrlChars, Base64UrlChars, data)[Len(data)] /\ next = 1
            BY <2>1 DEF LoopInv, CodecInv, WhileEncoding
        <2>3. t = encode_base64url(data).value BY <2>2 DEF encode_base64url, Encode, Some
        <2> HIDE DEF t
        <2>4. text' = t /\ pc' # "encoding" BY <2>1 DEF Call
        <2>5. t \in Seq(Byte) BY <1>0, <2>3, CodecInverts
        <2> QED BY <2>1, <2>2, <2>3, <2>4, <2>5, CallBegins DEF LoopInv
    <1>3. CASE DecodeGiven
        <2>1. pc = "encoding" /\ Call(data) /\ encoded' = encoded /\ next' = next
            BY <1>3 DEF DecodeGiven
        <2>2. encoded = FALSE /\ next = 1 BY <2>1 DEF CodecInv, WhileEncoding
        <2>3. pc' # "encoding" BY <2>1 DEF Call
        <2> QED BY <1>0, <2>1, <2>2, <2>3, CallBegins DEF LoopInv
    <1>4. CASE DecodeChar
        <2> DEFINE n == decode_char_count(Len(text))
                   s == DecodeLoop(Base64Values, text)
                   val == Base64Values[text[next]]
        <2>1. /\ pc = "decoding" /\ next <= Len(text)
              /\ dec' = DecodeStep(Base64Values, dec, text[next]) /\ next' = next + 1
              /\ pc' = IF dec'.valid THEN pc ELSE "decoded"
              /\ data' = data /\ text' = text /\ encoded' = encoded
            BY <1>4 DEF DecodeChar
        <2>2. n # 0 /\ dec = s[next - 1] BY <2>1 DEF LoopInv
        <2>3. /\ Len(text) \in Nat /\ next \in 1..Len(text) /\ next \in 0..Len(text) /\ next # 0
              /\ next' - 1 = next
            BY <1>0, <2>1
        <2>4. s = [j \in 0..Len(text) |-> IF j = 0 THEN DecodeStart(Len(text))
                                          ELSE DecodeStep(Base64Values, s[j - 1], text[j])]
            BY <1>0, DecodeLoopIs
        <2> HIDE DEF s
        <2>5. s[next] = DecodeStep(Base64Values, s[next - 1], text[next]) BY <2>3, <2>4
        <2>6. dec' = s[next' - 1] BY <2>1, <2>2, <2>3, <2>5
        <2>7. pc' # "encoding" BY <2>1
        <2>8. DecoderAt(n, dec, next - 1) BY <2>1 DEF CodecInv, WhileDecoding
        <2>9. pc' = "decoded" => Returned' = decode_base64(text)
            <3> SUFFICES ASSUME pc' = "decoded" PROVE Returned' = decode_base64(text) OBVIOUS
            <3>1. ~dec'.valid BY <2>1
            <3>2. /\ dec.valid = TRUE
                  /\ DOMAIN dec = {"out", "out_idx", "carry", "bits_to_read", "final_shift", "valid"}
                BY <2>8 DEF DecoderAt, DecoderIn
            <3>3. CASE val.outcome = "value"
                <4>1. dec' = DecodeSextet(dec, val.value) BY <2>1, <3>2, <3>3 DEF DecodeStep
                <4>2. next - 1 \in Nat /\ next - 1 < Len(text) BY <2>3
                <4>3. DecoderAt(n, dec', (next - 1) + 1) BY <2>3, <2>8, <4>1, <4>2, DecodeSextetKeeps
                <4>4. dec'.valid = TRUE BY <4>3 DEF DecoderAt, DecoderIn
                <4> QED BY <3>1, <4>4
            <3>4. CASE val.outcome # "value"
                <4>1. text[next] \in Byte BY <1>0, <2>3, ElementOfSeq
                <4>2. from_base64(text[next]).outcome # "value" BY <3>4, <4>1 DEF Base64Values
                <4>3. next \in DOMAIN text BY <1>0, <2>3
                <4>4. ~IsText(text) BY <4>2, <4>3 DEF IsText
                <4>5. decode_base64(text) = NullOpt BY <1>0, <2>2, <4>4, Refuses
                <4>6. Returned' = NullOpt BY <3>1 DEF Returned
                <4> QED BY <4>5, <4>6
            <3> QED BY <3>3, <3>4
        <2>10. encoded' = TRUE => text' = encode_base64url(data').value BY <2>1 DEF LoopInv
        <2> QED BY <2>1, <2>2, <2>6, <2>7, <2>9, <2>10 DEF LoopInv, s
    <1>5. CASE DecodeReturn
        <2> DEFINE n == decode_char_count(Len(text))
                   s == DecodeLoop(Base64Values, text)
        <2>1. /\ pc = "decoding" /\ next > Len(text) /\ pc' = "decoded"
              /\ dec' = [dec EXCEPT !.out = DecodeFinish(dec)]
              /\ data' = data /\ text' = text /\ encoded' = encoded
            BY <1>5 DEF DecodeReturn
        <2>2. n # 0 /\ dec = s[next - 1] BY <2>1 DEF LoopInv
        <2>3. /\ next <= Len(text) + 1 /\ DecoderAt(n, dec, next - 1)
            BY <2>1 DEF CodecInv, WhileDecoding
        <2>4. next - 1 = Len(text) BY <1>0, <2>1, <2>3
        <2>5. /\ dec.valid = TRUE
              /\ DOMAIN dec = {"out", "out_idx", "carry", "bits_to_read", "final_shift", "valid"}
            BY <2>3 DEF DecoderAt, DecoderIn
        <2>6. dec'.valid = TRUE /\ dec'.out = DecodeFinish(dec) BY <2>1, <2>5
        <2>7. Returned' = Some(Contents(DecodeFinish(dec), n)) BY <2>1, <2>6 DEF Returned
        <2>8. decode_base64(text) = DecodeResult(dec, n)
            BY <2>2, <2>4 DEF decode_base64, Decode
        <2>9. Returned' = decode_base64(text) BY <2>5, <2>7, <2>8 DEF DecodeResult
        <2> QED BY <2>1, <2>9 DEF LoopInv
    <1>6. CASE UNCHANGED codecVars
        BY <1>6 DEF codecVars, LoopInv, Returned
    <1> QED BY <1>1, <1>2, <1>3, <1>4, <1>5, <1>6 DEF CodecNext

\* decode_base64 puts the bits of a text's characters side by side, refuses
\* a text with any other character, and reads what encode_base64 wrote as
\* the same bytes or refuses it: for texts of every length.
THEOREM DecoderComputesTheBits == CodecSpec => []DecodeIsBitSlicing
    <1>1. CodecInv /\ LoopInv => DecodeIsBitSlicing
        <2> SUFFICES ASSUME CodecInv, LoopInv, pc = "decoded"
                     PROVE  /\ Returned = IF Len(text) <= 1 THEN Some(<<>>)
                                          ELSE IF IsText(text) THEN Some(RefDecode(text))
                                          ELSE NullOpt
                            /\ Returned = decode_base64(text) /\ Returned = decode_base64url(text)
                            /\ encoded => text = encode_base64url(data).value
                            /\ decode_base64(encode_base64(data).value) \in {Some(data), NullOpt}
            BY DEF DecodeIsBitSlicing
        <2>1. data \in Seq(Byte) /\ text \in Seq(Byte) /\ encoded \in BOOLEAN
            BY DEF CodecInv, CodecTypes
        <2>2. Returned = decode_base64(text) BY DEF LoopInv
        <2>3. decode_base64url(text) = decode_base64(text)
            <3>1. Base64UrlValues = Base64Values BY DEF Base64UrlValues, Base64Values, from_base64
            <3> QED BY <3>1 DEF decode_base64url, decode_base64
        <2>4. encoded => text = encode_base64url(data).value BY <2>1 DEF LoopInv
        <2>5. decode_base64(encode_base64(data).value) \in {Some(data), NullOpt}
            BY <2>1, StandardReadsOrRefuses
        <2> QED BY <2>1, <2>2, <2>3, <2>4, <2>5, DecodesAs
    <1>2. CodecInv /\ CodecInv' /\ LoopInv /\ [CodecNext]_codecVars => LoopInv' BY LoopStep
    <1> QED BY <1>1, <1>2, LoopStarts, CodecInvariant, PTL DEF CodecSpec
==============================================================================
