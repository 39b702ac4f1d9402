------------------------- MODULE JsonSerializerProof -------------------------
(***************************************************************************)
(* dump_escaped never writes past the end of string_buffer, for every size *)
(* of at least 16 bytes, every string, mode and error handler.             *)
(***************************************************************************)
EXTENDS JsonSerializer, SequenceTheorems, FiniteSetTheorems, TLAPS

-----------------------------------------------------------------------------
(* The invariant *)

\* A text, whatever its elements are.
IsText(t) == t \in Seq({t[i] : i \in DOMAIN t})

\* The states of decode, and how many bytes of a code point lie behind each
\* at most.
States == {0, 2, 3, 4, 5, 6, 7, 8}
Behind(state) == IF state = 0 THEN 0 ELSE IF state = 2 THEN 3 ELSE IF state = 3 THEN 2 ELSE 1

\* After an accepted code point 13 bytes are left; since then the buffer has
\* grown by the bytes of the unfinished code point, and not at all when they
\* will be escaped.
BufferInv ==
    /\ DOMAIN esc = {"s", "i", "state", "codepoint", "buffer", "accepted", "undumped", "peak"}
    /\ IsText(esc.buffer) /\ esc.s \in Seq(0..255) /\ esc.i \in Nat \ {0}
    /\ esc.state \in States /\ esc.codepoint \in Int
    /\ esc.undumped \in 0..Behind(esc.state)
    /\ esc.accepted \in 0..(BufferSize - 13)
    /\ Len(esc.buffer) = esc.accepted + (IF call.ensure_ascii THEN 0 ELSE esc.undumped)
    /\ esc.peak \in 0..BufferSize

\* S holds, with a value, the values in it; its strings and names are
\* std::strings, and a std::map lists the names it has.
IsClosed(S) ==
    \A v \in S :
        /\ v[1] = "string" => v[2] \in Seq(0..255)
        /\ v[1] = "array" => v[2] \in Seq(S)
        /\ v[1] = "object" =>
              /\ \A k \in DOMAIN v[2] : k \in Seq(0..255) /\ v[2][k] \in S
              /\ IsFiniteSet(DOMAIN v[2])
              /\ \A i \in DOMAIN KeysInOrder(v[2]) : KeysInOrder(v[2])[i] \in DOMAIN v[2]

\* The items of todo: what dump hands to itself is a value of S, what it
\* hands to dump_escaped a sequence of bytes, in the parts of a loop too.
IsItem(S, x) ==
    /\ x[1] \in {"chars", "indent", "string", "value"}
    /\ x[1] = "string" => x[2] \in Seq(0..255)
    /\ x[1] = "value" => x[2] \in S

IsLoop(S, x) ==
    /\ x[1] = "loop" /\ IsText(x[2]) /\ x[3] \in 1..Len(x[2])
    /\ \A j \in 1..Len(x[2]) : IsText(x[2][j]) /\ \A m \in 1..Len(x[2][j]) : IsItem(S, x[2][j][m])

AreItems(S, t) == IsText(t) /\ \A k \in 1..Len(t) : IsItem(S, t[k])

AreTasks(S, t) == IsText(t) /\ \A k \in 1..Len(t) : IsItem(S, t[k]) \/ IsLoop(S, t[k])

-----------------------------------------------------------------------------
(* Texts *)

\* A sequence over any set is a text.
LEMMA SeqIsText ==
    ASSUME NEW S, NEW t \in Seq(S)
    PROVE  IsText(t) /\ Len(t) \in Nat /\ DOMAIN t = 1..Len(t)
    <1>1. Len(t) \in Nat /\ DOMAIN t = 1..Len(t) OBVIOUS
    <1>2. \A i \in 1..Len(t) : t[i] \in {t[k] : k \in DOMAIN t} BY <1>1
    <1> QED BY <1>1, <1>2 DEF IsText

LEMMA TextLength ==
    ASSUME NEW t, IsText(t)
    PROVE  Len(t) \in Nat
    BY DEF IsText

\* Texts put together.
LEMMA Joined ==
    ASSUME NEW a, NEW b, IsText(a), IsText(b)
    PROVE  IsText(a \o b) /\ Len(a \o b) = Len(a) + Len(b)
    <1> DEFINE A == {a[i] : i \in DOMAIN a}
               B == {b[i] : i \in DOMAIN b}
    <1>1. a \in Seq(A) /\ b \in Seq(B) BY DEF IsText
    <1> HIDE DEF A, B
    <1>2. a \in Seq(A \cup B) /\ b \in Seq(A \cup B) BY <1>1
    <1>3. a \o b \in Seq(A \cup B) /\ Len(a \o b) = Len(a) + Len(b) BY <1>2
    <1> QED BY <1>3, SeqIsText

\* The beginning of a text.
LEMMA Prefix ==
    ASSUME NEW a, IsText(a), NEW n \in 0..Len(a)
    PROVE  IsText(SubSeq(a, 1, n)) /\ Len(SubSeq(a, 1, n)) = n
    <1> DEFINE A == {a[i] : i \in DOMAIN a}
    <1>1. a \in Seq(A) BY DEF IsText
    <1> HIDE DEF A
    <1>2. SubSeq(a, 1, n) \in Seq(A) /\ Len(SubSeq(a, 1, n)) = n BY <1>1
    <1> QED BY <1>2, SeqIsText

LEMMA Short ==
    /\ IsText(<<>>) /\ Len(<<>>) = 0
    /\ \A x : IsText(<<x>>) /\ Len(<<x>>) = 1
    /\ \A x, y : IsText(<<x, y>>) /\ Len(<<x, y>>) = 2
    /\ \A x, y, z : IsText(<<x, y, z>>) /\ Len(<<x, y, z>>) = 3
    <1>1. <<>> \in Seq({}) /\ Len(<<>>) = 0 OBVIOUS
    <1>2. ASSUME NEW x PROVE IsText(<<x>>) /\ Len(<<x>>) = 1
        <2>1. <<x>> \in Seq({x}) /\ Len(<<x>>) = 1 OBVIOUS
        <2> QED BY <2>1, SeqIsText
    <1>3. ASSUME NEW x, NEW y PROVE IsText(<<x, y>>) /\ Len(<<x, y>>) = 2
        <2>1. <<x, y>> \in Seq({x, y}) /\ Len(<<x, y>>) = 2 OBVIOUS
        <2> QED BY <2>1, SeqIsText
    <1>4. ASSUME NEW x, NEW y, NEW z PROVE IsText(<<x, y, z>>) /\ Len(<<x, y, z>>) = 3
        <2>1. <<x, y, z>> \in Seq({x, y, z}) /\ Len(<<x, y, z>>) = 3 OBVIOUS
        <2> QED BY <2>1, SeqIsText
    <1> QED BY <1>1, <1>2, <1>3, <1>4, SeqIsText

\* An escape \uxxxx has six characters.
LEMMA UnicodeEscapeLength ==
    ASSUME NEW n
    PROVE  IsText(UnicodeEscape(n)) /\ Len(UnicodeEscape(n)) = 6
    <1> DEFINE hex == [i \in 1..4 |-> HexDigitOf((n \div 16^(4 - i)) % 16)]
               H == {hex[i] : i \in 1..4}
    <1>1. hex \in [1..4 -> H] OBVIOUS
    <1>2. UnicodeEscape(n) = <<92, 117>> \o hex BY DEF UnicodeEscape
    <1> HIDE DEF hex, H
    <1>3. hex \in Seq(H)
        <2>1. [1..4 -> H] \in {[1..k -> H] : k \in Nat} OBVIOUS
        <2> QED BY <1>1, <2>1, SeqDef
    <1>4. IsText(hex) /\ Len(hex) = 4
        <2>1. DOMAIN hex = 1..4 /\ DOMAIN hex = 1..Len(hex) /\ Len(hex) \in Nat
            BY <1>1, <1>3, LenProperties
        <2> QED BY <1>3, <2>1, SeqIsText
    <1>5. IsText(<<92, 117>>) /\ Len(<<92, 117>>) = 2 BY Short
    <1>6. IsText(<<92, 117>> \o hex) /\ Len(<<92, 117>> \o hex) = Len(<<92, 117>>) + Len(hex)
        BY <1>4, <1>5, Joined, Zenon
    <1> QED BY <1>2, <1>4, <1>5, <1>6

\* What an accepted code point puts into the buffer: two escapes, 12
\* characters and a terminator, only with ensure_ascii.
LEMMA EscapeLength ==
    ASSUME NEW codepoint \in Int, NEW byte
    PROVE  LET text == Escape(codepoint, byte)
           IN  /\ IsText(text) /\ Len(text) \in {1, 2, 6, 12}
               /\ Reach(text) \in 1..13
               /\ ~call.ensure_ascii => Reach(text) <= 7
    <1> DEFINE text == Escape(codepoint, byte)
    <1>1. CASE codepoint \in DOMAIN ShortEscape
        <2>1. text = <<92, ShortEscape[codepoint]>> BY <1>1 DEF Escape
        <2>2. IsText(text) /\ Len(text) = 2 BY <2>1, Short
        <2> HIDE DEF text
        <2> QED BY <2>2 DEF Reach, text
    <1>2. CASE codepoint \notin DOMAIN ShortEscape /\ Escaped(codepoint) /\ codepoint <= 65535
        <2>1. text = UnicodeEscape(codepoint) BY <1>2 DEF Escape
        <2>2. IsText(text) /\ Len(text) = 6 BY <2>1, UnicodeEscapeLength
        <2> HIDE DEF text
        <2> QED BY <2>2 DEF Reach, text
    <1>3. CASE codepoint \notin DOMAIN ShortEscape /\ Escaped(codepoint) /\ ~(codepoint <= 65535)
        <2>1. text = Surrogates(codepoint) BY <1>3 DEF Escape
        <2> DEFINE high == UnicodeEscape(55232 + (codepoint \div 1024))
                   low == UnicodeEscape(56320 + (codepoint % 1024))
        <2>2. IsText(high) /\ Len(high) = 6 /\ IsText(low) /\ Len(low) = 6 BY UnicodeEscapeLength
        <2>3. text = high \o low BY <2>1 DEF Surrogates
        <2> HIDE DEF high, low, text
        <2>4. IsText(high \o low) /\ Len(high \o low) = Len(high) + Len(low) BY <2>2, Joined, Zenon
        <2>5. IsText(text) /\ Len(text) = 12 BY <2>2, <2>3, <2>4
        <2>6. call.ensure_ascii BY <1>3 DEF Escaped
        <2> HIDE DEF text
        <2> QED BY <2>5, <2>6 DEF Reach, text
    <1>4. CASE codepoint \notin DOMAIN ShortEscape /\ ~Escaped(codepoint)
        <2>1. text = <<byte>> BY <1>4 DEF Escape
        <2>2. IsText(text) /\ Len(text) = 1 BY <2>1, Short
        <2> HIDE DEF text
        <2> QED BY <2>2 DEF Reach, text
    <1> QED BY <1>1, <1>2, <1>3, <1>4

LEMMA ReplacementLength ==
    IsText(Replacement) /\ Len(Replacement) \in Nat /\ Len(Replacement) <= 6
    <1>1. CASE call.ensure_ascii
        <2>1. Replacement = UnicodeEscape(65533) BY <1>1 DEF Replacement
        <2>2. IsText(Replacement) /\ Len(Replacement) = 6 BY <2>1, UnicodeEscapeLength
        <2> QED BY <2>2
    <1>2. CASE ~call.ensure_ascii
        <2>1. Replacement = <<239, 191, 189>> BY <1>2 DEF Replacement
        <2>2. IsText(Replacement) /\ Len(Replacement) = 3 BY <2>1, Short
        <2> QED BY <2>2
    <1> QED BY <1>1, <1>2

\* The buffer after a store has 13 bytes left.
LEMMA StoreLeavesRoom ==
    ASSUME IsText(esc.buffer), NEW n \in 0..Len(esc.buffer), NEW text, IsText(text)
    PROVE  /\ IsText(Store(n, text)[1])
           /\ Len(Store(n, text)[1]) \in 0..(BufferSize - 13)
           /\ Len(Store(n, text)[1]) <= n + Len(text)
           /\ Len(Store(n, text)[2]) \in 0..(n + Len(text))
    <1> DEFINE filled == SubSeq(esc.buffer, 1, n) \o text
    <1>1. IsText(filled) /\ Len(filled) = n + Len(text) BY Prefix, Joined
    <1>2. Store(n, text) = IF EnoughLeft(Len(filled)) THEN <<filled, <<>>>> ELSE <<<<>>, filled>>
        BY DEF Store
    <1> HIDE DEF filled
    <1>3. n \in Nat /\ Len(text) \in Nat /\ BufferSize \in Nat /\ BufferSize >= 16
        BY SerializerAssumption, TextLength
    <1>4. CASE EnoughLeft(Len(filled))
        <2>1. Store(n, text)[1] = filled /\ Store(n, text)[2] = <<>> BY <1>2, <1>4
        <2>2. BufferSize - Len(filled) >= 13 BY <1>4 DEF EnoughLeft
        <2> QED BY <1>1, <1>3, <2>1, <2>2, Short
    <1>5. CASE ~EnoughLeft(Len(filled))
        <2>1. Store(n, text)[1] = <<>> /\ Store(n, text)[2] = filled BY <1>2, <1>5
        <2> QED BY <1>1, <1>3, <2>1, Short
    <1> QED BY <1>4, <1>5

-----------------------------------------------------------------------------
(* decode *)

LEMMA ByteTypes ==
    ASSUME NEW b
    PROVE  ByteType(b) \in 0..11
    BY DEF ByteType

\* The bytes behind a state bound those behind the next.
LEMMA DecodeStates ==
    ASSUME NEW state \in States, NEW byte
    PROVE  LET next == decode(state, byte)
           IN  /\ next \in States \cup {1}
               /\ next \notin {0, 1} => Behind(state) + 1 <= Behind(next)
    <1> DEFINE t == ByteType(byte)
               c == Continuation(state)
    <1>1. t \in 0..11 BY ByteTypes
    <1> HIDE DEF t
    <1>2. CASE state = 0
        <2>1. decode(state, byte) = FirstState[t] BY <1>2 DEF decode, UTF8_ACCEPT, t
        <2>2. FirstState[t] \in States \cup {1}
            BY <1>1 DEF FirstState, UTF8_ACCEPT, UTF8_REJECT, States
        <2> QED BY <1>2, <2>1, <2>2 DEF Behind, States
    <1>3. CASE state # 0
        <2>1. decode(state, byte) = IF t \in c.types THEN c.next ELSE 1
            BY <1>3 DEF decode, UTF8_ACCEPT, UTF8_REJECT, t
        <2>2. c.next = IF state = 2 THEN 0 ELSE IF state \in {3, 4, 5} THEN 2 ELSE 3
            <3>1. state \in {2, 3, 4, 5, 6, 7, 8} BY <1>3 DEF States
            <3>2. CASE state = 2 BY <3>2 DEF Continuation, UTF8_ACCEPT
            <3>3. CASE state = 3 BY <3>3 DEF Continuation, UTF8_ACCEPT
            <3>4. CASE state = 4 BY <3>4 DEF Continuation, UTF8_ACCEPT
            <3>5. CASE state = 5 BY <3>5 DEF Continuation, UTF8_ACCEPT
            <3>6. CASE state = 6 BY <3>6 DEF Continuation, UTF8_ACCEPT
            <3>7. CASE state = 7 BY <3>7 DEF Continuation, UTF8_ACCEPT
            <3>8. CASE state = 8 BY <3>8 DEF Continuation, UTF8_ACCEPT
            <3> QED BY <3>1, <3>2, <3>3, <3>4, <3>5, <3>6, <3>7, <3>8
        <2> HIDE DEF c
        <2> QED BY <1>3, <2>1, <2>2 DEF Behind, States
    <1> QED BY <1>2, <1>3

LEMMA PointsAreNumbers ==
    ASSUME NEW state, NEW codep \in Int, NEW byte \in 0..255
    PROVE  DecodedPoint(state, codep, byte) \in Int
    <1>1. \A m \in {2, 4, 8, 16, 32, 64, 128, 256} : byte % m \in Int OBVIOUS
    <1>2. \A t \in 0..7 : FirstModulus[t + 1] \in {2, 4, 8, 16, 32, 64, 128, 256}
        BY DEF FirstModulus
    <1>3. ByteType(byte) < 8 => ByteType(byte) \in 0..7 BY ByteTypes
    <1>4. ByteType(byte) < 8 => byte % FirstModulus[ByteType(byte) + 1] \in Int BY <1>1, <1>2, <1>3
    <1>5. (codep * 64) + (byte % 64) \in Int OBVIOUS
    <1> QED BY <1>4, <1>5 DEF DecodedPoint

LEMMA Peaks ==
    /\ \A a, b \in 0..BufferSize : Max({a, b}) \in 0..BufferSize
    /\ \A a, b, c \in 0..BufferSize : Max({a, b, c}) \in 0..BufferSize
    <1>1. ASSUME NEW S \in SUBSET (0..BufferSize), \E x \in S : \A y \in S : x >= y
          PROVE  Max(S) \in 0..BufferSize
        <2>1. Max(S) \in S BY <1>1 DEF Max
        <2> QED BY <2>1
    <1>2. ASSUME NEW a \in 0..BufferSize, NEW b \in 0..BufferSize
          PROVE  \E x \in {a, b} : \A y \in {a, b} : x >= y
        BY SerializerAssumption
    <1>3. ASSUME NEW a \in 0..BufferSize, NEW b \in 0..BufferSize, NEW c \in 0..BufferSize
          PROVE  \E x \in {a, b, c} : \A y \in {a, b, c} : x >= y
        BY SerializerAssumption
    <1> QED BY <1>1, <1>2, <1>3

-----------------------------------------------------------------------------
(* The steps *)

\* The bounds that every step starts from.
LEMMA Bounds ==
    ASSUME BufferInv
    PROVE  /\ BufferSize \in Nat /\ BufferSize >= 16
           /\ Len(esc.buffer) \in Nat /\ esc.accepted \in 0..Len(esc.buffer)
           /\ esc.undumped \in 0..3
           /\ call.ensure_ascii => Len(esc.buffer) <= BufferSize - 13
           /\ Len(esc.buffer) <= BufferSize - 10
           /\ esc.state = 0 => Len(esc.buffer) = esc.accepted /\ esc.undumped = 0
    BY SerializerAssumption DEF BufferInv, Behind, States

\* b more bytes fit where k are left.
LEMMA Fits ==
    ASSUME NEW a \in Nat, NEW b \in Nat, NEW k \in Nat, a <= BufferSize - k, b <= k
    PROVE  a + b \in 0..BufferSize
    BY SerializerAssumption

LEMMA ByteIsByte ==
    ASSUME BufferInv, AtByte
    PROVE  esc.s[esc.i] \in 0..255
    <1>1. esc.s \in Seq(0..255) /\ esc.i \in Nat \ {0} BY DEF BufferInv
    <1>2. esc.i \in 1..Len(esc.s) BY <1>1 DEF AtByte
    <1> QED BY <1>1, <1>2, ElementOfSeq

LEMMA AcceptKeepsRoom ==
    ASSUME BufferInv, AcceptByte
    PROVE  BufferInv'
    <1> DEFINE byte == esc.s[esc.i]
               codepoint == DecodedPoint(esc.state, esc.codepoint, byte)
               text == Escape(codepoint, byte)
               stored == Store(Len(esc.buffer), text)
               reached == Len(esc.buffer) + Reach(text)
    <1>1. codepoint \in Int
        BY ByteIsByte, PointsAreNumbers DEF BufferInv, AcceptByte
    <1>2. /\ esc' = [esc EXCEPT !.i = @ + 1, !.state = UTF8_ACCEPT, !.codepoint = codepoint,
                                !.buffer = stored[1], !.accepted = Len(stored[1]), !.undumped = 0,
                                !.peak = Max({@, reached})]
          /\ call' = call
        BY DEF AcceptByte, SameString
    <1> HIDE DEF codepoint
    <1>3. IsText(text) /\ Reach(text) \in 1..13 /\ (~call.ensure_ascii => Reach(text) <= 7)
        BY <1>1, EscapeLength
    <1> HIDE DEF text
    <1>4. IsText(stored[1]) /\ Len(stored[1]) \in 0..(BufferSize - 13)
        <2>1. Len(esc.buffer) \in 0..Len(esc.buffer) BY Bounds
        <2> QED BY <1>3, <2>1, StoreLeavesRoom DEF BufferInv
    <1> HIDE DEF stored
    <1>5. reached \in 0..BufferSize
        <2>1. CASE call.ensure_ascii
            <3>1. Len(esc.buffer) \in Nat /\ Len(esc.buffer) <= BufferSize - 13 BY <2>1, Bounds
            <3>2. Reach(text) \in Nat /\ Reach(text) <= 13 BY <1>3
            <3> QED BY <3>1, <3>2, Fits
        <2>2. CASE ~call.ensure_ascii
            <3>1. Len(esc.buffer) \in Nat /\ Len(esc.buffer) <= BufferSize - 10 BY Bounds
            <3>2. Reach(text) \in Nat /\ Reach(text) <= 10 BY <1>3, <2>2
            <3> QED BY <3>1, <3>2, Fits
        <2> QED BY <2>1, <2>2
    <1> HIDE DEF reached
    <1>6. Max({esc.peak, reached}) \in 0..BufferSize BY <1>5, Peaks DEF BufferInv
    <1>7. /\ DOMAIN esc' = DOMAIN esc /\ esc'.s = esc.s /\ esc'.i = esc.i + 1 /\ esc'.state = 0
          /\ esc'.codepoint = codepoint /\ esc'.buffer = stored[1] /\ esc'.accepted = Len(stored[1])
          /\ esc'.undumped = 0 /\ esc'.peak = Max({esc.peak, reached})
        BY <1>2 DEF BufferInv, UTF8_ACCEPT
    <1>8. esc.i + 1 \in Nat \ {0} BY DEF BufferInv
    <1> QED BY <1>1, <1>2, <1>4, <1>6, <1>7, <1>8 DEF BufferInv, Behind, States

LEMMA RejectKeepsRoom ==
    ASSUME BufferInv, RejectByte
    PROVE  BufferInv'
    <1> DEFINE codepoint == DecodedPoint(esc.state, esc.codepoint, esc.s[esc.i])
               stored == IF call.error_handler = "replace" THEN Store(esc.accepted, Replacement)
                         ELSE <<SubSeq(esc.buffer, 1, esc.accepted), <<>>>>
    <1>1. codepoint \in Int
        BY ByteIsByte, PointsAreNumbers DEF BufferInv, RejectByte
    <1>2. CASE call.error_handler = "strict"
        BY <1>2 DEF RejectByte, SameString, BufferInv
    <1>3. CASE call.error_handler # "strict"
        <2>1. /\ esc' = [esc EXCEPT !.i = AfterReject, !.state = UTF8_ACCEPT,
                                    !.codepoint = codepoint,
                                    !.buffer = stored[1], !.accepted = Len(stored[1]),
                                    !.undumped = 0,
                                    !.peak = Max({@, Len(stored[1]), Len(stored[2])})]
              /\ call' = call
            BY <1>3 DEF RejectByte, SameString
        <2> HIDE DEF codepoint
        <2>2. /\ IsText(stored[1]) /\ Len(stored[1]) \in 0..(BufferSize - 13)
              /\ Len(stored[2]) \in 0..BufferSize
            <3>1. CASE call.error_handler = "replace"
                <4>1. IsText(Replacement) /\ Len(Replacement) \in Nat /\ Len(Replacement) <= 6
                    BY ReplacementLength
                <4>2. stored = Store(esc.accepted, Replacement) BY <3>1
                <4> HIDE DEF stored
                <4>3. /\ IsText(stored[1]) /\ Len(stored[1]) \in 0..(BufferSize - 13)
                      /\ Len(stored[2]) \in 0..(esc.accepted + Len(Replacement))
                    BY <4>1, <4>2, Bounds, StoreLeavesRoom DEF BufferInv
                <4>4. esc.accepted \in Nat /\ esc.accepted <= BufferSize - 13 BY Bounds DEF BufferInv
                <4>5. esc.accepted + Len(Replacement) \in 0..BufferSize
                    <5>1. Len(Replacement) \in Nat /\ Len(Replacement) <= 13 BY <4>1
                    <5> QED BY <4>4, <5>1, Fits
                <4>6. \A a, b \in Int : a \in 0..b /\ b \in 0..BufferSize => a \in 0..BufferSize
                    BY SerializerAssumption
                <4>7. Len(stored[2]) \in 0..BufferSize BY <4>3, <4>5, <4>6
                <4> QED BY <4>3, <4>7
            <3>2. CASE call.error_handler # "replace"
                <4>1. stored = <<SubSeq(esc.buffer, 1, esc.accepted), <<>>>> BY <3>2
                <4> HIDE DEF stored
                <4>2. stored[1] = SubSeq(esc.buffer, 1, esc.accepted) /\ stored[2] = <<>> BY <4>1
                <4>3. IsText(stored[1]) /\ Len(stored[1]) = esc.accepted
                    <5>1. IsText(esc.buffer) /\ esc.accepted \in 0..Len(esc.buffer) BY Bounds DEF BufferInv
                    <5> QED BY <4>2, <5>1, Prefix
                <4>4. Len(stored[2]) = 0 BY <4>2, Short
                <4>5. esc.accepted \in 0..(BufferSize - 13) /\ BufferSize \in Nat
                    BY Bounds DEF BufferInv
                <4> QED BY <4>3, <4>4, <4>5
            <3> QED BY <3>1, <3>2
        <2> HIDE DEF stored
        <2>3. Max({esc.peak, Len(stored[1]), Len(stored[2])}) \in 0..BufferSize
            <3>1. Len(stored[1]) \in 0..BufferSize BY <2>2, SerializerAssumption
            <3> QED BY <2>2, <3>1, Peaks DEF BufferInv
        <2>4. /\ DOMAIN esc' = DOMAIN esc /\ esc'.s = esc.s /\ esc'.i = AfterReject /\ esc'.state = 0
              /\ esc'.codepoint = codepoint /\ esc'.buffer = stored[1]
              /\ esc'.accepted = Len(stored[1]) /\ esc'.undumped = 0
              /\ esc'.peak = Max({esc.peak, Len(stored[1]), Len(stored[2])})
            BY <2>1 DEF BufferInv, UTF8_ACCEPT
        <2>5. AfterReject \in Nat \ {0} BY DEF BufferInv, AfterReject
        <2> QED BY <1>1, <2>1, <2>2, <2>3, <2>4, <2>5 DEF BufferInv, Behind, States
    <1> QED BY <1>2, <1>3

LEMMA IncompleteKeepsRoom ==
    ASSUME BufferInv, IncompleteByte
    PROVE  BufferInv'
    <1> DEFINE byte == esc.s[esc.i]
               codepoint == DecodedPoint(esc.state, esc.codepoint, byte)
               text == IF call.ensure_ascii THEN <<>> ELSE <<byte>>
               grown == esc.buffer \o text
    <1>1. codepoint \in Int
        BY ByteIsByte, PointsAreNumbers DEF BufferInv, IncompleteByte
    <1>2. /\ esc' = [esc EXCEPT !.i = @ + 1, !.state = NextState, !.codepoint = codepoint,
                                !.buffer = grown, !.undumped = @ + 1,
                                !.peak = Max({@, Len(grown)})]
          /\ call' = call /\ NextState \notin {0, 1}
        BY DEF IncompleteByte, SameString, UTF8_ACCEPT, UTF8_REJECT
    <1>3. NextState \in States /\ Behind(esc.state) + 1 <= Behind(NextState)
        BY <1>2, DecodeStates DEF NextState, BufferInv
    <1>4. IsText(text) /\ Len(text) = IF call.ensure_ascii THEN 0 ELSE 1 BY Short
    <1> HIDE DEF codepoint, text
    <1>5. IsText(grown) /\ Len(grown) = Len(esc.buffer) + Len(text)
        BY <1>4, Joined, Zenon DEF BufferInv
    <1> HIDE DEF grown
    <1>6. esc.undumped + 1 \in 0..Behind(NextState)
        <2>1. Behind(NextState) \in Nat /\ Behind(esc.state) \in Nat BY DEF Behind
        <2> QED BY <1>3, <2>1 DEF BufferInv
    <1>7. Len(grown) \in 0..BufferSize
        <2>1. Len(esc.buffer) \in Nat /\ Len(esc.buffer) <= BufferSize - 10 BY Bounds
        <2>2. Len(text) \in Nat /\ Len(text) <= 10 BY <1>4
        <2> QED BY <1>5, <2>1, <2>2, Fits
    <1>8. Max({esc.peak, Len(grown)}) \in 0..BufferSize BY <1>7, Peaks DEF BufferInv
    <1>9. /\ DOMAIN esc' = DOMAIN esc /\ esc'.s = esc.s /\ esc'.i = esc.i + 1
          /\ esc'.state = NextState /\ esc'.codepoint = codepoint /\ esc'.buffer = grown
          /\ esc'.accepted = esc.accepted /\ esc'.undumped = esc.undumped + 1
          /\ esc'.peak = Max({esc.peak, Len(grown)})
        BY <1>2 DEF BufferInv
    <1>10. esc.i + 1 \in Nat \ {0} BY DEF BufferInv
    <1>11. Len(grown) = esc.accepted + (IF call.ensure_ascii THEN 0 ELSE esc.undumped + 1)
        BY <1>4, <1>5 DEF BufferInv
    <1> QED BY <1>1, <1>2, <1>3, <1>5, <1>6, <1>8, <1>9, <1>10, <1>11 DEF BufferInv

\* A string begins with an empty buffer, as the call of dump does.
LEMMA EmptyBuffer ==
    ASSUME NEW s \in Seq(0..255)
    PROVE  LET e == [NoString EXCEPT !.s = s]
           IN  /\ e.s = s /\ e.i = 1 /\ e.state = 0 /\ e.codepoint = 0 /\ e.buffer = <<>>
               /\ e.accepted = 0 /\ e.undumped = 0 /\ e.peak = 0
               /\ DOMAIN e = {"s", "i", "state", "codepoint", "buffer", "accepted", "undumped", "peak"}
    BY DEF NoString

LEMMA FreshBuffer ==
    ASSUME NEW s \in Seq(0..255)
    PROVE  /\ esc = [NoString EXCEPT !.s = s] => BufferInv
           /\ esc' = [NoString EXCEPT !.s = s] => BufferInv'
    <1>1. BufferSize \in Nat /\ BufferSize >= 16 BY SerializerAssumption
    <1>2. ASSUME esc = [NoString EXCEPT !.s = s] PROVE BufferInv
        BY <1>1, <1>2, EmptyBuffer, Short DEF BufferInv, Behind, States
    <1>3. ASSUME esc' = [NoString EXCEPT !.s = s] PROVE BufferInv'
        BY <1>1, <1>3, EmptyBuffer, Short DEF BufferInv, Behind, States
    <1> QED BY <1>2, <1>3

-----------------------------------------------------------------------------
(* What dump has still to write *)

LEMMA Elements ==
    ASSUME NEW a, NEW b, IsText(a), IsText(b)
    PROVE  \A k \in 1..Len(a \o b) :
              \/ k \in 1..Len(a) /\ (a \o b)[k] = a[k]
              \/ \E m \in 1..Len(b) : (a \o b)[k] = b[m]
    <1> DEFINE A == {a[i] : i \in DOMAIN a}
               B == {b[i] : i \in DOMAIN b}
    <1>1. a \in Seq(A) /\ b \in Seq(B) BY DEF IsText
    <1> HIDE DEF A, B
    <1>2. a \in Seq(A \cup B) /\ b \in Seq(A \cup B) BY <1>1
    <1>3. /\ Len(a) \in Nat /\ Len(b) \in Nat /\ Len(a \o b) = Len(a) + Len(b)
          /\ \A k \in 1..Len(a) : (a \o b)[k] = a[k]
          /\ \A k \in (Len(a) + 1)..(Len(a) + Len(b)) : (a \o b)[k] = b[k - Len(a)]
        BY <1>2
    <1>4. SUFFICES ASSUME NEW k \in 1..Len(a \o b), k \notin 1..Len(a)
                   PROVE  \E m \in 1..Len(b) : (a \o b)[k] = b[m]
        BY <1>3
    <1>5. k \in (Len(a) + 1)..(Len(a) + Len(b)) /\ k - Len(a) \in 1..Len(b) BY <1>3, <1>4
    <1> QED BY <1>3, <1>5

LEMMA TasksJoined ==
    ASSUME NEW S, NEW a, NEW b, AreTasks(S, a), AreTasks(S, b)
    PROVE  AreTasks(S, a \o b)
    <1>1. IsText(a) /\ IsText(b) BY DEF AreTasks
    <1>2. IsText(a \o b) BY <1>1, Joined
    <1> QED BY <1>1, <1>2, Elements DEF AreTasks

LEMMA ItemsJoined ==
    ASSUME NEW S, NEW a, NEW b, AreItems(S, a), AreItems(S, b)
    PROVE  AreItems(S, a \o b)
    <1>1. IsText(a) /\ IsText(b) BY DEF AreItems
    <1>2. IsText(a \o b) BY <1>1, Joined
    <1> QED BY <1>1, <1>2, Elements DEF AreItems

LEMMA ItemsAreTasks ==
    ASSUME NEW S, NEW t, AreItems(S, t)
    PROVE  AreTasks(S, t)
    BY DEF AreItems, AreTasks

\* Short texts.
LEMMA Singles ==
    ASSUME NEW x
    PROVE  IsText(<<x>>) /\ Len(<<x>>) = 1 /\ <<x>>[1] = x
    <1>1. <<x>> \in Seq({x}) OBVIOUS
    <1> QED BY <1>1, SeqIsText

LEMMA Pairs ==
    ASSUME NEW x, NEW y
    PROVE  IsText(<<x, y>>) /\ Len(<<x, y>>) = 2 /\ <<x, y>>[1] = x /\ <<x, y>>[2] = y
    <1>1. <<x, y>> \in Seq({x, y}) OBVIOUS
    <1> QED BY <1>1, SeqIsText

LEMMA Triples ==
    ASSUME NEW x, NEW y, NEW z
    PROVE  /\ IsText(<<x, y, z>>) /\ Len(<<x, y, z>>) = 3
           /\ <<x, y, z>>[1] = x /\ <<x, y, z>>[2] = y /\ <<x, y, z>>[3] = z
    <1>1. <<x, y, z>> \in Seq({x, y, z}) OBVIOUS
    <1> QED BY <1>1, SeqIsText

LEMMA TaskTuples ==
    ASSUME NEW S
    PROVE  /\ AreTasks(S, <<>>)
           /\ \A x : IsItem(S, x) \/ IsLoop(S, x) => AreTasks(S, <<x>>)
           /\ \A x, y : (IsItem(S, x) \/ IsLoop(S, x)) /\ (IsItem(S, y) \/ IsLoop(S, y))
                            => AreTasks(S, <<x, y>>)
           /\ \A x, y, z : IsItem(S, x) /\ IsItem(S, y) /\ IsItem(S, z) => AreTasks(S, <<x, y, z>>)
    <1>1. AreTasks(S, <<>>)
        <2>1. <<>> \in Seq({}) /\ Len(<<>>) = 0 OBVIOUS
        <2>2. IsText(<<>>) BY <2>1, SeqIsText
        <2> QED BY <2>1, <2>2 DEF AreTasks
    <1>2. ASSUME NEW x, IsItem(S, x) \/ IsLoop(S, x) PROVE AreTasks(S, <<x>>)
        <2>1. \A k \in 1..1 : k = 1 OBVIOUS
        <2> QED BY <1>2, <2>1, Singles DEF AreTasks
    <1>3. ASSUME NEW x, NEW y, IsItem(S, x) \/ IsLoop(S, x), IsItem(S, y) \/ IsLoop(S, y)
          PROVE  AreTasks(S, <<x, y>>)
        <2>1. \A k \in 1..2 : k = 1 \/ k = 2 OBVIOUS
        <2> QED BY <1>3, <2>1, Pairs DEF AreTasks
    <1>4. ASSUME NEW x, NEW y, NEW z, IsItem(S, x), IsItem(S, y), IsItem(S, z)
          PROVE  AreTasks(S, <<x, y, z>>)
        <2>1. \A k \in 1..3 : k = 1 \/ k = 2 \/ k = 3 OBVIOUS
        <2> QED BY <1>4, <2>1, Triples DEF AreTasks
    <1> QED BY <1>1, <1>2, <1>3, <1>4

LEMMA Kinds ==
    ASSUME NEW S
    PROVE  /\ \A text : IsItem(S, Chars(text))
           /\ \A n : IsItem(S, Indent(n))
           /\ \A v \in S : \A n : IsItem(S, Value(v, n))
           /\ \A s \in Seq(0..255) : IsItem(S, <<"string", s>>)
    BY DEF IsItem, Chars, Indent, Value

\* A function on 1..n is a text.
LEMMA FunctionIsText ==
    ASSUME NEW n \in Nat, NEW f, f = [i \in 1..n |-> f[i]]
    PROVE  IsText(f) /\ Len(f) = n
    <1> DEFINE A == {f[i] : i \in 1..n}
    <1>1. DOMAIN f = 1..n OBVIOUS
    <1>2. f \in [1..n -> A] OBVIOUS
    <1> HIDE DEF A
    <1>3. f \in Seq(A) BY <1>2, SeqDef
    <1>4. Len(f) = n BY <1>1, <1>3, LenProperties
    <1> QED BY <1>3, <1>4, SeqIsText

\* The items of a container, given those of its parts.
LEMMA LayoutIs ==
    ASSUME NEW S, NEW open, NEW close, NEW indent, NEW parts, IsText(parts), Len(parts) > 0,
           \A j \in 1..Len(parts) : AreItems(S, parts[j])
    PROVE  AreTasks(S, Layout(open, parts, close, indent))
    <1>1. 1 \in 1..Len(parts) BY TextLength
    <1>2. IsLoop(S, Loop(parts, 1, close, indent)) BY <1>1 DEF IsLoop, Loop, AreItems
    <1>3. \A text : IsItem(S, Chars(text)) BY Kinds
    <1> QED BY <1>2, <1>3, TaskTuples DEF Layout

LEMMA IterationIs ==
    ASSUME NEW S, NEW x, IsLoop(S, x)
    PROVE  AreTasks(S, Iteration(x[2], x[3], x[4], x[5]))
    <1> DEFINE parts == x[2]
               i == x[3]
               first == IF call.pretty_print THEN << Indent(x[5] + call.indent_step) >> ELSE <<>>
               comma == Chars(IF call.pretty_print THEN <<Comma, Newline>> ELSE <<Comma>>)
               rest == Loop(parts, i + 1, x[4], x[5])
               last == IF i < Len(parts) THEN << comma, rest >>
                       ELSE IF call.pretty_print
                       THEN << Chars(<<Newline>>), Indent(x[5]), Chars(<<x[4]>>) >>
                       ELSE << Chars(<<x[4]>>) >>
    <1>1. /\ IsText(parts) /\ i \in 1..Len(parts) /\ Len(parts) \in Nat
          /\ \A j \in 1..Len(parts) : AreItems(S, parts[j])
        BY TextLength DEF IsLoop, AreItems
    <1>2. Iteration(x[2], x[3], x[4], x[5]) = first \o parts[i] \o last BY DEF Iteration
    <1>3. (\A text : IsItem(S, Chars(text))) /\ (\A n : IsItem(S, Indent(n))) BY Kinds
    <1>4. AreTasks(S, first) BY <1>3, TaskTuples
    <1>5. AreTasks(S, parts[i]) BY <1>1, ItemsAreTasks
    <1>6. i < Len(parts) => IsLoop(S, rest)
        <2> SUFFICES ASSUME i < Len(parts) PROVE IsLoop(S, rest) OBVIOUS
        <2>1. i + 1 \in 1..Len(parts) BY <1>1
        <2> HIDE DEF parts, i
        <2> QED BY <1>1, <2>1 DEF IsLoop, Loop, AreItems
    <1>7. AreTasks(S, last)
        <2>1. CASE i < Len(parts)
            <3>1. last = << comma, rest >> BY <2>1
            <3>2. IsItem(S, comma) BY <1>3
            <3> HIDE DEF last, comma, rest
            <3> QED BY <1>6, <2>1, <3>1, <3>2, TaskTuples
        <2>2. CASE ~(i < Len(parts)) /\ call.pretty_print
            <3>1. last = << Chars(<<Newline>>), Indent(x[5]), Chars(<<x[4]>>) >> BY <2>2
            <3> HIDE DEF last
            <3> QED BY <1>3, <3>1, TaskTuples
        <2>3. CASE ~(i < Len(parts)) /\ ~call.pretty_print
            <3>1. last = << Chars(<<x[4]>>) >> BY <2>3
            <3> HIDE DEF last
            <3> QED BY <1>3, <3>1, TaskTuples
        <2> QED BY <2>1, <2>2, <2>3
    <1> HIDE DEF first, last
    <1> QED BY <1>2, <1>4, <1>5, <1>7, TasksJoined

\* What dump writes for a value.
LEMMA ItemsAre ==
    ASSUME NEW S, IsClosed(S), NEW v \in S, NEW indent
    PROVE  AreTasks(S, Items(v, indent))
    <1>1. \A text : AreTasks(S, << Chars(text) >>) /\ AreItems(S, << Chars(text) >>)
        <2>1. \A text : IsItem(S, Chars(text)) BY Kinds
        <2>2. \A k \in 1..1 : k = 1 OBVIOUS
        <2>3. \A x : IsItem(S, x) => AreItems(S, <<x>>) BY <2>2, Singles DEF AreItems
        <2> QED BY <2>1, <2>3, ItemsAreTasks
    <1>2. CASE Empty(v)
        <2>1. Items(v, indent) = << Chars(IF v[1] = "array" THEN <<91, 93>> ELSE <<123, 125>>) >>
            BY <1>2 DEF Items, Empty
        <2> QED BY <1>1, <2>1
    <1>3. CASE ~Empty(v) /\ v[1] = "array"
        <2> DEFINE elements == v[2]
                   n == Len(elements)
                   one(i) == Value(elements[i], indent + call.indent_step)
                   parts == [i \in DOMAIN elements |-> << one(i) >>]
        <2>1. Items(v, indent) = Layout(91, parts, 93, indent) BY <1>3 DEF Items, Empty, dump_array
        <2>2. elements \in Seq(S) BY <1>3 DEF IsClosed
        <2>3. n \in Nat /\ DOMAIN elements = 1..n /\ \A i \in 1..n : elements[i] \in S
            BY <2>2
        <2>4. n > 0 BY <1>3, <2>3 DEF Empty
        <2>5. parts = [i \in 1..n |-> parts[i]] BY <2>3
        <2>6. \A j \in 1..n : AreItems(S, parts[j])
            <3> SUFFICES ASSUME NEW j \in 1..n PROVE AreItems(S, parts[j]) OBVIOUS
            <3>1. parts[j] = << one(j) >> BY <2>3
            <3>2. IsItem(S, one(j)) BY <2>3, Kinds
            <3>3. \A k \in 1..1 : k = 1 OBVIOUS
            <3> HIDE DEF one
            <3> QED BY <3>1, <3>2, <3>3, Singles DEF AreItems
        <2> HIDE DEF parts, n
        <2>7. IsText(parts) /\ Len(parts) = n BY <2>3, <2>5, FunctionIsText
        <2> QED BY <2>1, <2>4, <2>6, <2>7, LayoutIs
    <1>4. CASE ~Empty(v) /\ v[1] = "object"
        <2> DEFINE keys == KeysInOrder(v[2])
                   n == Cardinality(DOMAIN v[2])
                   rest(i) == << Chars(AfterName), Value(v[2][keys[i]], indent + call.indent_step) >>
                   parts == [i \in DOMAIN keys |-> Quoted(keys[i]) \o rest(i)]
        <2>1. Items(v, indent) = Layout(123, parts, 125, indent) BY <1>4 DEF Items, Empty, dump_object
        <2>2. DOMAIN v[2] # {} BY <1>4 DEF Empty
        <2>3. /\ IsFiniteSet(DOMAIN v[2])
              /\ \A k \in DOMAIN v[2] : k \in Seq(0..255) /\ v[2][k] \in S
              /\ \A i \in DOMAIN keys : keys[i] \in DOMAIN v[2]
            BY <1>4 DEF IsClosed
        <2>4. n \in Nat /\ n > 0 BY <2>2, <2>3, FS_CardinalityType, FS_EmptySet
        <2>5. DOMAIN keys = 1..n BY DEF KeysInOrder
        <2>6. parts = [i \in 1..n |-> parts[i]] BY <2>5
        <2>7. \A j \in 1..n : AreItems(S, parts[j])
            <3> SUFFICES ASSUME NEW j \in 1..n PROVE AreItems(S, parts[j]) OBVIOUS
            <3> DEFINE key == keys[j]
            <3>1. parts[j] = Quoted(key) \o rest(j) BY <2>5
            <3>2. key \in DOMAIN v[2] BY <2>3, <2>5
            <3>3. key \in Seq(0..255) /\ v[2][key] \in S BY <2>3, <3>2
            <3>4. AreItems(S, Quoted(key))
                <4>1. IsItem(S, Chars(<<34>>)) /\ IsItem(S, <<"string", key>>) BY <3>3, Kinds
                <4>2. \A k \in 1..3 : k = 1 \/ k = 2 \/ k = 3 OBVIOUS
                <4>3. Quoted(key) = << Chars(<<34>>), <<"string", key>>, Chars(<<34>>) >>
                    BY DEF Quoted
                <4> HIDE DEF key
                <4> QED BY <4>1, <4>2, <4>3, Triples DEF AreItems
            <3>5. AreItems(S, rest(j))
                <4> DEFINE x == Chars(AfterName)
                           y == Value(v[2][key], indent + call.indent_step)
                <4>1. IsItem(S, x) /\ IsItem(S, y) BY <3>3, Kinds
                <4>2. \A k \in 1..2 : k = 1 \/ k = 2 OBVIOUS
                <4>3. rest(j) = << x, y >> OBVIOUS
                <4> HIDE DEF x, y, rest
                <4> QED BY <4>1, <4>2, <4>3, Pairs DEF AreItems
            <3> HIDE DEF rest, parts
            <3> QED BY <3>1, <3>4, <3>5, ItemsJoined
        <2> HIDE DEF parts, n
        <2>8. IsText(parts) /\ Len(parts) = n BY <2>4, <2>6, FunctionIsText
        <2> QED BY <2>1, <2>4, <2>7, <2>8, LayoutIs
    <1>5. CASE v[1] = "string"
        <2>1. Items(v, indent) = << Chars(<<34>>), <<"string", v[2]>>, Chars(<<34>>) >>
            BY <1>5 DEF Items, Empty, Quoted
        <2>2. v[2] \in Seq(0..255) BY <1>5 DEF IsClosed
        <2>3. IsItem(S, Chars(<<34>>)) /\ IsItem(S, <<"string", v[2]>>) BY <2>2, Kinds
        <2> QED BY <2>1, <2>3, TaskTuples
    <1>6. CASE v[1] = "binary"
        <2>1. PICK x, y : Items(v, indent) = Layout(123, << << Chars(x) >>, << Chars(y) >> >>, 125, indent)
            BY <1>6 DEF Items, Empty, dump_binary
        <2> DEFINE parts == << << Chars(x) >>, << Chars(y) >> >>
        <2>2. /\ IsText(parts) /\ Len(parts) = 2
              /\ parts[1] = << Chars(x) >> /\ parts[2] = << Chars(y) >>
            BY Pairs
        <2>3. \A j \in 1..2 : j = 1 \/ j = 2 OBVIOUS
        <2> HIDE DEF parts
        <2>4. \A j \in 1..2 : AreItems(S, parts[j]) BY <1>1, <2>2, <2>3
        <2> QED BY <2>1, <2>2, <2>4, LayoutIs DEF parts
    <1>7. CASE v[1] \notin {"array", "object", "string", "binary"}
        <2>1. Items(v, indent) = << Chars(Scalar(v)) >> BY <1>7 DEF Items, Empty
        <2> QED BY <1>1, <2>1
    <1> QED BY <1>2, <1>3, <1>4, <1>5, <1>6, <1>7

\* The first item, and the others.
LEMMA FirstTask ==
    ASSUME NEW S, NEW t, AreTasks(S, t), t # <<>>
    PROVE  (IsItem(S, Head(t)) \/ IsLoop(S, Head(t))) /\ AreTasks(S, Tail(t))
    <1> DEFINE A == {t[i] : i \in DOMAIN t}
    <1>1. t \in Seq(A) BY DEF AreTasks, IsText
    <1> HIDE DEF A
    <1>2. /\ Len(t) \in Nat /\ Len(t) >= 1 /\ Head(t) = t[1]
          /\ Tail(t) \in Seq(A) /\ Len(Tail(t)) = Len(t) - 1
          /\ \A k \in 1..Len(Tail(t)) : Tail(t)[k] = t[k + 1]
        BY <1>1, HeadTailProperties
    <1>3. \A k \in 1..Len(Tail(t)) : k + 1 \in 1..Len(t) BY <1>2
    <1>4. 1 \in 1..Len(t) BY <1>2
    <1>5. IsText(Tail(t)) BY <1>2, SeqIsText
    <1> QED BY <1>2, <1>3, <1>4, <1>5 DEF AreTasks

\* todo holds nothing else.
LEMMA TodoStep ==
    ASSUME NEW S, IsClosed(S), AreTasks(S, todo), [Next]_vars
    PROVE  AreTasks(S, todo')
    <1>1. CASE Dump
        <2>1. /\ todo # <<>> /\ Head(todo)[1] = "value"
              /\ todo' = Items(Head(todo)[2], Head(todo)[3]) \o Tail(todo)
            BY <1>1 DEF Dump
        <2>2. Head(todo)[2] \in S BY <2>1, FirstTask DEF IsItem, IsLoop
        <2>3. AreTasks(S, Items(Head(todo)[2], Head(todo)[3])) BY <2>2, ItemsAre
        <2> QED BY <2>1, <2>3, FirstTask, TasksJoined
    <1>2. CASE DumpPart
        <2> DEFINE x == Head(todo)
        <2>1. /\ todo # <<>> /\ x[1] = "loop"
              /\ todo' = Iteration(x[2], x[3], x[4], x[5]) \o Tail(todo)
            BY <1>2 DEF DumpPart
        <2>2. IsLoop(S, x) BY <2>1, FirstTask DEF IsItem
        <2> HIDE DEF x
        <2>3. AreTasks(S, Iteration(x[2], x[3], x[4], x[5])) BY <2>2, IterationIs
        <2> QED BY <2>1, <2>3, FirstTask, TasksJoined
    <1>3. CASE WriteCharacters \/ WriteIndent \/ BeginString
        <2>1. todo # <<>> /\ todo' = Tail(todo)
            BY <1>3 DEF WriteCharacters, WriteIndent, BeginString
        <2> QED BY <2>1, FirstTask
    <1>4. CASE Finish \/ AcceptByte \/ RejectByte \/ IncompleteByte \/ EndString \/ UNCHANGED vars
        <2>1. todo' = todo
            BY <1>4 DEF Finish, AcceptByte, RejectByte, IncompleteByte, EndString, SameString, vars
        <2> QED BY <2>1
    <1> QED BY <1>1, <1>2, <1>3, <1>4 DEF Next

-----------------------------------------------------------------------------
(* The theorem *)

LEMMA BufferStep ==
    ASSUME NEW S, AreTasks(S, todo), BufferInv, [Next]_vars
    PROVE  BufferInv'
    <1>1. <<>> \in Seq(0..255) /\ NoString = [NoString EXCEPT !.s = <<>>] BY DEF NoString
    <1>2. CASE BeginString
        <2>1. /\ todo # <<>> /\ Head(todo)[1] = "string"
              /\ esc' = [NoString EXCEPT !.s = Head(todo)[2]]
            BY <1>2 DEF BeginString
        <2>2. Head(todo)[2] \in Seq(0..255) BY <2>1, FirstTask DEF IsItem, IsLoop
        <2> QED BY <2>1, <2>2, FreshBuffer
    <1>3. CASE EndString
        <2>1. CASE esc' = NoString BY <1>1, <2>1, FreshBuffer
        <2>2. CASE esc' = esc
            <3>1. call' = call BY <1>3 DEF EndString, SameString
            <3> QED BY <2>2, <3>1 DEF BufferInv
        <2> QED BY <1>3, <2>1, <2>2 DEF EndString
    <1>4. CASE Dump \/ DumpPart \/ WriteCharacters \/ WriteIndent \/ Finish \/ UNCHANGED vars
        <2>1. esc' = esc /\ call' = call
            BY <1>4 DEF Dump, DumpPart, WriteCharacters, WriteIndent, Finish, vars
        <2> QED BY <2>1 DEF BufferInv
    <1> QED BY <1>2, <1>3, <1>4, AcceptKeepsRoom, RejectKeepsRoom, IncompleteKeepsRoom DEF Next

\* Between the bytes of every string of every value, 13 bytes are left behind
\* the last accepted code point, and an unfinished one takes at most three.
THEOREM BufferInvariant ==
    ASSUME NEW S, IsClosed(S), \A c \in Calls : c.val \in S
    PROVE  Spec => [](AreTasks(S, todo) /\ BufferInv)
    <1>1. Init => AreTasks(S, todo) /\ BufferInv
        <2> SUFFICES ASSUME Init PROVE AreTasks(S, todo) /\ BufferInv OBVIOUS
        <2>1. <<>> \in Seq(0..255) /\ NoString = [NoString EXCEPT !.s = <<>>] BY DEF NoString
        <2>2. esc = NoString /\ call \in Calls /\ todo = << Value(call.val, 0) >> BY DEF Init
        <2>3. BufferInv BY <2>1, <2>2, FreshBuffer
        <2>4. IsItem(S, Value(call.val, 0)) BY <2>2, Kinds
        <2> QED BY <2>2, <2>3, <2>4, TaskTuples
    <1>2. AreTasks(S, todo) /\ BufferInv /\ [Next]_vars => (AreTasks(S, todo) /\ BufferInv)'
        <2> SUFFICES ASSUME AreTasks(S, todo), BufferInv, [Next]_vars
                     PROVE  AreTasks(S, todo') /\ BufferInv'
            BY DEF AreTasks, IsText, IsItem, IsLoop
        <2> QED BY TodoStep, BufferStep
    <1> QED BY <1>1, <1>2, PTL DEF Spec

\* The comment of dump_escaped, "there must be 13 bytes left", is enough: no
\* write goes past the end of string_buffer, nor does snprintf's terminator,
\* whatever strings the dumped value holds.
THEOREM DumpStaysWithinBuffer ==
    ASSUME NEW S, IsClosed(S), \A c \in Calls : c.val \in S
    PROVE  Spec => []WithinBuffer
    <1>1. AreTasks(S, todo) /\ BufferInv => WithinBuffer
        BY SerializerAssumption DEF BufferInv, WithinBuffer
    <1> QED BY <1>1, BufferInvariant, PTL
=============================================================================
