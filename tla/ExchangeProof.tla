---------------------------- MODULE ExchangeProof ----------------------------
(***************************************************************************)
(* What a client can rely on in a response: it parses, it carries the      *)
(* client's msg_id and no other.  The ids go through their bytes, the      *)
(* codec and JSON; that each conversion is undone by its counterpart is    *)
(* proved for words of every size.                                         *)
(***************************************************************************)
EXTENDS Exchange, Base64Proof

-----------------------------------------------------------------------------
(* Words and their bytes *)

\* Numbers defined by recursion on an interval.
LEMMA NumbersDefined ==
    ASSUME NEW N \in Nat, NEW a \in Nat, NEW G \in [1..N -> [Nat -> Nat]]
    PROVE  \E f \in [0..N -> Nat] : f[0] = a /\ \A n \in 1..N : f[n] = G[n][f[n - 1]]
    <1> DEFINE Fits(f, M) == f[0] = a /\ \A n \in 1..M : f[n] = G[n][f[n - 1]]
               T == {M \in 0..N : \E f \in [0..M -> Nat] : Fits(f, M)}
    <1>1. 0 \in T
        <2> DEFINE f == [n \in 0..0 |-> a]
        <2>1. f \in [0..0 -> Nat] /\ Fits(f, 0) OBVIOUS
        <2> HIDE DEF f, Fits
        <2> QED BY <2>1
    <1>2. ASSUME NEW M \in 0..N, M < N, M \in T PROVE M + 1 \in T
        <2>1. PICK f \in [0..M -> Nat] : Fits(f, M) BY <1>2
        <2> DEFINE y == G[M + 1][f[M]]
                   g == [n \in 0..M + 1 |-> IF n = M + 1 THEN y ELSE f[n]]
        <2>2. M + 1 \in 1..N /\ M \in 0..M /\ M + 1 \in 0..N BY <1>2
        <2>3. f[M] \in Nat /\ G[M + 1] \in [Nat -> Nat] BY <2>2
        <2>4. y \in Nat BY <2>3
        <2> HIDE DEF y
        <2>5. \A n \in 0..M + 1 : n # M + 1 => n \in 0..M OBVIOUS
        <2>6. g \in [0..M + 1 -> Nat] BY <2>4, <2>5
        <2>7. \A n \in 0..M : g[n] = f[n] OBVIOUS
        <2>8. g[M + 1] = y OBVIOUS
        <2> HIDE DEF g
        <2>9. g[0] = a BY <2>1, <2>7
        <2>10. ASSUME NEW n \in 1..M + 1 PROVE g[n] = G[n][g[n - 1]]
            <3>1. n - 1 \in 0..M BY <1>2
            <3>2. g[n - 1] = f[n - 1] BY <2>7, <3>1
            <3>3. CASE n = M + 1
                <4>1. n - 1 = M BY <3>3
                <4> QED BY <2>8, <3>2, <3>3, <4>1 DEF y
            <3>4. CASE n # M + 1
                <4>1. n \in 1..M /\ n \in 0..M BY <3>4
                <4> QED BY <2>1, <2>7, <3>2, <4>1
            <3> QED BY <3>3, <3>4
        <2>11. Fits(g, M + 1) BY <2>9, <2>10
        <2> HIDE DEF Fits
        <2> QED BY <2>2, <2>6, <2>11
    <1> HIDE DEF T
    <1>3. \A M \in 0..N : M \in T BY <1>1, <1>2, UpTo
    <1>4. N \in T BY <1>3
    <1> QED BY <1>4 DEF T

\* The three recursive functions of Snowflake are defined.
LEMMA PowersAre ==
    /\ Power256[0] = 1
    /\ \A n \in 1..WordBytes : Power256[n] = 256 * Power256[n - 1]
    <1> DEFINE Def(f) == [n \in 0..WordBytes |-> IF n = 0 THEN 1 ELSE 256 * f[n - 1]]
               G == [n \in 1..WordBytes |-> [x \in Nat |-> 256 * x]]
    <1>1. WordBytes \in Nat BY WordAssumption
    <1>2. G \in [1..WordBytes -> [Nat -> Nat]] OBVIOUS
    <1>3. \A n \in 1..WordBytes, x \in Nat : G[n][x] = 256 * x OBVIOUS
    <1> HIDE DEF G
    <1>4. PICK f \in [0..WordBytes -> Nat] : f[0] = 1 /\ \A n \in 1..WordBytes : f[n] = G[n][f[n - 1]]
        <2>1. \A a \in Nat : \E f \in [0..WordBytes -> Nat] :
                 f[0] = a /\ \A n \in 1..WordBytes : f[n] = G[n][f[n - 1]]
            BY <1>1, <1>2, NumbersDefined
        <2> QED BY <2>1
    <1>5. \A n \in 1..WordBytes : n - 1 \in 0..WordBytes BY <1>1
    <1>6. ASSUME NEW n \in 1..WordBytes PROVE f[n] = 256 * f[n - 1]
        <2>1. f[n - 1] \in Nat BY <1>5
        <2>2. f[n] = G[n][f[n - 1]] BY <1>4
        <2> QED BY <1>3, <2>1, <2>2
    <1>7. \A n \in 0..WordBytes : f[n] = Def(f)[n] BY <1>1, <1>4, <1>6
    <1>8. f = Def(f) BY <1>7
    <1>9. Power256 = CHOOSE g : g = Def(g) BY DEF Power256
    <1>10. Power256 = Def(Power256)
        <2> HIDE DEF Def
        <2>1. \E g : g = Def(g) BY <1>8
        <2> QED BY <1>9, <2>1
    <1>11. \A n \in 0..WordBytes : Power256[n] = IF n = 0 THEN 1 ELSE 256 * Power256[n - 1] BY <1>10
    <1> QED BY <1>1, <1>11

LEMMA ShiftedIs ==
    ASSUME NEW w \in Nat
    PROVE  /\ Shifted(w)[0] = w
           /\ \A n \in 1..WordBytes : Shifted(w)[n] = Shifted(w)[n - 1] \div 256
    <1> DEFINE Def(f) == [n \in 0..WordBytes |-> IF n = 0 THEN w ELSE f[n - 1] \div 256]
               G == [n \in 1..WordBytes |-> [x \in Nat |-> x \div 256]]
               s == Shifted(w)
    <1>1. WordBytes \in Nat BY WordAssumption
    <1>2. G \in [1..WordBytes -> [Nat -> Nat]] OBVIOUS
    <1>3. \A n \in 1..WordBytes, x \in Nat : G[n][x] = x \div 256 OBVIOUS
    <1> HIDE DEF G
    <1>4. PICK f \in [0..WordBytes -> Nat] : f[0] = w /\ \A n \in 1..WordBytes : f[n] = G[n][f[n - 1]]
        BY <1>1, <1>2, NumbersDefined
    <1>5. \A n \in 1..WordBytes : n - 1 \in 0..WordBytes BY <1>1
    <1>6. ASSUME NEW n \in 1..WordBytes PROVE f[n] = f[n - 1] \div 256
        <2>1. f[n - 1] \in Nat BY <1>5
        <2>2. f[n] = G[n][f[n - 1]] BY <1>4
        <2> QED BY <1>3, <2>1, <2>2
    <1>7. \A n \in 0..WordBytes : f[n] = Def(f)[n] BY <1>1, <1>4, <1>6
    <1>8. f = Def(f) BY <1>7
    <1>9. s = CHOOSE g : g = Def(g) BY DEF Shifted
    <1> HIDE DEF s
    <1>10. s = Def(s)
        <2> HIDE DEF Def
        <2>1. \E g : g = Def(g) BY <1>8
        <2> QED BY <1>9, <2>1
    <1>11. \A n \in 0..WordBytes : s[n] = IF n = 0 THEN w ELSE s[n - 1] \div 256 BY <1>10
    <1> QED BY <1>1, <1>11 DEF s

LEMMA HighBytesAre ==
    ASSUME NEW b, \A i \in 1..WordBytes : b[i] \in Nat
    PROVE  /\ HighBytes(b)[0] = 0
           /\ \A n \in 1..WordBytes : HighBytes(b)[n] = b[WordBytes - n + 1] + 256 * HighBytes(b)[n - 1]
    <1> DEFINE Def(f) == [n \in 0..WordBytes |-> IF n = 0 THEN 0 ELSE b[WordBytes - n + 1] + 256 * f[n - 1]]
               G == [n \in 1..WordBytes |-> [x \in Nat |-> b[WordBytes - n + 1] + 256 * x]]
               s == HighBytes(b)
    <1>1. WordBytes \in Nat BY WordAssumption
    <1>2. G \in [1..WordBytes -> [Nat -> Nat]]
        <2>1. ASSUME NEW n \in 1..WordBytes, NEW x \in Nat PROVE b[WordBytes - n + 1] + 256 * x \in Nat
            <3>1. WordBytes - n + 1 \in 1..WordBytes BY <1>1
            <3>2. b[WordBytes - n + 1] \in Nat BY <3>1
            <3> QED BY <3>2
        <2> QED BY <2>1
    <1>3. \A n \in 1..WordBytes, x \in Nat : G[n][x] = b[WordBytes - n + 1] + 256 * x OBVIOUS
    <1> HIDE DEF G
    <1>4. PICK f \in [0..WordBytes -> Nat] : f[0] = 0 /\ \A n \in 1..WordBytes : f[n] = G[n][f[n - 1]]
        BY <1>1, <1>2, NumbersDefined
    <1>5. \A n \in 1..WordBytes : n - 1 \in 0..WordBytes BY <1>1
    <1>6. ASSUME NEW n \in 1..WordBytes PROVE f[n] = b[WordBytes - n + 1] + 256 * f[n - 1]
        <2>1. f[n - 1] \in Nat BY <1>5
        <2>2. f[n] = G[n][f[n - 1]] BY <1>4
        <2> QED BY <1>3, <2>1, <2>2
    <1>7. \A n \in 0..WordBytes : f[n] = Def(f)[n] BY <1>1, <1>4, <1>6
    <1>8. f = Def(f) BY <1>7
    <1>9. s = CHOOSE g : g = Def(g) BY DEF HighBytes
    <1> HIDE DEF s
    <1>10. s = Def(s)
        <2> HIDE DEF Def
        <2>1. \E g : g = Def(g) BY <1>8
        <2> QED BY <1>9, <2>1
    <1>11. \A n \in 0..WordBytes : s[n] = IF n = 0 THEN 0 ELSE b[WordBytes - n + 1] + 256 * s[n - 1]
        BY <1>10
    <1> QED BY <1>1, <1>11 DEF s

LEMMA PowersArePositive == \A n \in 0..WordBytes : Power256[n] \in Nat \ {0}
    <1> DEFINE T == {n \in 0..WordBytes : Power256[n] \in Nat \ {0}}
    <1>1. WordBytes \in Nat BY WordAssumption
    <1>2. 0 \in T BY <1>1, PowersAre
    <1>3. ASSUME NEW n \in 0..WordBytes, n < WordBytes, n \in T PROVE n + 1 \in T
        <2>1. n + 1 \in 1..WordBytes /\ n + 1 \in 0..WordBytes /\ (n + 1) - 1 = n BY <1>1, <1>3
        <2>2. Power256[n + 1] = 256 * Power256[n] BY <2>1, PowersAre
        <2>3. Power256[n] \in Nat \ {0} BY <1>3
        <2> QED BY <2>1, <2>2, <2>3
    <1> HIDE DEF T
    <1>4. \A n \in 0..WordBytes : n \in T BY <1>1, <1>2, <1>3, UpTo
    <1> QED BY <1>4 DEF T

\* A word has no more than WordBytes bytes.
LEMMA ShiftedFits ==
    ASSUME NEW w \in Word, NEW n \in 0..WordBytes
    PROVE  Shifted(w)[n] \in Nat /\ Shifted(w)[n] < Power256[WordBytes - n]
    <1> DEFINE s == Shifted(w)
               T == {m \in 0..WordBytes : s[m] \in Nat /\ s[m] < Power256[WordBytes - m]}
    <1>1. WordBytes \in Nat BY WordAssumption
    <1>2. Power256[WordBytes] \in Nat BY <1>1, PowersArePositive
    <1>3. w \in Nat /\ w < Power256[WordBytes] BY <1>2 DEF Word
    <1>4. s[0] = w /\ \A m \in 1..WordBytes : s[m] = s[m - 1] \div 256 BY <1>3, ShiftedIs
    <1> HIDE DEF s
    <1>5. 0 \in T
        <2>1. 0 \in 0..WordBytes /\ WordBytes - 0 = WordBytes BY <1>1
        <2> QED BY <1>3, <1>4, <2>1
    <1>6. ASSUME NEW m \in 0..WordBytes, m < WordBytes, m \in T PROVE m + 1 \in T
        <2> DEFINE k == WordBytes - (m + 1)
                   p == Power256[k]
        <2>1. m + 1 \in 1..WordBytes /\ m + 1 \in 0..WordBytes /\ (m + 1) - 1 = m BY <1>1, <1>6
        <2>2. s[m + 1] = s[m] \div 256 BY <1>4, <2>1
        <2>3. s[m] \in Nat /\ s[m] < Power256[WordBytes - m] BY <1>6
        <2>4. WordBytes - m \in 1..WordBytes /\ (WordBytes - m) - 1 = k /\ k \in 0..WordBytes
            BY <1>1, <1>6
        <2>5. Power256[WordBytes - m] = 256 * p /\ p \in Nat BY <2>4, PowersAre, PowersArePositive
        <2> HIDE DEF p
        <2>6. s[m] \div 256 \in Nat /\ s[m] \div 256 < p BY <2>3, <2>5
        <2> QED BY <2>1, <2>2, <2>6 DEF p
    <1> HIDE DEF T
    <1>7. \A m \in 0..WordBytes : m \in T BY <1>1, <1>5, <1>6, UpTo
    <1> QED BY <1>7 DEF T, s

LEMMA BytesOfWord ==
    ASSUME NEW w \in Word
    PROVE  /\ WordToBytes(w) \in Seq(Byte) /\ Len(WordToBytes(w)) = WordBytes
           /\ BytesToWord(WordToBytes(w)) = w
    <1> DEFINE s == Shifted(w)
               b == WordToBytes(w)
               last == HighBytes(b)
               T == {m \in 0..WordBytes : last[m] = s[WordBytes - m]}
    <1>1. WordBytes \in Nat BY WordAssumption
    <1>2. \A n \in 0..WordBytes : s[n] \in Nat /\ s[n] < Power256[WordBytes - n] BY ShiftedFits
    <1>3. Power256[WordBytes] \in Nat BY <1>1, PowersArePositive
    <1>4. w \in Nat BY <1>3 DEF Word
    <1>5. s[0] = w /\ \A m \in 1..WordBytes : s[m] = s[m - 1] \div 256 BY <1>4, ShiftedIs
    <1>6. b = [i \in 1..WordBytes |-> s[i - 1] % 256] BY DEF WordToBytes
    <1> HIDE DEF s, b
    <1>7. ASSUME NEW i \in 1..WordBytes PROVE b[i] = s[i - 1] % 256 /\ b[i] \in Byte
        <2>1. i - 1 \in 0..WordBytes BY <1>1
        <2>2. s[i - 1] \in Nat BY <1>2, <2>1
        <2>3. \A x \in Nat : x % 256 \in 0..255 OBVIOUS
        <2>4. b[i] = s[i - 1] % 256 BY <1>6
        <2> QED BY <2>2, <2>3, <2>4 DEF Byte
    <1>8. b \in Seq(Byte) /\ Len(b) = WordBytes
        <2>1. b \in [1..WordBytes -> Byte]
            <3>1. DOMAIN b = 1..WordBytes /\ b = [i \in 1..WordBytes |-> b[i]] BY <1>6
            <3> HIDE DEF b
            <3> QED BY <1>7, <3>1
        <2>2. DOMAIN b = 1..WordBytes BY <1>6
        <2> QED BY <1>1, <2>1, <2>2
    <1>9. \A i \in 1..WordBytes : b[i] \in Nat BY <1>7 DEF Byte
    <1>10. /\ last[0] = 0
           /\ \A n \in 1..WordBytes : last[n] = b[WordBytes - n + 1] + 256 * last[n - 1]
        BY <1>9, HighBytesAre
    <1> HIDE DEF last
    <1>11. 0 \in T
        <2>1. 0 \in 0..WordBytes /\ WordBytes \in 0..WordBytes /\ WordBytes - 0 = WordBytes
              /\ WordBytes - WordBytes = 0
            BY <1>1
        <2>2. s[WordBytes] \in Nat /\ s[WordBytes] < 1 BY <1>2, <2>1, PowersAre
        <2>3. s[WordBytes] = 0 BY <2>2
        <2> QED BY <1>10, <2>1, <2>3
    <1>12. ASSUME NEW m \in 0..WordBytes, m < WordBytes, m \in T PROVE m + 1 \in T
        <2> DEFINE k == WordBytes - m
        <2>1. /\ m + 1 \in 1..WordBytes /\ m + 1 \in 0..WordBytes /\ (m + 1) - 1 = m
              /\ k \in 1..WordBytes /\ k - 1 \in 0..WordBytes
              /\ WordBytes - (m + 1) + 1 = k /\ WordBytes - (m + 1) = k - 1
            BY <1>1, <1>12
        <2>2. last[m + 1] = b[WordBytes - (m + 1) + 1] + 256 * last[(m + 1) - 1] BY <1>10, <2>1
        <2>3. last[m] = s[k] BY <1>12
        <2>4. s[k] = s[k - 1] \div 256 /\ b[k] = s[k - 1] % 256 BY <1>5, <1>7, <2>1
        <2>5. s[k - 1] \in Nat BY <1>2, <2>1
        <2>6. \A x \in Nat : (x % 256) + 256 * (x \div 256) = x OBVIOUS
        <2> HIDE DEF k
        <2>7. last[m + 1] = s[k - 1] BY <2>1, <2>2, <2>3, <2>4, <2>5, <2>6
        <2> QED BY <2>1, <2>7
    <1> HIDE DEF T
    <1>13. \A m \in 0..WordBytes : m \in T BY <1>1, <1>11, <1>12, UpTo
    <1>14. WordBytes \in T /\ WordBytes - WordBytes = 0 BY <1>1, <1>13
    <1>15. last[WordBytes] = s[0] BY <1>14 DEF T
    <1> QED BY <1>5, <1>8, <1>15 DEF BytesToWord, b, last

LEMMA WordOfBytes ==
    ASSUME NEW b, \A i \in 1..WordBytes : b[i] \in Byte
    PROVE  BytesToWord(b) \in Word
    <1> DEFINE last == HighBytes(b)
               T == {m \in 0..WordBytes : last[m] \in Nat /\ last[m] < Power256[m]}
    <1>1. WordBytes \in Nat BY WordAssumption
    <1>2. \A i \in 1..WordBytes : b[i] \in Nat /\ b[i] < 256 BY DEF Byte
    <1>3. /\ last[0] = 0
          /\ \A n \in 1..WordBytes : last[n] = b[WordBytes - n + 1] + 256 * last[n - 1]
        BY <1>2, HighBytesAre
    <1> HIDE DEF last
    <1>4. 0 \in T
        <2>1. 0 \in 0..WordBytes BY <1>1
        <2> QED BY <1>3, <2>1, PowersAre
    <1>5. ASSUME NEW m \in 0..WordBytes, m < WordBytes, m \in T PROVE m + 1 \in T
        <2> DEFINE x == b[WordBytes - (m + 1) + 1]
                   y == last[m]
                   p == Power256[m]
        <2>1. /\ m + 1 \in 1..WordBytes /\ m + 1 \in 0..WordBytes /\ (m + 1) - 1 = m
              /\ WordBytes - (m + 1) + 1 \in 1..WordBytes
            BY <1>1, <1>5
        <2>2. last[m + 1] = x + 256 * last[(m + 1) - 1] /\ (m + 1) - 1 = m BY <1>3, <2>1
        <2>3. last[m + 1] = x + 256 * y BY <2>2
        <2>4. Power256[m + 1] = 256 * p BY <2>1, PowersAre
        <2>5. x \in Nat /\ x < 256 BY <1>2, <2>1
        <2>6. y \in Nat /\ y < p /\ p \in Nat BY <1>5, PowersArePositive
        <2> HIDE DEF x, y, p
        <2>7. x + 256 * y \in Nat /\ x + 256 * y < 256 * p BY <2>5, <2>6
        <2> QED BY <2>1, <2>3, <2>4, <2>7
    <1> HIDE DEF T
    <1>6. \A m \in 0..WordBytes : m \in T BY <1>1, <1>4, <1>5, UpTo
    <1>7. WordBytes \in T BY <1>1, <1>6
    <1>8. last[WordBytes] \in Nat /\ last[WordBytes] < Power256[WordBytes] BY <1>7 DEF T
    <1>9. Power256[WordBytes] \in Nat BY <1>1, PowersArePositive
    <1> QED BY <1>8, <1>9 DEF BytesToWord, Word, last

-----------------------------------------------------------------------------
(* Ids as JSON *)

LEMMA SnowflakeIs ==
    ASSUME NEW id \in SnowflakeSet
    PROVE  /\ id.m_most_sig \in Word /\ id.m_least_sig \in Word
           /\ MakeSnowflake(id.m_most_sig, id.m_least_sig) = id
    BY DEF SnowflakeSet, MakeSnowflake

\* The object representation of an id is read back as the id.
LEMMA BytesOfSnowflake ==
    ASSUME NEW id \in SnowflakeSet
    PROVE  /\ SnowflakeToBytes(id) \in Seq(Byte) /\ Len(SnowflakeToBytes(id)) = 2 * WordBytes
           /\ BytesToSnowflake(SnowflakeToBytes(id)) = id
    <1> DEFINE m == id.m_most_sig
               l == id.m_least_sig
               x == WordToBytes(m)
               y == WordToBytes(l)
               b == x \o y
    <1>1. m \in Word /\ l \in Word /\ MakeSnowflake(m, l) = id BY SnowflakeIs
    <1> HIDE DEF m, l
    <1>2. /\ x \in Seq(Byte) /\ Len(x) = WordBytes /\ BytesToWord(x) = m
          /\ y \in Seq(Byte) /\ Len(y) = WordBytes /\ BytesToWord(y) = l
        BY <1>1, BytesOfWord
    <1> HIDE DEF x, y
    <1>3. WordBytes \in Nat BY WordAssumption
    <1>4. b \in Seq(Byte) /\ Len(b) = 2 * WordBytes BY <1>2, <1>3
    <1>5. SubSeq(b, 1, WordBytes) = x BY <1>2, <1>3
    <1>6. SubSeq(b, WordBytes + 1, 2 * WordBytes) = y BY <1>2, <1>3
    <1>7. SnowflakeToBytes(id) = b BY DEF SnowflakeToBytes, x, y, m, l
    <1>8. BytesToSnowflake(b) = MakeSnowflake(m, l) BY <1>2, <1>5, <1>6 DEF BytesToSnowflake
    <1> QED BY <1>1, <1>4, <1>7, <1>8

LEMMA SnowflakeOfBytes ==
    ASSUME NEW b \in Seq(Byte), Len(b) = 2 * WordBytes
    PROVE  BytesToSnowflake(b) \in SnowflakeSet
    <1> DEFINE x == SubSeq(b, 1, WordBytes)
               y == SubSeq(b, WordBytes + 1, 2 * WordBytes)
    <1>1. WordBytes \in Nat BY WordAssumption
    <1>2. x \in Seq(Byte) /\ Len(x) = WordBytes /\ y \in Seq(Byte) /\ Len(y) = WordBytes BY <1>1
    <1> HIDE DEF x, y
    <1>3. \A i \in 1..WordBytes : x[i] \in Byte /\ y[i] \in Byte BY <1>2, ElementOfSeq
    <1>4. BytesToWord(x) \in Word /\ BytesToWord(y) \in Word BY <1>3, WordOfBytes
    <1>5. BytesToSnowflake(b) = MakeSnowflake(BytesToWord(x), BytesToWord(y))
        BY DEF BytesToSnowflake, x, y
    <1> QED BY <1>4, <1>5 DEF MakeSnowflake, SnowflakeSet

LEMMA NumberIds ==
    ASSUME NEW n \in Int
    PROVE  /\ \E id \in SnowflakeSet : from_json_number(n) = Some(id)
           /\ n \in Word => from_json_number(n) = Some(MakeSnowflake(n, 0))
           /\ n \in -(Power256[WordBytes] \div 2) .. -1 =>
                 from_json_number(n) = Some(MakeSnowflake(n + Power256[WordBytes], 0))
    <1> DEFINE p == Power256[WordBytes]
    <1>1. p \in Nat \ {0} BY WordAssumption, PowersArePositive
    <1>2. Word = 0..(p - 1) BY DEF Word
    <1>3. from_json_number(n) = Some(MakeSnowflake(n % p, 0)) BY DEF from_json_number
    <1> HIDE DEF p
    <1>4. n % p \in 0..(p - 1) /\ 0 \in 0..(p - 1) BY <1>1
    <1>5. MakeSnowflake(n % p, 0) \in SnowflakeSet BY <1>2, <1>4 DEF MakeSnowflake, SnowflakeSet
    <1>6. n \in 0..(p - 1) => n % p = n BY <1>1
    <1>7. n \in -(p \div 2) .. -1 => n % p = n + p BY <1>1
    <1> QED BY <1>2, <1>3, <1>5, <1>6, <1>7 DEF p

\* The numbers among the ids are integers.
LEMMA IntegerId ==
    ASSUME NEW j, IsId(j), type_of(j) \in {"number_unsigned", "number_integer"}
    PROVE  get(j) \in Int
    <1>1. Power256[WordBytes] \in Nat BY WordAssumption, PowersArePositive
    <1> QED BY <1>1 DEF IsId, Word

\* from_json_string accepts only ids.
LEMMA TextIds ==
    ASSUME NEW t \in Seq(Byte)
    PROVE  \/ from_json_string(t) = NullOpt
           \/ \E id \in SnowflakeSet : from_json_string(t) = Some(id)
    <1> DEFINE u == decode_base64(t)
               w == decode_base64(u.value)
    <1>1. u.outcome = "value" => u.value \in Seq(Byte) BY DecodesToBytes
    <1>2. u.outcome = "value" /\ w.outcome = "value" => w.value \in Seq(Byte) BY <1>1, DecodesToBytes
    <1>3. from_json_string(t) = IF u.outcome = "value" /\ ~HoldsId(u) THEN IdOf(w) ELSE IdOf(u)
        BY DEF from_json_string, IdOfEither
    <1> HIDE DEF u, w
    <1>4. ASSUME NEW x, x.outcome = "value" => x.value \in Seq(Byte)
          PROVE  IdOf(x) = NullOpt \/ \E id \in SnowflakeSet : IdOf(x) = Some(id)
        <2>1. CASE HoldsId(x)
            <3>1. x.value \in Seq(Byte) /\ Len(x.value) = 2 * WordBytes BY <1>4, <2>1 DEF HoldsId
            <3>2. BytesToSnowflake(x.value) \in SnowflakeSet BY <3>1, SnowflakeOfBytes
            <3> QED BY <2>1, <3>2 DEF IdOf
        <2>2. CASE ~HoldsId(x) BY <2>2 DEF IdOf
        <2> QED BY <2>1, <2>2
    <1>5. CASE u.outcome = "value" /\ ~HoldsId(u)
        <2>1. w.outcome = "value" => w.value \in Seq(Byte) BY <1>2, <1>5
        <2> QED BY <1>3, <1>4, <1>5, <2>1
    <1>6. CASE ~(u.outcome = "value" /\ ~HoldsId(u)) BY <1>1, <1>3, <1>4, <1>6
    <1> QED BY <1>5, <1>6

\* from_json reads what as_json writes, in both forms of an id.
LEMMA IdsInvert ==
    ASSUME NEW id \in SnowflakeSet
    PROVE  /\ from_json_id(as_json_id(id)) = Some(id)
           /\ IsId(as_json_id(id))
    <1> DEFINE m == id.m_most_sig
               l == id.m_least_sig
               b == SnowflakeToBytes(id)
               t == encode_base64url(b).value
    <1>1. m \in Word /\ l \in Word /\ MakeSnowflake(m, l) = id BY SnowflakeIs
    <1>2. \A x, y : type_of(Json(x, y)) = x /\ get(Json(x, y)) = y BY DEF type_of, get, Json
    <1>3. CASE m # 0 /\ l = 0
        <2>1. as_json_id(id) = Json("number_unsigned", m) BY <1>3 DEF as_json_id
        <2> HIDE DEF m, l
        <2>2. from_json_id(Json("number_unsigned", m)) = from_json_number(m)
            BY <1>2 DEF from_json_id
        <2>3. m \in Int BY <1>1 DEF Word
        <2>4. from_json_number(m) = Some(MakeSnowflake(m, 0)) BY <1>1, <2>3, NumberIds
        <2>5. IsId(Json("number_unsigned", m)) BY <1>1, <1>2 DEF IsId
        <2> QED BY <1>1, <1>3, <2>1, <2>2, <2>4, <2>5
    <1>4. CASE ~(m # 0 /\ l = 0)
        <2>1. as_json_id(id) = Json("string", t) BY <1>4 DEF as_json_id
        <2> HIDE DEF m, l
        <2>2. b \in Seq(Byte) /\ Len(b) = 2 * WordBytes /\ BytesToSnowflake(b) = id BY BytesOfSnowflake
        <2>3. t \in Seq(Byte) /\ decode_base64(t) = Some(b) BY <2>2, CodecInverts
        <2> HIDE DEF b, t
        <2>4. from_json_id(Json("string", t)) = from_json_string(t) BY <1>2 DEF from_json_id
        <2>5. Some(b).outcome = "value" /\ Some(b).value = b BY DEF Some
        <2>6. HoldsId(Some(b)) BY <2>2, <2>5 DEF HoldsId
        <2>7. from_json_string(t) = Some(id)
            BY <2>2, <2>3, <2>5, <2>6 DEF from_json_string, IdOfEither, IdOf
        <2>8. IsId(Json("string", t)) BY <1>2, <2>3 DEF IsId
        <2> QED BY <2>1, <2>4, <2>7, <2>8
    <1> QED BY <1>3, <1>4

\* from_json of a JSON value: an id, nothing, or the end of the process.
LEMMA ReadIds ==
    ASSUME NEW j, IsId(j)
    PROVE  from_json_id(j) \in {NullOpt, Aborted} \cup {Some(id) : id \in SnowflakeSet}
    <1> DEFINE v == get(j)
    <1>1. CASE type_of(j) = "array"
        <2>1. from_json_id(j) = from_json_array(v) BY <1>1 DEF from_json_id
        <2> QED BY <2>1 DEF from_json_array
    <1>2. CASE type_of(j) = "string"
        <2>1. from_json_id(j) = from_json_string(v) BY <1>2 DEF from_json_id
        <2>2. v \in Seq(Byte) BY <1>2 DEF IsId
        <2> HIDE DEF v
        <2> QED BY <2>1, <2>2, TextIds
    <1>3. CASE type_of(j) \in {"number_unsigned", "number_integer"}
        <2>1. from_json_id(j) = from_json_number(v) BY <1>3 DEF from_json_id
        <2>2. v \in Int BY <1>3, IntegerId
        <2> HIDE DEF v
        <2> QED BY <2>1, <2>2, NumberIds
    <1>4. CASE type_of(j) \notin {"array", "string", "number_unsigned", "number_integer"}
        <2>1. from_json_id(j) = NullOpt BY <1>4 DEF from_json_id
        <2> QED BY <2>1
    <1> QED BY <1>1, <1>2, <1>3, <1>4

-----------------------------------------------------------------------------
(* Messages *)

LEMMA Outcomes ==
    /\ \A x : Some(x).outcome = "value" /\ Some(x).value = x
    /\ NullOpt.outcome = "nullopt" /\ Aborted.outcome = "abort"
    /\ \A x : Some(x) # NullOpt /\ Some(x) # Aborted
    /\ NullOpt # Aborted
    <1>1. \A x : Some(x).outcome = "value" /\ Some(x).value = x BY DEF Some
    <1>2. NullOpt.outcome = "nullopt" /\ Aborted.outcome = "abort" BY DEF NullOpt, Aborted
    <1>3. "value" # "nullopt" /\ "value" # "abort" /\ "nullopt" # "abort" OBVIOUS
    <1> HIDE DEF Some, NullOpt, Aborted
    <1> QED BY <1>1, <1>2, <1>3

LEMMA InvalidId == invalid_snowflake \in SnowflakeSet /\ ~is_valid(invalid_snowflake)
    <1>1. 0 \in Word
        <2>1. Power256[WordBytes] \in Nat \ {0} BY WordAssumption, PowersArePositive
        <2> QED BY <2>1 DEF Word
    <1> QED BY <1>1 DEF invalid_snowflake, MakeSnowflake, SnowflakeSet, is_valid

LEMMA GeneratedIds ==
    ASSUME NEW seed \in random_device
    PROVE  /\ generate(seed) \in SnowflakeSet /\ generate_64(seed) \in SnowflakeSet
           /\ generate_64(seed).m_least_sig = 0
    <1>1. mt19937_64[seed] \in Word \X Word BY GeneratorAssumption
    <1>2. mt19937_64[seed][1] \in Word /\ mt19937_64[seed][2] \in Word BY <1>1
    <1>3. 0 \in Word
        <2>1. Power256[WordBytes] \in Nat \ {0} BY WordAssumption, PowersArePositive
        <2> QED BY <2>1 DEF Word
    <1> QED BY <1>2, <1>3 DEF generate, generate_64, MakeSnowflake, SnowflakeSet

\* The id of a message that parse makes of a document.
LEMMA ParsedId ==
    ASSUME NEW doc \in Documents, parse(doc).outcome = "value"
    PROVE  LET m == parse(doc).value
               body == field(doc, "body")
           IN  /\ m.id \in SnowflakeSet
               /\ contains(body, "msg_id") =>
                     \/ from_json_id(field(body, "msg_id")) = Some(m.id)
                     \/ from_json_id(field(body, "msg_id")) = NullOpt /\ ~is_valid(m.id)
               /\ ~contains(body, "msg_id") => ~is_valid(m.id)
    <1> DEFINE m == parse(doc).value
               body == field(doc, "body")
               j == field(body, "msg_id")
               id == IdField(body, "msg_id")
               reply_id == IdField(body, "is_reply_to")
               type == message_type_from_string(get(field(body, "type")))
    <1>1. RequiredFieldsPresent(doc) /\ parse(doc) = FromFields(doc, type, id, reply_id)
        BY Outcomes DEF parse, from_json
    <1> HIDE DEF body, id, reply_id, type
    <1>2. Aborted \notin {id, reply_id} /\ type # "INVALID" BY <1>1, Outcomes DEF FromFields
    <1> DEFINE rec == [type |-> type, id |-> id.value, reply_id |-> reply_id.value,
                       from |-> get(field(doc, "src")), to |-> get(field(doc, "dest")), body |-> body]
    <1>3. parse(doc) = Some(rec) BY <1>1, <1>2 DEF FromFields, body
    <1>4. m = rec BY <1>3, Outcomes
    <1>5. m.id = id.value BY <1>4
    <1> HIDE DEF rec, m
    <1>6. CASE contains(body, "msg_id")
        <2>1. IsId(j) BY <1>1, <1>6, DocumentsAssumption DEF body
        <2>2. from_json_id(j) \in {NullOpt, Aborted} \cup {Some(x) : x \in SnowflakeSet}
            BY <2>1, ReadIds
        <2> HIDE DEF j
        <2>3. id = ValueOrInvalid(from_json_id(j)) BY <1>6 DEF id, IdField, j
        <2>4. CASE from_json_id(j) = NullOpt
            <3>1. id = Some(invalid_snowflake) BY <2>3, <2>4, Outcomes DEF ValueOrInvalid
            <3>2. m.id = invalid_snowflake BY <1>5, <3>1, Outcomes
            <3> QED BY <1>6, <2>4, <3>2, InvalidId DEF j, m, body
        <2>5. CASE from_json_id(j) # NullOpt
            <3>1. from_json_id(j) # Aborted
                <4>1. ASSUME from_json_id(j) = Aborted PROVE FALSE
                    <5>1. id = Aborted BY <2>3, <4>1, Outcomes DEF ValueOrInvalid
                    <5> QED BY <1>2, <5>1
                <4> QED BY <4>1
            <3>2. PICK x \in SnowflakeSet : from_json_id(j) = Some(x) BY <2>2, <2>5, <3>1
            <3>3. id = Some(x) BY <2>3, <3>2, Outcomes DEF ValueOrInvalid
            <3>4. m.id = x BY <1>5, <3>3, Outcomes
            <3> QED BY <1>6, <3>2, <3>4 DEF j, m, body
        <2> QED BY <2>4, <2>5
    <1>7. CASE ~contains(body, "msg_id")
        <2>1. id = Some(invalid_snowflake) BY <1>7 DEF id, IdField
        <2>2. m.id = invalid_snowflake BY <1>5, <2>1, Outcomes
        <2> QED BY <1>7, <2>2, InvalidId DEF m, body
    <1> QED BY <1>6, <1>7

\* The types of responses are written and read back.
LEMMA ResponseTypes ==
    ASSUME NEW t \in DOMAIN response_type
    PROVE  /\ response_type[t] \in {"INIT_RES", "ECHO_RES", "GENERATE_RES"}
           /\ message_type_from_string(message_type_to_string[response_type[t]]) = response_type[t]
    <1> DEFINE u == response_type[t]
               raw == message_type_to_string[u]
               matches == {v \in MessageType \ {"INVALID"} : message_type_to_string[v] = raw}
    <1>1. u \in {"INIT_RES", "ECHO_RES", "GENERATE_RES"}
        <2>1. DOMAIN response_type = {"INIT_REQ", "ECHO_REQ", "GENERATE_REQ"} BY DEF response_type
        <2>2. /\ response_type["INIT_REQ"] = "INIT_RES" /\ response_type["ECHO_REQ"] = "ECHO_RES"
              /\ response_type["GENERATE_REQ"] = "GENERATE_RES"
            BY Zenon DEF response_type
        <2> QED BY <2>1, <2>2
    <1> HIDE DEF u
    <1>2. /\ message_type_to_string["INIT_REQ"] = "init" /\ message_type_to_string["INIT_RES"] = "init_ok"
          /\ message_type_to_string["ECHO_REQ"] = "echo" /\ message_type_to_string["ECHO_RES"] = "echo_ok"
          /\ message_type_to_string["GENERATE_REQ"] = "generate"
          /\ message_type_to_string["GENERATE_RES"] = "generate_ok"
        BY Zenon DEF message_type_to_string
    <1>3. \A v \in MessageType \ {"INVALID"} : message_type_to_string[v] = raw <=> v = u
        BY <1>1, <1>2 DEF MessageType
    <1>4. u \in MessageType \ {"INVALID"} BY <1>1 DEF MessageType
    <1>5. matches = {u} BY <1>3, <1>4
    <1>6. message_type_from_string(raw) = u BY <1>5 DEF message_type_from_string
    <1> QED BY <1>1, <1>6 DEF u

\* The response's document.
LEMMA ReplyIs ==
    ASSUME NEW m, m.type \in DOMAIN response_type, NEW seed
    PROVE  LET r == as_json(create_response(m, seed))
               body == field(r, "body")
               id == generate_64(seed)
           IN  /\ type_of(r) = "object" /\ type_of(body) = "object"
               /\ contains(r, "src") /\ contains(r, "dest") /\ contains(r, "body")
               /\ field(r, "src") = String(m.to) /\ field(r, "dest") = String(m.from)
               /\ contains(body, "type")
               /\ field(body, "type") = String(message_type_to_string[response_type[m.type]])
               /\ contains(body, "msg_id") <=> is_valid(id)
               /\ is_valid(id) => field(body, "msg_id") = as_json_id(id)
               /\ contains(body, "in_reply_to") <=> is_valid(m.id)
               /\ is_valid(m.id) => field(body, "in_reply_to") = as_json_id(m.id)
               /\ ~contains(body, "is_reply_to")
    <1> DEFINE u == response_type[m.type]
               id == generate_64(seed)
               s == create_response(m, seed)
               r == as_json(s)
               f == BodyFields(u, id, m.id)
               value == [type |-> String(message_type_to_string[u]), msg_id |-> as_json_id(id),
                         in_reply_to |-> as_json_id(m.id)]
               present == [type |-> u # "INVALID", msg_id |-> is_valid(id),
                           in_reply_to |-> is_valid(m.id)]
    <1>1. u # "INVALID" BY ResponseTypes
    <1>2. f = [key \in {k \in DOMAIN present : present[k]} |-> value[key]] BY DEF BodyFields
    <1>3. s = MakeMessage(u, id, m.id, m.to, m.from) BY DEF create_response
    <1> HIDE DEF u, id, s
    <1>4. DOMAIN present = {"type", "msg_id", "in_reply_to"} OBVIOUS
    <1>5. present["type"] <=> u # "INVALID" BY Zenon
    <1>6. present["msg_id"] <=> is_valid(id) BY Zenon
    <1>7. present["in_reply_to"] <=> is_valid(m.id) BY Zenon
    <1>8. /\ value["type"] = String(message_type_to_string[u]) /\ value["msg_id"] = as_json_id(id)
          /\ value["in_reply_to"] = as_json_id(m.id)
        BY Zenon
    <1> HIDE DEF present, value, f
    <1>9. /\ "type" \in DOMAIN f
          /\ "msg_id" \in DOMAIN f <=> is_valid(id)
          /\ "in_reply_to" \in DOMAIN f <=> is_valid(m.id)
          /\ "is_reply_to" \notin DOMAIN f
        BY <1>1, <1>2, <1>4, <1>5, <1>6, <1>7
    <1>10. /\ f["type"] = String(message_type_to_string[u])
           /\ is_valid(id) => f["msg_id"] = as_json_id(id)
           /\ is_valid(m.id) => f["in_reply_to"] = as_json_id(m.id)
        BY <1>1, <1>2, <1>4, <1>5, <1>6, <1>7, <1>8
    <1>11. s.from = m.to /\ s.to = m.from /\ s.body = Object(f)
        <2>1. DOMAIN f # {} BY <1>9
        <2>2. BodyOf(f) = Object(f) BY <2>1 DEF BodyOf
        <2> QED BY <1>3, <2>2 DEF MakeMessage, f
    <1> DEFINE g == [src |-> String(s.from), dest |-> String(s.to), body |-> s.body]
    <1>12. r = Object(g) BY DEF as_json
    <1>13. DOMAIN g = {"src", "dest", "body"} /\ g["src"] = String(m.to) /\ g["dest"] = String(m.from)
           /\ g["body"] = Object(f)
        BY <1>11, Zenon
    <1> HIDE DEF g, r
    <1>14. \A h : type_of(Object(h)) = "object" /\ get(Object(h)) = h BY DEF type_of, get, Object, Json
    <1>15. field(r, "body") = Object(f) BY <1>12, <1>13, <1>14 DEF field
    <1>16. /\ contains(r, "src") /\ contains(r, "dest") /\ contains(r, "body")
           /\ field(r, "src") = String(m.to) /\ field(r, "dest") = String(m.from)
        BY <1>12, <1>13, <1>14 DEF contains, field, is_object
    <1>17. \A k : /\ contains(Object(f), k) <=> k \in DOMAIN f
                  /\ field(Object(f), k) = f[k]
        BY <1>14 DEF contains, field, is_object
    <1>18. type_of(r) = "object" /\ type_of(Object(f)) = "object" BY <1>12, <1>14
    <1> QED BY <1>9, <1>10, <1>15, <1>16, <1>17, <1>18 DEF r, s, id, u

-----------------------------------------------------------------------------
(* The exchange *)

\* A message is what parse made of the request, and a reply is the response
\* to it for some seed.
ExchangeInv ==
    /\ request = None \/ request \in Documents
    /\ message.outcome = "value" => request # None /\ message = parse(request)
    /\ reply # None =>
          /\ message.outcome = "value" /\ message.value.type \in DOMAIN response_type
          /\ \E seed \in random_device : reply = as_json(create_response(message.value, seed))

\* ExchangeInv is an invariant of every exchange.
THEOREM ExchangeInvariant == Spec => []ExchangeInv
    <1>1. Init => ExchangeInv BY Outcomes DEF Init, ExchangeInv
    <1>2. ExchangeInv /\ [Next]_vars => ExchangeInv'
        <2> SUFFICES ASSUME ExchangeInv, [Next]_vars PROVE ExchangeInv' OBVIOUS
        <2>1. ASSUME NEW doc \in Documents, Send(doc) PROVE ExchangeInv'
            <3>1. /\ request = None /\ request' = doc
                  /\ message' = message /\ reply' = reply
                BY <2>1 DEF Send
            <3>2. message.outcome # "value" /\ reply = None BY <3>1 DEF ExchangeInv
            <3> QED BY <3>1, <3>2 DEF ExchangeInv
        <2>2. CASE Parse
            <3>1. /\ request # None /\ message = NullOpt /\ message' = parse(request)
                  /\ request' = request /\ reply' = reply
                BY <2>2 DEF Parse
            <3>2. message.outcome # "value" BY <3>1, Outcomes
            <3>3. reply = None BY <3>2 DEF ExchangeInv
            <3> QED BY <3>1, <3>3 DEF ExchangeInv
        <2>3. ASSUME NEW seed \in random_device, Respond(seed) PROVE ExchangeInv'
            BY <2>3 DEF Respond, ExchangeInv
        <2>4. CASE ParseReply BY <2>4 DEF ParseReply, ExchangeInv
        <2>5. CASE UNCHANGED vars BY <2>5 DEF vars, ExchangeInv
        <2> QED BY <2>1, <2>2, <2>3, <2>4, <2>5 DEF Next
    <1> QED BY <1>1, <1>2, PTL DEF Spec

\* The program reads its own responses, for ids of every size and every
\* generator: type, addresses and the id that generate_64 drew.
THEOREM RepliesParse == Spec => []OwnRepliesParse
    <1>1. ExchangeInv => OwnRepliesParse
        <2> SUFFICES ASSUME ExchangeInv, reply # None PROVE OwnRepliesParse BY DEF OwnRepliesParse
        <2> DEFINE m == message.value
                   body == field(reply, "body")
                   u == response_type[m.type]
        <2>1. m.type \in DOMAIN response_type BY DEF ExchangeInv
        <2>2. PICK seed \in random_device : reply = as_json(create_response(m, seed)) BY DEF ExchangeInv
        <2> DEFINE id == generate_64(seed)
                   j == field(body, "msg_id")
        <2>3. /\ type_of(reply) = "object" /\ type_of(body) = "object"
              /\ contains(reply, "src") /\ contains(reply, "dest") /\ contains(reply, "body")
              /\ field(reply, "src") = String(m.to) /\ field(reply, "dest") = String(m.from)
              /\ contains(body, "type")
              /\ field(body, "type") = String(message_type_to_string[u])
              /\ contains(body, "msg_id") <=> is_valid(id)
              /\ is_valid(id) => j = as_json_id(id)
              /\ ~contains(body, "is_reply_to")
            BY <2>1, <2>2, ReplyIs
        <2>4. id \in SnowflakeSet /\ id.m_least_sig = 0 BY GeneratedIds
        <2>5. u # "INVALID" /\ message_type_from_string(message_type_to_string[u]) = u
            BY <2>1, ResponseTypes
        <2> HIDE DEF m, body, u, id, j
        <2>6. \A x : is_string(String(x)) /\ get(String(x)) = x
            BY DEF is_string, String, type_of, get, Json
        <2>7. RequiredFieldsPresent(reply)
            BY <2>3, <2>6 DEF RequiredFieldsPresent, is_object, body
        <2>8. IdField(body, "msg_id") = Some(id)
            <3>1. CASE is_valid(id)
                <4>1. IdField(body, "msg_id") = ValueOrInvalid(from_json_id(j))
                    BY <2>3, <3>1 DEF IdField, j
                <4>2. from_json_id(j) = Some(id) BY <2>3, <2>4, <3>1, IdsInvert
                <4> QED BY <4>1, <4>2, Outcomes DEF ValueOrInvalid
            <3>2. CASE ~is_valid(id)
                <4>1. id.m_most_sig = 0 BY <3>2 DEF is_valid
                <4>2. id = invalid_snowflake BY <2>4, <4>1, SnowflakeIs DEF invalid_snowflake
                <4> QED BY <2>3, <3>2, <4>2 DEF IdField
            <3> QED BY <3>1, <3>2
        <2>9. IdField(body, "is_reply_to") = Some(invalid_snowflake) BY <2>3 DEF IdField
        <2>10. message_type_from_string(get(field(body, "type"))) = u BY <2>3, <2>5, <2>6
        <2>11. parse(reply) = FromFields(reply, u, Some(id), Some(invalid_snowflake))
            BY <2>3, <2>7, <2>8, <2>9, <2>10 DEF parse, from_json, body
        <2> DEFINE rec == [type |-> u, id |-> Some(id).value, reply_id |-> Some(invalid_snowflake).value,
                           from |-> get(field(reply, "src")), to |-> get(field(reply, "dest")),
                           body |-> field(reply, "body")]
        <2>12. parse(reply) = Some(rec) BY <2>5, <2>11, Outcomes DEF FromFields
        <2>13. rec.type = u /\ rec.from = m.to /\ rec.to = m.from /\ rec.id = id
            BY <2>3, <2>6, Outcomes
        <2> HIDE DEF rec
        <2>14. parse(reply).outcome = "value" /\ parse(reply).value = rec BY <2>12, Outcomes
        <2> QED BY <2>13, <2>14 DEF OwnRepliesParse, m, u, id
    <1> QED BY <1>1, ExchangeInvariant, PTL

\* A client gets its own msg_id back in the form in which it sent it, for
\* ids of every size and every generator.
THEOREM RepliesNameTheirRequest == Spec => []ReplyNamesRequest
    <1>1. ExchangeInv => ReplyNamesRequest
        <2> SUFFICES ASSUME ExchangeInv, reply # None, HasRequestId, Echoable(RequestId)
                     PROVE  /\ contains(field(reply, "body"), "in_reply_to")
                            /\ field(field(reply, "body"), "in_reply_to") = RequestId
            BY DEF ReplyNamesRequest
        <2> DEFINE m == message.value
                   j == RequestId
        <2>1. /\ request \in Documents /\ parse(request).outcome = "value" /\ m = parse(request).value
              /\ m.type \in DOMAIN response_type
            BY DEF ExchangeInv
        <2>2. PICK seed \in random_device : reply = as_json(create_response(m, seed)) BY DEF ExchangeInv
        <2>3. /\ contains(field(reply, "body"), "in_reply_to") <=> is_valid(m.id)
              /\ is_valid(m.id) => field(field(reply, "body"), "in_reply_to") = as_json_id(m.id)
            BY <2>1, <2>2, ReplyIs
        <2>4. \/ from_json_id(j) = Some(m.id)
              \/ from_json_id(j) = NullOpt
            BY <2>1, ParsedId DEF RequestId, HasRequestId
        <2>5. IsId(j)
            <3>1. RequiredFieldsPresent(request) BY <2>1, Outcomes DEF parse, from_json
            <3> QED BY <2>1, <3>1, DocumentsAssumption DEF RequestId, HasRequestId
        <2> SUFFICES is_valid(m.id) /\ as_json_id(m.id) = j BY <2>3
        <2> HIDE DEF m, j
        <2>6. CASE type_of(j) = "number_unsigned" /\ get(j) \in Word \ {0}
            <3> DEFINE n == get(j)
            <3>1. from_json_id(j) = from_json_number(n) BY <2>6 DEF from_json_id
            <3>2. n \in Int /\ n \in Word /\ n # 0 BY <2>6 DEF Word
            <3>3. j = Json("number_unsigned", n) BY <2>5, <2>6 DEF IsId
            <3> HIDE DEF n
            <3>4. from_json_number(n) = Some(MakeSnowflake(n, 0)) BY <3>2, NumberIds
            <3>5. m.id = MakeSnowflake(n, 0) BY <2>4, <3>1, <3>4, Outcomes
            <3>6. m.id.m_most_sig = n /\ m.id.m_least_sig = 0 BY <3>5 DEF MakeSnowflake
            <3> QED BY <3>2, <3>3, <3>6 DEF is_valid, as_json_id
        <2>7. CASE \E seed2 \in random_device :
                      is_valid(generate(seed2)) /\ j = as_json_id(generate(seed2))
            <3>1. PICK seed2 \in random_device :
                      is_valid(generate(seed2)) /\ j = as_json_id(generate(seed2))
                BY <2>7
            <3>2. generate(seed2) \in SnowflakeSet BY GeneratedIds
            <3>3. from_json_id(j) = Some(generate(seed2)) BY <3>1, <3>2, IdsInvert
            <3>4. m.id = generate(seed2) BY <2>4, <3>3, Outcomes
            <3> QED BY <3>1, <3>4
        <2> QED BY <2>6, <2>7 DEF Echoable, j
    <1> QED BY <1>1, ExchangeInvariant, PTL

\* Equal optionals hold the same.
LEMMA SameContents ==
    ASSUME NEW x, NEW y, Some(x) = Some(y) PROVE x = y
    <1>1. Some(x).value = x /\ Some(y).value = y BY Outcomes
    <1> QED BY <1>1

\* What decode_base64 makes of a text, if it is not nothing, is by definition.
LEMMA TextOfBytes ==
    ASSUME NEW t \in Seq(Byte), decode_base64(t).outcome = "value", decode_base64(t).value # <<>>
    PROVE  IsText(t) /\ decode_base64(t).value = RefDecode(t)
    <1>1. Len(t) \in Nat OBVIOUS
    <1>2. Len(t) > 1
        <2>1. Len(t) <= 1 => decode_base64(t) = Some(<<>>) BY DecodesAs
        <2> QED BY <1>1, <2>1, Outcomes
    <1>3. decode_base64(t) = IF IsText(t) THEN Some(RefDecode(t)) ELSE NullOpt
        BY <1>1, <1>2, DecodesAs
    <1> QED BY <1>3, Outcomes

\* from_json_string reads the id that the text denotes.
LEMMA TextDenotes ==
    ASSUME NEW t \in Seq(Byte), NEW id, from_json_string(t) = Some(id)
    PROVE  /\ IsText(t)
           /\ Len(RefDecode(t)) # 2 * WordBytes => IsText(RefDecode(t))
           /\ Len(IdBytes(t)) = 2 * WordBytes
           /\ BytesToSnowflake(IdBytes(t)) = id
    <1> DEFINE u == decode_base64(t)
               w == decode_base64(u.value)
    <1>1. u.outcome = "value" => u.value \in Seq(Byte) BY DecodesToBytes
    <1>2. from_json_string(t) = IF u.outcome = "value" /\ ~HoldsId(u) THEN IdOf(w) ELSE IdOf(u)
        BY DEF from_json_string, IdOfEither
    <1>3. \A x : IdOf(x) = Some(id) =>
             /\ x.outcome = "value" /\ Len(x.value) = 2 * WordBytes /\ x.value # <<>>
             /\ BytesToSnowflake(x.value) = id
        <2> SUFFICES ASSUME NEW x, IdOf(x) = Some(id)
                     PROVE  /\ x.outcome = "value" /\ Len(x.value) = 2 * WordBytes /\ x.value # <<>>
                            /\ BytesToSnowflake(x.value) = id
            OBVIOUS
        <2>1. HoldsId(x) BY Outcomes DEF IdOf
        <2>2. Some(BytesToSnowflake(x.value)) = Some(id) BY <2>1 DEF IdOf
        <2>3. BytesToSnowflake(x.value) = id BY <2>2, Outcomes
        <2>4. x.value # <<>>
            <3>1. 2 * WordBytes # 0 BY WordAssumption
            <3> QED BY <2>1, <3>1 DEF HoldsId
        <2> QED BY <2>1, <2>3, <2>4 DEF HoldsId
    <1>4. u.outcome = "value" /\ u.value # <<>> => IsText(t) /\ u.value = RefDecode(t)
        BY TextOfBytes
    <1>5. CASE IdOf(u) = Some(id)
        <2>1. u.outcome = "value" /\ Len(u.value) = 2 * WordBytes /\ u.value # <<>> /\ BytesToSnowflake(u.value) = id
            BY <1>3, <1>5
        <2>2. IsText(t) /\ u.value = RefDecode(t) BY <1>4, <2>1
        <2> HIDE DEF u, w
        <2> QED BY <2>1, <2>2 DEF IdBytes
    <1>6. CASE u.outcome = "value" /\ ~HoldsId(u) /\ IdOf(w) = Some(id)
        <2>1. w.outcome = "value" /\ Len(w.value) = 2 * WordBytes /\ w.value # <<>> /\ BytesToSnowflake(w.value) = id
            BY <1>3, <1>6
        <2>2. u.value \in Seq(Byte) BY <1>1, <1>6
        <2>3. IsText(u.value) /\ w.value = RefDecode(u.value) BY <2>1, <2>2, TextOfBytes
        <2>4. u.value # <<>>
            <3>1. Len(u.value) <= 1 => w = Some(<<>>) BY <2>2, DecodesAs
            <3>2. ~(Len(u.value) <= 1) BY <2>1, <3>1, Outcomes
            <3> QED BY <3>2
        <2>5. IsText(t) /\ u.value = RefDecode(t) BY <1>4, <1>6, <2>4
        <2>6. Len(u.value) # 2 * WordBytes BY <1>6 DEF HoldsId
        <2> HIDE DEF u, w
        <2> QED BY <2>1, <2>3, <2>5, <2>6 DEF IdBytes
    <1> QED BY <1>2, <1>5, <1>6

\* from_json reads the id that a JSON value denotes, or that of the bits of
\* a negative number.
LEMMA ReadsAsDenoted ==
    ASSUME NEW j, IsId(j), NEW id \in SnowflakeSet, is_valid(id), from_json_id(j) = Some(id)
    PROVE  \/ DenotesId(j) /\ IdMeant(j) = id
           \/ /\ type_of(j) = "number_integer" /\ get(j) < 0
              /\ id = MakeSnowflake(get(j) + Power256[WordBytes], 0)
    <1> DEFINE v == get(j)
    <1>1. CASE type_of(j) = "array"
        <2>1. from_json_id(j) = from_json_array(v) BY <1>1 DEF from_json_id
        <2> QED BY <2>1, Outcomes DEF from_json_array
    <1>2. CASE type_of(j) = "string"
        <2>1. from_json_string(v) = Some(id) BY <1>2 DEF from_json_id
        <2>2. v \in Seq(Byte) BY <1>2 DEF IsId
        <2> HIDE DEF v
        <2>3. /\ IsText(v) /\ (Len(RefDecode(v)) # 2 * WordBytes => IsText(RefDecode(v)))
              /\ Len(IdBytes(v)) = 2 * WordBytes /\ BytesToSnowflake(IdBytes(v)) = id
            BY <2>1, <2>2, TextDenotes
        <2> QED BY <1>2, <2>3 DEF DenotesId, IdMeant, v
    <1>3. CASE type_of(j) = "number_unsigned"
        <2>1. from_json_number(v) = Some(id) BY <1>3 DEF from_json_id
        <2>2. v \in Word /\ v \in Int BY <1>3, IntegerId DEF IsId
        <2> HIDE DEF v
        <2>3. from_json_number(v) = Some(MakeSnowflake(v, 0)) BY <2>2, NumberIds
        <2>4. id = MakeSnowflake(v, 0)
            <3>1. Some(id) = Some(MakeSnowflake(v, 0)) BY <2>1, <2>3
            <3> QED BY <3>1, SameContents
        <2> QED BY <1>3, <2>2, <2>4 DEF DenotesId, IdMeant, v
    <1>4. CASE type_of(j) = "number_integer"
        <2>1. from_json_number(v) = Some(id) BY <1>4 DEF from_json_id
        <2>2. v \in Int /\ v \in -(Power256[WordBytes] \div 2) .. 0 BY <1>4, IntegerId DEF IsId
        <2>3. Power256[WordBytes] \in Nat \ {0} BY WordAssumption, PowersArePositive
        <2>4. v # 0
            <3>1. ASSUME v = 0 PROVE FALSE
                <4>1. 0 \in Word BY <2>3 DEF Word
                <4>2. from_json_number(0) = Some(MakeSnowflake(0, 0)) BY <4>1, NumberIds
                <4>3. id = invalid_snowflake BY <2>1, <3>1, <4>2, Outcomes DEF invalid_snowflake
                <4> QED BY <4>3, InvalidId
            <3> QED BY <3>1
        <2> HIDE DEF v
        <2> DEFINE p == Power256[WordBytes]
        <2>5. v \in -(p \div 2) .. -1 /\ v < 0
            <3> HIDE DEF p
            <3>1. p \in Nat \ {0} BY <2>3 DEF p
            <3>2. v \in -(p \div 2) .. 0 BY <2>2 DEF p
            <3> QED BY <2>2, <2>4, <3>1, <3>2
        <2>6. from_json_number(v) = Some(MakeSnowflake(v + p, 0)) BY <2>2, <2>5, NumberIds
        <2>7. id = MakeSnowflake(v + p, 0)
            <3>1. Some(id) = Some(MakeSnowflake(v + p, 0)) BY <2>1, <2>6
            <3> QED BY <3>1, SameContents
        <2> QED BY <1>4, <2>5, <2>7 DEF v
    <1>5. CASE type_of(j) \notin {"array", "string", "number_unsigned", "number_integer"}
        <2>1. from_json_id(j) = NullOpt BY <1>5 DEF from_json_id
        <2> QED BY <2>1, Outcomes
    <1> QED BY <1>1, <1>2, <1>3, <1>4, <1>5

\* A response names no request but its own, whatever the client sent as its
\* msg_id, up to the bits of a negative number; the ids are compared by what
\* the numbers and texts denote.
THEOREM NoForeignReplies == Spec => []NoFalseCorrelation
    <1>1. ExchangeInv => NoFalseCorrelation
        <2> DEFINE r == field(field(reply, "body"), "in_reply_to")
                   m == message.value
                   j == RequestId
        <2> SUFFICES ASSUME ExchangeInv, reply # None, contains(field(reply, "body"), "in_reply_to")
                     PROVE  /\ HasRequestId
                            /\ DenotesId(r) /\ IdMeant(r) # invalid_snowflake
                            /\ \/ DenotesId(j) /\ IdMeant(r) = IdMeant(j)
                               \/ /\ type_of(j) = "number_integer" /\ get(j) < 0
                                  /\ IdMeant(r) = MakeSnowflake(get(j) + Power256[WordBytes], 0)
            BY DEF NoFalseCorrelation
        <2>1. /\ request \in Documents /\ parse(request).outcome = "value" /\ m = parse(request).value
              /\ m.type \in DOMAIN response_type
            BY DEF ExchangeInv
        <2>2. PICK seed \in random_device : reply = as_json(create_response(m, seed)) BY DEF ExchangeInv
        <2>3. is_valid(m.id) /\ r = as_json_id(m.id)
            BY <2>1, <2>2, ReplyIs
        <2>4. /\ m.id \in SnowflakeSet
              /\ HasRequestId => from_json_id(j) = Some(m.id) \/ ~is_valid(m.id)
              /\ ~HasRequestId => ~is_valid(m.id)
            BY <2>1, ParsedId DEF RequestId, HasRequestId
        <2>5. from_json_id(r) = Some(m.id) /\ IsId(r) BY <2>3, <2>4, IdsInvert
        <2>6. IsId(j)
            <3>1. RequiredFieldsPresent(request) BY <2>1, Outcomes DEF parse, from_json
            <3>2. HasRequestId BY <2>3, <2>4
            <3> QED BY <2>1, <3>1, <3>2, DocumentsAssumption DEF RequestId, HasRequestId
        <2>7. type_of(r) # "number_integer"
            BY <2>3 DEF as_json_id, type_of, Json
        <2> DEFINE id == m.id
        <2>8. is_valid(id) /\ id \in SnowflakeSet /\ from_json_id(r) = Some(id) /\ from_json_id(j) = Some(id)
            BY <2>3, <2>4, <2>5
        <2> HIDE DEF r, j, id
        <2>9. DenotesId(r) /\ IdMeant(r) = id BY <2>5, <2>7, <2>8, ReadsAsDenoted
        <2>10. \/ DenotesId(j) /\ IdMeant(j) = id
               \/ /\ type_of(j) = "number_integer" /\ get(j) < 0
                  /\ id = MakeSnowflake(get(j) + Power256[WordBytes], 0)
            BY <2>6, <2>8, ReadsAsDenoted
        <2>11. id # invalid_snowflake BY <2>8, InvalidId
        <2>12. HasRequestId BY <2>3, <2>4
        <2> QED BY <2>9, <2>10, <2>11, <2>12
    <1> QED BY <1>1, ExchangeInvariant, PTL
==============================================================================
