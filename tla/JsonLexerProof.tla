-------------------------- MODULE JsonLexerProof ---------------------------
(***************************************************************************)
(* The lexer's position and token string are exact on every text, however  *)
(* long, and no loop of the lexer runs past the end of the input.          *)
(***************************************************************************)
EXTENDS JsonLexer, FiniteSetTheorems, SequenceTheorems, TLAPS

-----------------------------------------------------------------------------
(* The invariant *)

Bytes == 0..255

IsLexer(l) ==
    l = [current |-> l.current, next_unget |-> l.next_unget, position |-> l.position,
         token_string |-> l.token_string, token_buffer |-> l.token_buffer,
         decimal_point_position |-> l.decimal_point_position]

\* The position of l is that of its last byte in t.  A newline that was
\* ungot leaves column 0, not the column it was found at.
IsAt(l, t) ==
    /\ t # <<>> /\ Last(t) = l.current
    /\ l.position.chars_read_total = Len(Used(l, t))
    /\ ~(l.next_unget /\ l.current = Newline) =>
          IsColumn(l.position.chars_read_current_line, Used(l, t))

\* The members of the lexer are right about the bytes t read so far.
Tracks(l, t) ==
    /\ IsLexer(l)
    /\ l.current \in Bytes \cup {Eof}
    /\ l.next_unget \in BOOLEAN
    /\ l.position.chars_read_total \in Nat
    /\ l.position.chars_read_current_line \in Nat
    /\ l.position.lines_read = Cardinality(Newlines(Used(l, t)))
    /\ l.token_string \in Seq(Int)
    /\ Ends(Used(l, t), l.token_string)
    /\ l.current # Eof => IsAt(l, t)

\* What the local variables hold, where the next step depends on it.
ArgFits ==
    /\ pc = "bom" => arg \in {<<187, 191>>, <<191>>}
    /\ pc = "literal" =>
          \E name \in DOMAIN Literals : \E i \in 1..Len(Literals[name]) : arg = <<name, i>>
    /\ pc = "bytes" => arg \in Seq(SUBSET Bytes) /\ arg # <<>>
    /\ pc = "surrogate" => arg[1] \in {Backslash, Letter_u}

\* Where the end of the input can have been read: nowhere; not yet; once
\* and put back; once or twice, by a line comment and by the token that
\* ends the parse; or scan() has returned for good.
EndIsNear ==
    \/ lexer.current # Eof /\ ArgFits
    \/ lexer = NewLexer /\ text = <<>> /\ pc = "bom" /\ arg = <<>>
    \/ /\ lexer.current = Eof /\ lexer.next_unget
       /\ lexer.position.chars_read_total = Len(text)
       /\ pc \in {"scan", "block comment"}
    \/ /\ lexer.current = Eof /\ ~lexer.next_unget
       /\ lexer.position.chars_read_total # 0
       /\ \/ lexer.position.chars_read_total <= Len(text) + 1
          \/ parser = "ending" /\ lexer.position.chars_read_total <= Len(text) + 2
       /\ pc = "scan"
    \/ pc = "stopped" /\ lexer.position.chars_read_total <= Len(text) + 3

LexInv ==
    /\ form \in Shapes
    /\ text \in Seq(Bytes)
    /\ Tracks(lexer, text)
    /\ EndIsNear

-----------------------------------------------------------------------------
(* Sequences of bytes *)

LEMMA AppendFacts ==
    ASSUME NEW S, NEW s \in Seq(S), NEW e \in S
    PROVE  /\ Append(s, e) \in Seq(S)
           /\ Len(Append(s, e)) = Len(s) + 1
           /\ DOMAIN Append(s, e) = 1..Len(s) + 1
           /\ \A i \in 1..Len(s) : Append(s, e)[i] = s[i]
           /\ Append(s, e)[Len(s) + 1] = e
           /\ Append(s, e) # <<>>
           /\ Last(Append(s, e)) = e
    BY DEF Last

LEMMA PrefixFacts ==
    ASSUME NEW S, NEW s \in Seq(S), NEW i \in 1..Len(s)
    PROVE  /\ SubSeq(s, 1, i - 1) \in Seq(S)
           /\ Len(SubSeq(s, 1, i - 1)) = i - 1
           /\ \A k \in 1..i - 1 : SubSeq(s, 1, i - 1)[k] = s[k]
    <1>1. Len(s) \in Nat /\ i \in Nat /\ 1 <= i /\ i <= Len(s) /\ \A k \in 1..Len(s) : s[k] \in S
        OBVIOUS
    <1> QED BY <1>1, SubSeqProperties

LEMMA FrontFacts ==
    ASSUME NEW S, NEW s \in Seq(S), s # <<>>
    PROVE  /\ Front(s) \in Seq(S)
           /\ Len(s) \in Nat \ {0}
           /\ Len(Front(s)) = Len(s) - 1
           /\ \A i \in 1..Len(s) - 1 : Front(s)[i] = s[i]
           /\ Last(s) = s[Len(s)] /\ Last(s) \in S
    <1> DEFINE n == Len(s)
    <1>1. n \in Nat \ {0} /\ n \in 1..n /\ \A i \in 1..n : s[i] \in S
        OBVIOUS
    <1>2. /\ SubSeq(s, 1, n - 1) \in Seq(S)
          /\ Len(SubSeq(s, 1, n - 1)) = n - 1
          /\ \A i \in 1..n - 1 : SubSeq(s, 1, n - 1)[i] = s[i]
        BY <1>1, PrefixFacts
    <1>3. Front(s) = SubSeq(s, 1, n - 1) /\ Last(s) = s[n]
        BY DEF Front, Last
    <1> QED BY <1>1, <1>2, <1>3

LEMMA SplitLast ==
    ASSUME NEW S, NEW s \in Seq(S), s # <<>>
    PROVE  s = Append(Front(s), Last(s))
    <1> DEFINE f == Front(s)
               n == Len(s)
               a == Append(f, Last(s))
    <1>1. /\ f \in Seq(S) /\ n \in Nat \ {0} /\ Len(f) = n - 1 /\ Last(s) \in S /\ Last(s) = s[n]
          /\ \A i \in 1..n - 1 : f[i] = s[i]
        BY FrontFacts
    <1> HIDE DEF f
    <1>2. /\ a \in Seq(S) /\ Len(a) = Len(f) + 1 /\ \A i \in 1..Len(f) : a[i] = f[i]
          /\ a[Len(f) + 1] = Last(s)
        BY <1>1, AppendFacts
    <1> HIDE DEF a
    <1>3. Len(a) = n /\ \A i \in 1..n : i \in 1..n - 1 \/ i = n
        BY <1>1, <1>2
    <1>4. \A i \in 1..n : a[i] = s[i]
        <2> SUFFICES ASSUME NEW i \in 1..n PROVE a[i] = s[i] OBVIOUS
        <2>1. CASE i \in 1..n - 1 BY <1>1, <1>2, <2>1
        <2>2. CASE i = n BY <1>1, <1>2, <2>2
        <2> QED BY <1>3, <2>1, <2>2
    <1>5. a = s
        BY <1>2, <1>3, <1>4, SeqEqual
    <1> QED BY <1>5 DEF a, f

\* The newlines of a text that grows by one byte.
LEMMA NewlinesOfAppend ==
    ASSUME NEW s \in Seq(Bytes), NEW c \in Bytes
    PROVE  /\ Newlines(Append(s, c)) =
                 IF c = Newline THEN Newlines(s) \cup {Len(s) + 1} ELSE Newlines(s)
           /\ IsFiniteSet(Newlines(s)) /\ Newlines(s) \subseteq 1..Len(s)
           /\ Cardinality(Newlines(s)) \in Nat
           /\ Cardinality(Newlines(Append(s, c))) =
                 IF c = Newline THEN Cardinality(Newlines(s)) + 1 ELSE Cardinality(Newlines(s))
    <1> DEFINE a == Append(s, c)
               n == Len(s)
    <1>1. /\ DOMAIN a = 1..n + 1 /\ a[n + 1] = c /\ n \in Nat /\ DOMAIN s = 1..n
          /\ \A i \in 1..n : a[i] = s[i]
        BY AppendFacts
    <1> HIDE DEF a
    <1>2. \A i \in 1..n + 1 : i \in 1..n \/ i = n + 1
        BY <1>1
    <1>3. 1..n \subseteq 1..n + 1 /\ n + 1 \in 1..n + 1 /\ n + 1 \notin 1..n
        BY <1>1
    <1>4. Newlines(a) = IF c = Newline THEN Newlines(s) \cup {n + 1} ELSE Newlines(s)
        <2>1. \A i : i \in Newlines(a) <=> i \in Newlines(s) \/ (i = n + 1 /\ c = Newline)
            BY <1>1, <1>2, <1>3 DEF Newlines
        <2> QED BY <2>1
    <1>5. Newlines(s) \subseteq 1..n
        BY <1>1 DEF Newlines
    <1>6. IsFiniteSet(1..n)
        BY <1>1, FS_Interval
    <1>7. IsFiniteSet(Newlines(s))
        BY <1>5, <1>6, FS_Subset
    <1>8. Cardinality(Newlines(s)) \in Nat
        BY <1>7, FS_CardinalityType
    <1>9. n + 1 \notin Newlines(s)
        BY <1>3, <1>5
    <1>10. Cardinality(Newlines(s) \cup {n + 1}) = Cardinality(Newlines(s)) + 1
        BY <1>7, <1>9, FS_AddElement
    <1> QED BY <1>4, <1>5, <1>7, <1>8, <1>10 DEF a

LEMMA ColumnOfAppend ==
    ASSUME NEW s \in Seq(Bytes), NEW c \in Bytes
    PROVE  /\ c = Newline => \A k : IsColumn(k, Append(s, c)) <=> k = 0
           /\ c # Newline => \A k : IsColumn(k, Append(s, c)) <=>
                                       k \in Nat \ {0} /\ IsColumn(k - 1, s)
           /\ c # Newline => \A k \in Nat : IsColumn(k, s) => IsColumn(k + 1, Append(s, c))
    <1> DEFINE a == Append(s, c)
               n == Len(s)
    <1>1. /\ Newlines(a) = IF c = Newline THEN Newlines(s) \cup {n + 1} ELSE Newlines(s)
          /\ Newlines(s) \subseteq 1..n
        BY NewlinesOfAppend
    <1>2. Len(a) = n + 1 /\ n \in Nat
        BY AppendFacts
    <1> HIDE DEF a, n
    <1>3. ASSUME c = Newline, NEW k
          PROVE  IsColumn(k, a) <=> k = 0
        <2>1. Newlines(a) = Newlines(s) \cup {n + 1} BY <1>1, <1>3
        <2>2. \A i \in Newlines(a) : i <= n + 1 /\ i \in Nat BY <1>1, <1>2, <2>1
        <2>3. n + 1 \in Newlines(a) BY <2>1
        <2>4. ASSUME k = 0 PROVE IsColumn(k, a)
            BY <1>2, <2>2, <2>3, <2>4 DEF IsColumn
        <2>5. ASSUME IsColumn(k, a) PROVE k = 0
            <3>1. PICK start \in {0} \cup Newlines(a) :
                     (\A i \in Newlines(a) : i <= start) /\ k = Len(a) - start
                BY <2>5 DEF IsColumn
            <3>2. n + 1 <= start /\ start \in Nat /\ start <= n + 1
                BY <1>2, <2>2, <2>3, <3>1
            <3> QED BY <1>2, <3>1, <3>2
        <2> QED BY <2>4, <2>5
    <1>4. ASSUME c # Newline, NEW k
          PROVE  IsColumn(k, a) <=> k \in Nat \ {0} /\ IsColumn(k - 1, s)
        <2>1. Newlines(a) = Newlines(s) BY <1>1, <1>4
        <2>2. \A i \in {0} \cup Newlines(s) : i \in Nat /\ i <= n BY <1>1, <1>2
        <2>3. ASSUME IsColumn(k, a) PROVE k \in Nat \ {0} /\ IsColumn(k - 1, s)
            <3>1. PICK start \in {0} \cup Newlines(s) :
                     (\A i \in Newlines(s) : i <= start) /\ k = n + 1 - start
                BY <1>2, <2>1, <2>3 DEF IsColumn
            <3>2. start \in Nat /\ start <= n BY <2>2, <3>1
            <3>3. k \in Nat \ {0} /\ k - 1 = n - start BY <1>2, <3>1, <3>2
            <3> QED BY <3>1, <3>3 DEF IsColumn, n
        <2>4. ASSUME k \in Nat \ {0}, IsColumn(k - 1, s) PROVE IsColumn(k, a)
            <3>1. PICK start \in {0} \cup Newlines(s) :
                     (\A i \in Newlines(s) : i <= start) /\ k - 1 = n - start
                BY <2>4 DEF IsColumn, n
            <3>2. start \in Nat BY <2>2, <3>1
            <3>3. k = Len(a) - start BY <1>2, <2>4, <3>1, <3>2
            <3> QED BY <2>1, <3>1, <3>3 DEF IsColumn
        <2> QED BY <2>3, <2>4
    <1>5. ASSUME c # Newline, NEW k \in Nat, IsColumn(k, s)
          PROVE  IsColumn(k + 1, a)
        <2>1. PICK start \in {0} \cup Newlines(s) :
                 (\A i \in Newlines(s) : i <= start) /\ k = n - start
            BY <1>5 DEF IsColumn, n
        <2>2. start \in Nat BY <1>1, <1>2, <2>1
        <2>3. k + 1 = Len(a) - start BY <1>2, <2>1, <2>2
        <2>4. Newlines(a) = Newlines(s) BY <1>1, <1>5
        <2> QED BY <2>1, <2>3, <2>4 DEF IsColumn
    <1> QED BY <1>3, <1>4, <1>5 DEF a

LEMMA EndsOfAppend ==
    ASSUME NEW s \in Seq(Bytes), NEW c \in Bytes, NEW e \in Seq(Int)
    PROVE  /\ Ends(s, e) => Ends(Append(s, c), Append(e, c))
           /\ Ends(Append(s, c), <<c>>)
           /\ Ends(Append(s, c), e) => Ends(s, Front(e))
    <1> DEFINE a == Append(s, c)
               b == Append(e, c)
               n == Len(s)
               m == Len(e)
    <1>1. /\ Len(a) = n + 1 /\ a[n + 1] = c /\ n \in Nat /\ \A i \in 1..n : a[i] = s[i]
        BY AppendFacts
    <1>2. c \in Int BY DEF Bytes
    <1>3. /\ Len(b) = m + 1 /\ b[m + 1] = c /\ m \in Nat /\ \A i \in 1..m : b[i] = e[i]
        BY <1>2, AppendFacts
    <1> HIDE DEF a, b
    <1>4. ASSUME Ends(s, e) PROVE Ends(a, b)
        <2>1. m <= n /\ \A i \in 1..m : e[i] = s[n - m + i]
            BY <1>4 DEF Ends
        <2> HIDE DEF n, m
        <2>2. ASSUME NEW i \in 1..m + 1 PROVE b[i] = a[n + 1 - (m + 1) + i]
            <3>1. CASE i = m + 1
                <4>1. n + 1 - (m + 1) + i = n + 1 BY <1>1, <1>3, <3>1
                <4> QED BY <1>1, <1>3, <3>1, <4>1
            <3>2. CASE i # m + 1
                <4>1. i \in 1..m /\ n + 1 - (m + 1) + i = n - m + i /\ n - m + i \in 1..n
                    BY <1>1, <1>3, <2>1, <3>2
                <4> QED BY <1>1, <1>3, <2>1, <4>1
            <3> QED BY <3>1, <3>2
        <2>3. Len(b) <= Len(a) BY <1>1, <1>3, <2>1
        <2>4. \A i \in 1..Len(b) : b[i] = a[Len(a) - Len(b) + i]
            BY <1>1, <1>3, <2>2
        <2> QED BY <2>3, <2>4 DEF Ends
    <1>5. Ends(a, <<c>>)
        <2>1. Len(<<c>>) = 1 /\ <<c>>[1] = c /\ \A i \in 1..1 : i = 1 OBVIOUS
        <2>2. 1 <= Len(a) /\ Len(a) - 1 + 1 = n + 1 BY <1>1
        <2> QED BY <1>1, <2>1, <2>2 DEF Ends
    <1>6. ASSUME Ends(a, e) PROVE Ends(s, Front(e))
        <2>1. CASE e = <<>>
            <3>1. Front(e) = <<>> BY <2>1, SubSeqEmpty DEF Front
            <3> QED BY <1>1, <3>1 DEF Ends
        <2>2. CASE e # <<>>
            <3> DEFINE f == Front(e)
            <3>1. Len(f) = m - 1 /\ m \in Nat \ {0} /\ \A i \in 1..m - 1 : f[i] = e[i]
                BY <2>2, FrontFacts
            <3>2. m <= n + 1 /\ \A i \in 1..m : e[i] = a[n + 1 - m + i]
                BY <1>1, <1>6 DEF Ends
            <3> HIDE DEF f
            <3> SUFFICES ASSUME NEW i \in 1..m - 1 PROVE f[i] = s[n - (m - 1) + i]
                BY <1>1, <3>1, <3>2 DEF Ends, f
            <3> HIDE DEF n, m
            <3>3. /\ i \in 1..m /\ n + 1 - m + i = n - (m - 1) + i
                  /\ n - (m - 1) + i \in 1..n
                BY <1>1, <3>1, <3>2
            <3> QED BY <1>1, <3>1, <3>2, <3>3
        <2> QED BY <2>1, <2>2
    <1> QED BY <1>4, <1>5, <1>6 DEF a, b
-----------------------------------------------------------------------------
(* get(), unget() and reset() *)

\* The members that the text determines are the same.
Same(l, m) ==
    /\ IsLexer(m)
    /\ m.current = l.current
    /\ m.next_unget = l.next_unget
    /\ m.position = l.position
    /\ m.token_string = l.token_string

LEMMA GetFacts ==
    ASSUME NEW l, IsLexer(l), NEW c
    PROVE  /\ IsLexer(Get(l, c))
           /\ Get(l, c).current = c
           /\ ~Get(l, c).next_unget /\ Get(l, c).next_unget \in BOOLEAN
           /\ Get(l, c).position = Advance(l.position, c)
           /\ c = Eof => Get(l, c).token_string = l.token_string
           /\ c # Eof => Get(l, c).token_string = Append(l.token_string, c)
    <1> DEFINE no == FALSE
               u == [l EXCEPT !.current = c]
               v == [u EXCEPT !.next_unget = no]
               w == [v EXCEPT !.position = Advance(v.position, c)]
               x == IF c = Eof THEN w.token_string ELSE Append(w.token_string, c)
               y == [w EXCEPT !.token_string = x]
    <1>1. Get(l, c) = y
        BY Zenon DEF Get
    <1>2. /\ IsLexer(u) /\ u.current = c /\ u.position = l.position
          /\ u.token_string = l.token_string
        BY DEF IsLexer
    <1> HIDE DEF u, no
    <1>3. /\ IsLexer(v) /\ v.current = c /\ v.next_unget = no
          /\ v.position = l.position /\ v.token_string = l.token_string
        BY <1>2 DEF IsLexer
    <1> HIDE DEF v
    <1> DEFINE p == Advance(v.position, c)
    <1>4. w = [v EXCEPT !.position = p] /\ p = Advance(l.position, c)
        BY <1>3
    <1> HIDE DEF w, p
    <1>5. /\ IsLexer(w) /\ w.current = c /\ w.next_unget = no
          /\ w.position = p /\ w.token_string = l.token_string
        BY <1>3, <1>4 DEF IsLexer
    <1>6. x = IF c = Eof THEN l.token_string ELSE Append(l.token_string, c)
        BY <1>5
    <1> HIDE DEF x
    <1>7. /\ IsLexer(y) /\ y.current = c /\ y.next_unget = no
          /\ y.position = p /\ y.token_string = x
        BY <1>5 DEF IsLexer
    <1> HIDE DEF y
    <1>8. ~no /\ no \in BOOLEAN BY DEF no
    <1>9. /\ c = Eof => x = l.token_string
          /\ c # Eof => x = Append(l.token_string, c)
        BY <1>6
    <1> QED BY <1>1, <1>4, <1>7, <1>8, <1>9, Zenon

LEMMA UngetFacts ==
    ASSUME NEW l, IsLexer(l)
    PROVE  /\ IsLexer(Unget(l))
           /\ Unget(l).current = l.current
           /\ Unget(l).next_unget /\ Unget(l).next_unget \in BOOLEAN
           /\ Unget(l).position = Retreat(l.position)
           /\ l.current = Eof => Unget(l).token_string = l.token_string
           /\ l.current # Eof => Unget(l).token_string = Front(l.token_string)
    <1> DEFINE yes == TRUE
               u == [l EXCEPT !.next_unget = yes]
               w == [u EXCEPT !.position = Retreat(u.position)]
               x == IF l.current = Eof THEN w.token_string ELSE Front(w.token_string)
               y == [w EXCEPT !.token_string = x]
    <1>1. Unget(l) = y
        BY Zenon DEF Unget
    <1> HIDE DEF yes
    <1>2. /\ IsLexer(u) /\ u.current = l.current /\ u.next_unget = yes
          /\ u.position = l.position /\ u.token_string = l.token_string
        BY DEF IsLexer
    <1> HIDE DEF u
    <1> DEFINE p == Retreat(u.position)
    <1>3. w = [u EXCEPT !.position = p] /\ p = Retreat(l.position)
        BY <1>2
    <1> HIDE DEF w, p
    <1>4. /\ IsLexer(w) /\ w.current = l.current /\ w.next_unget = yes
          /\ w.position = p /\ w.token_string = l.token_string
        BY <1>2, <1>3 DEF IsLexer
    <1>5. x = IF l.current = Eof THEN l.token_string ELSE Front(l.token_string)
        BY <1>4
    <1> HIDE DEF x
    <1>6. /\ IsLexer(y) /\ y.current = l.current /\ y.next_unget = yes
          /\ y.position = p /\ y.token_string = x
        BY <1>4 DEF IsLexer
    <1> HIDE DEF y
    <1>7. yes /\ yes \in BOOLEAN BY DEF yes
    <1>8. /\ l.current = Eof => x = l.token_string
          /\ l.current # Eof => x = Front(l.token_string)
        BY <1>5
    <1> QED BY <1>1, <1>3, <1>6, <1>7, <1>8, Zenon

LEMMA ResetFacts ==
    ASSUME NEW l, IsLexer(l)
    PROVE  /\ IsLexer(Reset(l))
           /\ Reset(l).current = l.current
           /\ Reset(l).next_unget = l.next_unget
           /\ Reset(l).position = l.position
           /\ Reset(l).token_string = <<l.current>>
    <1> DEFINE u == [l EXCEPT !.token_buffer = <<>>]
               w == [u EXCEPT !.decimal_point_position = 0]
               x == <<l.current>>
               y == [w EXCEPT !.token_string = x]
    <1>1. Reset(l) = y
        BY Zenon DEF Reset
    <1>2. /\ IsLexer(u) /\ u.current = l.current /\ u.next_unget = l.next_unget
          /\ u.position = l.position
        BY DEF IsLexer
    <1> HIDE DEF u
    <1>3. /\ IsLexer(w) /\ w.current = l.current /\ w.next_unget = l.next_unget
          /\ w.position = l.position
        BY <1>2 DEF IsLexer
    <1> HIDE DEF w, x
    <1>4. /\ IsLexer(y) /\ y.current = l.current /\ y.next_unget = l.next_unget
          /\ y.position = l.position /\ y.token_string = x
        BY <1>3 DEF IsLexer
    <1> HIDE DEF y
    <1> QED BY <1>1, <1>4 DEF x

\* Adding to the token buffer changes nothing else.
LEMMA AddFacts ==
    ASSUME NEW l, IsLexer(l)
    PROVE  /\ Same(l, l)
           /\ \A c : Same(l, Add(l, c)) /\ Same(l, AddNumeral(l, c)) /\ Same(l, AddCodepoint(l, c))
    <1>1. Same(l, l)
        BY DEF Same
    <1>2. \A x : Same(l, [l EXCEPT !.token_buffer = x])
        <2> SUFFICES ASSUME NEW x PROVE Same(l, [l EXCEPT !.token_buffer = x])
            OBVIOUS
        <2> DEFINE u == [l EXCEPT !.token_buffer = x]
        <2>1. /\ IsLexer(u) /\ u.current = l.current /\ u.next_unget = l.next_unget
              /\ u.position = l.position /\ u.token_string = l.token_string
            BY DEF IsLexer
        <2> HIDE DEF u
        <2>2. Same(l, u) BY <2>1 DEF Same
        <2> QED BY <2>2 DEF u
    <1>3. ASSUME NEW c PROVE Same(l, Add(l, c))
        BY <1>2, Zenon DEF Add
    <1>4. ASSUME NEW c PROVE Same(l, AddCodepoint(l, c))
        BY <1>2, Zenon DEF AddCodepoint
    <1>5. ASSUME NEW c PROVE Same(l, AddNumeral(l, c))
        <2> DEFINE u == Add(l, DecimalPoint)
                   x == Len(l.token_buffer) + 1
                   v == [u EXCEPT !.decimal_point_position = x]
        <2>1. AddNumeral(l, c) = IF c = 46 THEN v ELSE Add(l, c)
            BY Zenon DEF AddNumeral
        <2>2. Same(l, u) BY <1>3
        <2> HIDE DEF u, x
        <2>3. IsLexer(u) BY <2>2 DEF Same
        <2>4. /\ IsLexer(v) /\ v.current = u.current /\ v.next_unget = u.next_unget
              /\ v.position = u.position /\ v.token_string = u.token_string
            BY <2>3 DEF IsLexer
        <2> HIDE DEF v
        <2>5. Same(l, v) BY <2>2, <2>4 DEF Same
        <2> QED BY <1>3, <2>1, <2>5
    <1> QED BY <1>1, <1>3, <1>4, <1>5

LEMMA SameTracks ==
    ASSUME NEW l, NEW m, NEW t, Tracks(l, t), Same(l, m)
    PROVE  Tracks(m, t)
    <1>1. Used(m, t) = Used(l, t)
        BY DEF Used, Same
    <1>2. IsAt(l, t) => IsAt(m, t)
        BY <1>1 DEF IsAt, Same
    <1> QED BY <1>1, <1>2 DEF Tracks, Same

\* get() reads c, a byte that was ungot or a new one, or the end.
LEMMA GetTracks ==
    ASSUME NEW l, NEW t \in Seq(Bytes), Tracks(l, t), NEW c \in Bytes \cup {Eof},
           Used(l, t) \in Seq(Bytes),
           NEW t1, t1 = IF c = Eof THEN Used(l, t) ELSE Append(Used(l, t), c),
           c # Eof => /\ l.position.chars_read_total = Len(Used(l, t))
                      /\ c # Newline => IsColumn(l.position.chars_read_current_line, Used(l, t))
    PROVE  /\ Tracks(Get(l, c), t1)
           /\ Get(l, c).current = c /\ ~Get(l, c).next_unget
           /\ Get(l, c).position.chars_read_total = l.position.chars_read_total + 1
           /\ c = Eof => Get(l, c).position.chars_read_current_line =
                            l.position.chars_read_current_line + 1
    <1> DEFINE g == Get(l, c)
               s == Used(l, t)
               p == l.position
    <1>1. /\ IsLexer(g) /\ g.current = c /\ g.position = Advance(p, c)
          /\ ~g.next_unget /\ g.next_unget \in BOOLEAN
          /\ c = Eof => g.token_string = l.token_string
          /\ c # Eof => g.token_string = Append(l.token_string, c)
        <2>1. IsLexer(l) BY DEF Tracks
        <2> QED BY <2>1, GetFacts
    <1>2. /\ g.position.chars_read_total = p.chars_read_total + 1
          /\ g.position.chars_read_current_line = IF c = Newline THEN 0 ELSE p.chars_read_current_line + 1
          /\ g.position.lines_read = IF c = Newline THEN p.lines_read + 1 ELSE p.lines_read
        BY <1>1 DEF Advance
    <1>3. /\ p.chars_read_total \in Nat /\ p.chars_read_current_line \in Nat
          /\ p.lines_read = Cardinality(Newlines(s))
          /\ l.token_string \in Seq(Int) /\ Ends(s, l.token_string)
        BY DEF Tracks
    <1>4. s \in Seq(Bytes) /\ t1 = IF c = Eof THEN s ELSE Append(s, c)
        OBVIOUS
    <1>5. c # Eof => /\ p.chars_read_total = Len(s)
                     /\ c # Newline => IsColumn(p.chars_read_current_line, s)
        OBVIOUS
    <1> HIDE DEF g, s, p
    <1>6. Used(g, t1) = t1
        BY <1>1 DEF Used
    <1>7. CASE c = Eof
        <2>1. t1 = s /\ c # Newline BY <1>4, <1>7 DEF Eof, Newline
        <2>2. /\ g.position.chars_read_total \in Nat /\ g.position.chars_read_current_line \in Nat
              /\ g.position.lines_read = Cardinality(Newlines(s))
            BY <1>2, <1>3, <2>1
        <2>3. g.current \in Bytes \cup {Eof} /\ g.current = Eof BY <1>1, <1>7
        <2>4. g.token_string = l.token_string BY <1>1, <1>7
        <2>5. g.next_unget \in BOOLEAN BY <1>1
        <2>6. Tracks(g, t1)
            BY <1>1, <1>3, <1>6, <2>1, <2>2, <2>3, <2>4, <2>5, Zenon DEF Tracks
        <2> QED BY <1>1, <1>2, <1>7, <2>1, <2>6 DEF g, p
    <1>8. CASE c # Eof
        <2>1. c \in Bytes /\ c \in Int BY <1>8 DEF Bytes
        <2>2. t1 = Append(s, c) /\ t1 # <<>> /\ Last(t1) = c /\ Len(t1) = Len(s) + 1
            BY <1>4, <1>8, <2>1, AppendFacts
        <2>3. g.token_string \in Seq(Int) /\ Ends(t1, g.token_string)
            <3>1. g.token_string = Append(l.token_string, c) BY <1>1, <1>8
            <3>2. Append(l.token_string, c) \in Seq(Int) BY <1>3, <2>1, AppendFacts
            <3>3. Ends(Append(s, c), Append(l.token_string, c)) BY <1>3, <1>4, <2>1, EndsOfAppend
            <3> QED BY <2>2, <3>1, <3>2, <3>3
        <2>4. Cardinality(Newlines(t1)) = g.position.lines_read
            <3>1. Cardinality(Newlines(Append(s, c))) =
                     IF c = Newline THEN Cardinality(Newlines(s)) + 1 ELSE Cardinality(Newlines(s))
                BY <1>4, <2>1, NewlinesOfAppend
            <3> QED BY <1>2, <1>3, <2>2, <3>1
        <2>5. IsColumn(g.position.chars_read_current_line, t1)
            <3>1. CASE c = Newline
                BY <1>2, <1>4, <2>1, <2>2, <3>1, ColumnOfAppend
            <3>2. CASE c # Newline
                <4> DEFINE k == p.chars_read_current_line
                <4>1. k \in Nat /\ IsColumn(k, s) /\ g.position.chars_read_current_line = k + 1
                    BY <1>2, <1>3, <1>5, <1>8, <3>2
                <4> HIDE DEF k
                <4>4. IsColumn(k + 1, Append(s, c)) BY <1>4, <2>1, <3>2, <4>1, ColumnOfAppend
                <4> QED BY <2>2, <4>1, <4>4
            <3> QED BY <3>1, <3>2
        <2>6. IsAt(g, t1)
            BY <1>1, <1>2, <1>5, <1>6, <1>8, <2>2, <2>5 DEF IsAt
        <2>7. g.position.chars_read_total \in Nat /\ g.position.chars_read_current_line \in Nat
            BY <1>2, <1>3
        <2>8. Tracks(g, t1)
            BY <1>1, <1>6, <2>1, <2>3, <2>4, <2>6, <2>7 DEF Tracks
        <2> QED BY <1>1, <1>2, <1>8, <2>8 DEF g, p
    <1> QED BY <1>7, <1>8
\* unget() takes back the byte, or the end, that get() has just read.
LEMMA UngetTracks ==
    ASSUME NEW l, NEW t \in Seq(Bytes), Tracks(l, t), ~l.next_unget,
           l.current = Eof => /\ l.position.chars_read_current_line # 0
                              /\ l.position.chars_read_total # 0
    PROVE  /\ Tracks(Unget(l), t)
           /\ Unget(l).current = l.current /\ Unget(l).next_unget
           /\ Unget(l).position.chars_read_total = l.position.chars_read_total - 1
    <1> DEFINE m == Unget(l)
               p == l.position
               c == l.current
    <1>1. /\ IsLexer(m) /\ m.current = c /\ m.position = Retreat(p)
          /\ m.next_unget /\ m.next_unget \in BOOLEAN
          /\ c = Eof => m.token_string = l.token_string
          /\ c # Eof => m.token_string = Front(l.token_string)
        <2>1. IsLexer(l) BY DEF Tracks
        <2> QED BY <2>1, UngetFacts
    <1>2. /\ m.position.chars_read_total = p.chars_read_total - 1
          /\ m.position.chars_read_current_line =
                IF p.chars_read_current_line = 0 THEN 0 ELSE p.chars_read_current_line - 1
          /\ m.position.lines_read =
                IF p.chars_read_current_line = 0 /\ p.lines_read > 0 THEN p.lines_read - 1
                ELSE p.lines_read
        BY <1>1 DEF Retreat
    <1>3. Used(l, t) = t
        BY DEF Used
    <1>4. /\ p.chars_read_total \in Nat /\ p.chars_read_current_line \in Nat
          /\ p.lines_read = Cardinality(Newlines(t)) /\ c \in Bytes \cup {Eof}
          /\ l.token_string \in Seq(Int) /\ Ends(t, l.token_string)
          /\ c # Eof => IsAt(l, t)
        BY <1>3 DEF Tracks
    <1>5. c = Eof => p.chars_read_current_line # 0 /\ p.chars_read_total # 0
        OBVIOUS
    <1>6. c # Eof => /\ t # <<>> /\ Last(t) = c /\ p.chars_read_total = Len(t)
                     /\ IsColumn(p.chars_read_current_line, t)
        BY <1>3, <1>4 DEF IsAt
    <1> HIDE DEF m, p, c
    <1>7. CASE c = Eof
        <2>1. Used(m, t) = t
            BY <1>1, <1>7 DEF Used
        <2>2. /\ m.position.chars_read_total \in Nat /\ m.position.chars_read_current_line \in Nat
              /\ m.position.lines_read = p.lines_read
            BY <1>2, <1>4, <1>5, <1>7
        <2>3. m.token_string = l.token_string /\ m.current = Eof /\ m.current \in Bytes \cup {Eof}
            BY <1>1, <1>7
        <2>4. Tracks(m, t)
            BY <1>1, <1>4, <2>1, <2>2, <2>3 DEF Tracks
        <2> QED BY <1>1, <1>2, <2>4 DEF m, p, c
    <1>8. CASE c # Eof
        <2> DEFINE s == Front(t)
                   k == p.chars_read_current_line
        <2>1. c \in Bytes BY <1>4, <1>8
        <2>2. s \in Seq(Bytes) /\ t = Append(s, c) /\ Len(t) = Len(s) + 1 /\ Len(s) \in Nat
            <3>1. s \in Seq(Bytes) /\ t = Append(s, c)
                BY <1>6, <1>8, FrontFacts, SplitLast
            <3> HIDE DEF s
            <3> QED BY <2>1, <3>1, AppendFacts
        <2>3. Used(m, t) = s
            BY <1>1, <1>8 DEF Used
        <2> HIDE DEF s
        <2>4. /\ Cardinality(Newlines(s)) \in Nat
              /\ p.lines_read = IF c = Newline THEN Cardinality(Newlines(s)) + 1
                                ELSE Cardinality(Newlines(s))
            BY <1>4, <2>1, <2>2, NewlinesOfAppend
        <2>5. /\ c = Newline => k = 0
              /\ c # Newline => k \in Nat \ {0} /\ IsColumn(k - 1, s)
            <3>1. IsColumn(k, Append(s, c)) BY <1>6, <1>8, <2>2
            <3> HIDE DEF k
            <3> QED BY <2>1, <2>2, <3>1, ColumnOfAppend
        <2>6. m.position.lines_read = Cardinality(Newlines(s))
            BY <1>2, <2>4, <2>5
        <2>7. m.token_string \in Seq(Int) /\ Ends(s, m.token_string)
            <3>1. m.token_string = Front(l.token_string) BY <1>1, <1>8
            <3>2. Ends(s, Front(l.token_string))
                BY <1>4, <2>1, <2>2, EndsOfAppend
            <3>3. Front(l.token_string) \in Seq(Int)
                <4>1. CASE l.token_string = <<>>
                    <5>1. Front(l.token_string) = <<>> BY <4>1, SubSeqEmpty DEF Front
                    <5> QED BY <5>1
                <4>2. CASE l.token_string # <<>>
                    BY <1>4, <4>2, FrontFacts
                <4> QED BY <4>1, <4>2
            <3> QED BY <3>1, <3>2, <3>3
        <2>8. /\ m.position.chars_read_total = Len(s) /\ m.position.chars_read_current_line \in Nat
              /\ m.position.chars_read_total \in Nat
              /\ c # Newline => m.position.chars_read_current_line = k - 1
            BY <1>2, <1>4, <1>6, <1>8, <2>2, <2>5
        <2>9. IsAt(m, t)
            BY <1>1, <1>6, <1>8, <2>3, <2>5, <2>8 DEF IsAt
        <2>10. Tracks(m, t)
            BY <1>1, <1>4, <2>3, <2>6, <2>7, <2>8, <2>9 DEF Tracks
        <2> QED BY <1>1, <1>2, <2>10 DEF m, p, c
    <1> QED BY <1>7, <1>8

\* reset() makes the byte just read the start of the token.
LEMMA ResetTracks ==
    ASSUME NEW l, NEW t \in Seq(Bytes), Tracks(l, t), ~l.next_unget, l.current # Eof
    PROVE  Tracks(Reset(l), t)
    <1> DEFINE m == Reset(l)
               c == l.current
               s == Front(t)
    <1>1. /\ IsLexer(m) /\ m.current = l.current /\ m.next_unget = l.next_unget
          /\ m.position = l.position /\ m.token_string = <<l.current>>
        BY ResetFacts DEF Tracks
    <1>2. Used(l, t) = t /\ IsAt(l, t) /\ c \in Bytes
        BY DEF Used, Tracks
    <1>3. t # <<>> /\ Last(t) = c
        BY <1>2 DEF IsAt
    <1>4. s \in Seq(Bytes) /\ t = Append(s, c)
        BY <1>3, FrontFacts, SplitLast
    <1> HIDE DEF m, s, c
    <1>5. Used(m, t) = t
        BY <1>1 DEF Used
    <1>6. c \in Int /\ <<c>> \in Seq(Int)
        BY <1>2 DEF Bytes
    <1>7. Ends(t, <<c>>)
        BY <1>2, <1>4, <1>6, EndsOfAppend
    <1>8. m.token_string = <<c>>
        BY <1>1 DEF c
    <1>9. IsAt(m, t)
        BY <1>1, <1>2, <1>5 DEF IsAt
    <1>10. Tracks(m, t)
        BY <1>1, <1>2, <1>5, <1>6, <1>7, <1>8, <1>9 DEF Tracks
    <1> QED BY <1>10 DEF m

-----------------------------------------------------------------------------
(* The switches of scan() and its helpers *)

LEMMA LiteralBytes ==
    \A name \in DOMAIN Literals : /\ Literals[name] \in Seq(Bytes)
                                  /\ Len(Literals[name]) \in Nat /\ Len(Literals[name]) > 1
    <1> DEFINE a == <<116, 114, 117, 101>>
               b == <<102, 97, 108, 115, 101>>
               n == <<110, 117, 108, 108>>
    <1>1. DOMAIN Literals = {"literal_true", "literal_false", "literal_null"}
        BY DEF Literals
    <1>2. /\ Literals["literal_true"] = a
          /\ Literals["literal_false"] = b
          /\ Literals["literal_null"] = n
        BY DEF Literals
    <1>3. a \in Seq(Bytes) /\ b \in Seq(Bytes) /\ n \in Seq(Bytes)
        BY DEF Bytes
    <1>4. /\ Len(a) \in Nat /\ Len(a) > 1
          /\ Len(b) \in Nat /\ Len(b) > 1
          /\ Len(n) \in Nat /\ Len(n) > 1
        OBVIOUS
    <1> HIDE DEF a, b, n
    <1> SUFFICES ASSUME NEW name \in DOMAIN Literals
                 PROVE  /\ Literals[name] \in Seq(Bytes)
                        /\ Len(Literals[name]) \in Nat /\ Len(Literals[name]) > 1
        OBVIOUS
    <1>5. name = "literal_true" \/ name = "literal_false" \/ name = "literal_null"
        BY <1>1
    <1>6. Literals[name] = a \/ Literals[name] = b \/ Literals[name] = n
        BY <1>2, <1>5, Zenon
    <1> QED BY <1>3, <1>4, <1>6, Zenon

\* A number ends, well or badly, at the end of the input.
LEMMA NumberGotoFacts ==
    ASSUME NEW label \in NumberLabels, NEW c
    PROVE  /\ NumberGoto(label, c) \in NumberLabels \cup {"error", "done"}
           /\ c = Eof => NumberGoto(label, c) \in {"error", "done"}
    BY DEF NumberLabels, NumberGoto, IntegerGoto, FractionGoto, Eof, Digits, Exponents

\* The first bytes of UTF-8 characters are followed by a number of bytes.
LEMMA RangesFacts ==
    ASSUME NEW c \in Bytes, c \notin ControlCharacters \cup NeverFirst, c # Quote, c # Backslash
    PROVE  ContinuationRanges(c) \in Seq(SUBSET Bytes)
    <1> DEFINE any == 128..191
    <1>1. /\ any \in SUBSET Bytes /\ 160..191 \in SUBSET Bytes /\ 128..159 \in SUBSET Bytes
          /\ 144..191 \in SUBSET Bytes /\ 128..143 \in SUBSET Bytes
        BY DEF Bytes
    <1>2. \/ c \in PlainCharacters \/ c \in 194..223 \/ c = 224 \/ c = 237
          \/ c \in 225..239 \ {237} \/ c = 240 \/ c \in 241..243 \/ c = 244
        BY DEF Bytes, ControlCharacters, NeverFirst, PlainCharacters
    <1> DEFINE r1 == <<any>>
               r2 == <<160..191, any>>
               r3 == <<128..159, any>>
               r4 == <<any, any>>
               r5 == <<144..191, any, any>>
               r6 == <<any, any, any>>
               r7 == <<128..143, any, any>>
    <1>3. ContinuationRanges(c) =
             CASE c \in PlainCharacters -> <<>>
               [] c \in 194..223 -> r1
               [] c = 224 -> r2
               [] c = 237 -> r3
               [] c \in 225..239 \ {237} -> r4
               [] c = 240 -> r5
               [] c \in 241..243 -> r6
               [] c = 244 -> r7
        BY DEF ContinuationRanges
    <1> HIDE DEF any
    <1>4. /\ r1 \in Seq(SUBSET Bytes) /\ r2 \in Seq(SUBSET Bytes) /\ r3 \in Seq(SUBSET Bytes)
          /\ r4 \in Seq(SUBSET Bytes) /\ r5 \in Seq(SUBSET Bytes) /\ r6 \in Seq(SUBSET Bytes)
          /\ r7 \in Seq(SUBSET Bytes)
        BY <1>1
    <1> HIDE DEF r1, r2, r3, r4, r5, r6, r7
    <1>5. <<>> \in Seq(SUBSET Bytes)
        OBVIOUS
    <1> DEFINE r == ContinuationRanges(c)
    <1>6. r = <<>> \/ r = r1 \/ r = r2 \/ r = r3 \/ r = r4 \/ r = r5 \/ r = r6 \/ r = r7
        BY <1>2, <1>3
    <1> HIDE DEF r
    <1>7. r \in Seq(SUBSET Bytes)
        BY <1>4, <1>5, <1>6
    <1> QED BY <1>7 DEF r
-----------------------------------------------------------------------------
(* What a step does after get() has left the lexer in g *)

\* scan() returns an error or the end, for the first time or for good.
Stops(g) ==
    /\ Same(g, lexer')
    /\ pc' = "stopped" \/ (pc' = "scan" /\ parser # "ending" /\ parser' = "ending")

\* A byte was read, and the scan goes on.
Reads(g, c) == c # Eof /\ ArgFits' /\ (Same(g, lexer') \/ Same(Reset(g), lexer'))

PutsBack(g) ==
    /\ pc \in NumberLabels \cup {"bom", "block comment *"}
    /\ pc = "bom" => arg = <<>>
    /\ lexer' = Unget(g)
    /\ pc' \in {"scan", "block comment", "stopped"}

\* A line comment ends with the input.
EndsAtEof(g, c) == c = Eof /\ pc = "line comment" /\ pc' = "scan" /\ lexer' = g

Outcome(g, c) == Stops(g) \/ Reads(g, c) \/ PutsBack(g) \/ EndsAtEof(g, c)

\* The places whose local variables matter later.
Careful == {"bom", "literal", "bytes", "surrogate"}

LEMMA GotoReads ==
    ASSUME NEW g, NEW c, c # Eof, NEW m, Same(g, m) \/ Same(Reset(g), m),
           NEW place, NEW locals, Goto(place, locals, m), place \notin Careful
    PROVE  Outcome(g, c)
    <1>1. pc' = place /\ lexer' = m
        BY DEF Goto
    <1>2. ArgFits'
        BY <1>1 DEF ArgFits, Careful
    <1> QED BY <1>1, <1>2 DEF Outcome, Reads

LEMMA EmitReads ==
    ASSUME NEW g, NEW c, c # Eof, NEW m, Same(g, m), NEW token, Emit(token, m)
    PROVE  Outcome(g, c)
    <1>1. pc' \in {"scan", "stopped"} /\ lexer' = m
        BY DEF Emit
    <1>2. ArgFits'
        BY <1>1 DEF ArgFits
    <1> QED BY <1>1, <1>2 DEF Outcome, Reads

LEMMA ErrorStops ==
    ASSUME NEW g, NEW m, Same(g, m), Error(m)
    PROVE  Stops(g)
    BY DEF Error, Emit, Stops, Final

\* What the place says about the local variables, before the first byte too.
Known == ArgFits \/ (pc = "bom" /\ arg = <<>>)

LEMMA SkipBomOutcome ==
    ASSUME NEW g, IsLexer(g), NEW c, Known, SkipBom(g, c)
    PROVE  Outcome(g, c)
    <1>0. Same(g, g) /\ pc = "bom"
        BY AddFacts DEF SkipBom
    <1>1. CASE arg = <<>> /\ c = 239
        <2>1. pc' = "bom" /\ arg' = <<187, 191>> /\ lexer' = g
            BY <1>1 DEF SkipBom, Goto
        <2>2. ArgFits'
            BY <2>1 DEF ArgFits
        <2>3. c # Eof BY <1>1 DEF Eof
        <2> QED BY <1>0, <2>1, <2>2, <2>3 DEF Outcome, Reads
    <1>2. CASE arg = <<>> /\ c # 239
        BY <1>0, <1>2 DEF SkipBom, Goto, Outcome, PutsBack
    <1>3. CASE arg # <<>> /\ c # Head(arg)
        <2>1. Error(g) BY <1>3 DEF SkipBom
        <2> QED BY <1>0, <2>1, ErrorStops DEF Outcome
    <1>4. CASE arg # <<>> /\ c = Head(arg)
        <2>1. Goto(IF Len(arg) = 1 THEN "scan" ELSE "bom", Tail(arg), g)
            BY <1>4 DEF SkipBom
        <2>2. CASE arg = <<191>>
            <3>1. Len(arg) = 1 /\ c = 191 BY <1>4, <2>2
            <3>2. Goto("scan", Tail(arg), g) BY <2>1, <3>1
            <3>3. c # Eof BY <3>1 DEF Eof
            <3> QED BY <1>0, <3>2, <3>3, GotoReads DEF Careful
        <2>3. CASE arg = <<187, 191>>
            <3>1. Len(arg) = 2 /\ c = 187 /\ Tail(arg) = <<191>> BY <1>4, <2>3
            <3>2. pc' = "bom" /\ arg' = <<191>> /\ lexer' = g BY <2>1, <3>1 DEF Goto
            <3>3. c # Eof BY <3>1 DEF Eof
            <3>4. ArgFits' BY <3>2 DEF ArgFits
            <3> QED BY <1>0, <3>2, <3>3, <3>4 DEF Outcome, Reads
        <2>4. arg \in {<<187, 191>>, <<191>>}
            BY <1>0, <1>4 DEF Known, ArgFits
        <2> QED BY <2>2, <2>3, <2>4
    <1> QED BY <1>1, <1>2, <1>3, <1>4

LEMMA ScanOutcome ==
    ASSUME NEW g, IsLexer(g), NEW c, pc = "scan",
           SkipWhitespace(g, c) \/ BeginComment(g, c) \/ BeginToken(g, c) \/ Unexpected(g, c)
    PROVE  Outcome(g, c) /\ (c = Eof => Stops(g))
    <1>0. Same(g, g)
        BY AddFacts
    <1> DEFINE r == Reset(g)
    <1>1. IsLexer(r)
        BY ResetFacts
    <1>2. Same(r, r) /\ Same(r, Add(r, c))
        BY <1>1, AddFacts
    <1> SUFFICES Stops(g) \/ (c # Eof /\ Outcome(g, c))
        BY DEF Outcome
    <1>3. CASE SkipWhitespace(g, c)
        <2>1. c # Eof /\ Goto("scan", <<>>, g)
            BY <1>3 DEF SkipWhitespace, Whitespace, Newline, Eof
        <2> QED BY <1>0, <2>1, GotoReads DEF Careful
    <1>4. CASE BeginComment(g, c)
        <2>1. c # Eof /\ Goto("comment", <<>>, g)
            BY <1>4 DEF BeginComment, Slash, Eof
        <2> QED BY <1>0, <2>1, GotoReads DEF Careful
    <1>5. CASE Unexpected(g, c)
        <2>1. Error(g) BY <1>5 DEF Unexpected
        <2> QED BY <1>0, <2>1, ErrorStops
    <1>6. CASE \E t \in DOMAIN Structural : c = Structural[t] /\ Emit(<<t>>, g)
        <2>1. PICK t \in DOMAIN Structural : c = Structural[t] /\ Emit(<<t>>, g) BY <1>6
        <2>2. c # Eof
            <3>1. t \in {"begin_array", "end_array", "begin_object", "end_object",
                         "name_separator", "value_separator"}
                BY DEF Structural
            <3>2. c \in {91, 93, 123, 125, 58, 44}
                BY <2>1, <3>1 DEF Structural
            <3> QED BY <3>2 DEF Eof
        <2> QED BY <1>0, <2>1, <2>2, EmitReads
    <1>7. CASE \E t \in DOMAIN Literals : c = Literals[t][1] /\ Goto("literal", <<t, 2>>, g)
        <2>1. PICK t \in DOMAIN Literals : c = Literals[t][1] /\ Goto("literal", <<t, 2>>, g) BY <1>7
        <2>2. Literals[t] \in Seq(Bytes) /\ Len(Literals[t]) \in Nat /\ Len(Literals[t]) > 1
            BY LiteralBytes
        <2> DEFINE literal == Literals[t]
        <2>3. literal \in Seq(Bytes) /\ Len(literal) \in Nat /\ Len(literal) > 1 /\ c = literal[1]
            BY <2>1, <2>2
        <2> HIDE DEF literal
        <2>4. c \in Bytes /\ 2 \in 1..Len(literal) BY <2>3
        <2>5. c # Eof BY <2>4 DEF Bytes, Eof
        <2>6. pc' = "literal" /\ arg' = <<t, 2>> /\ lexer' = g BY <2>1 DEF Goto
        <2>7. ArgFits' BY <2>4, <2>6 DEF ArgFits, literal
        <2> QED BY <1>0, <2>5, <2>6, <2>7 DEF Outcome, Reads
    <1>8. CASE c = Quote /\ Goto("string", <<>>, r)
        <2>1. c # Eof BY <1>8 DEF Quote, Eof
        <2> QED BY <1>2, <1>8, <2>1, GotoReads DEF Careful
    <1>9. CASE c = 45 /\ Goto("minus", <<"value_integer">>, Add(r, c))
        <2>1. c # Eof BY <1>9 DEF Eof
        <2> QED BY <1>2, <1>9, <2>1, GotoReads DEF Careful
    <1>10. CASE c = 48 /\ Goto("zero", <<"value_unsigned">>, Add(r, c))
        <2>1. c # Eof BY <1>10 DEF Eof
        <2> QED BY <1>2, <1>10, <2>1, GotoReads DEF Careful
    <1>11. CASE c \in 49..57 /\ Goto("any1", <<"value_unsigned">>, Add(r, c))
        <2>1. c # Eof BY <1>11 DEF Eof
        <2> QED BY <1>2, <1>11, <2>1, GotoReads DEF Careful
    <1>12. CASE c \in {0, Eof} /\ Emit(<<"end_of_input">>, g)
        BY <1>0, <1>12 DEF Emit, Stops, Final
    <1> QED BY <1>3, <1>4, <1>5, <1>6, <1>7, <1>8, <1>9, <1>10, <1>11, <1>12 DEF BeginToken

LEMMA ScanLiteralOutcome ==
    ASSUME NEW g, IsLexer(g), NEW c, Known, ScanLiteral(g, c)
    PROVE  Outcome(g, c)
    <1>0. Same(g, g) /\ pc = "literal"
        BY AddFacts DEF ScanLiteral
    <1>1. PICK name \in DOMAIN Literals : \E i \in 1..Len(Literals[name]) : arg = <<name, i>>
        BY <1>0 DEF Known, ArgFits
    <1>2. PICK i \in 1..Len(Literals[name]) : arg = <<name, i>>
        BY <1>1
    <1> DEFINE literal == Literals[name]
    <1>3. literal \in Seq(Bytes) /\ i \in 1..Len(literal)
        BY <1>2, LiteralBytes
    <1>4. arg[1] = name /\ arg[2] = i /\ Literals[arg[1]] = literal
        BY <1>2
    <1>5. IF c # literal[i] THEN Error(g)
          ELSE IF i = Len(literal) THEN Emit(<<name>>, g)
          ELSE Goto("literal", <<name, i + 1>>, g)
        BY <1>4, Zenon DEF ScanLiteral
    <1> HIDE DEF literal
    <1>6. CASE c # literal[i]
        <2>1. Error(g) BY <1>5, <1>6
        <2> QED BY <1>0, <2>1, ErrorStops DEF Outcome
    <1>7. CASE c = literal[i]
        <2>1. c \in Bytes /\ Len(literal) \in Nat BY <1>3, <1>7
        <2>2. c # Eof BY <2>1 DEF Bytes, Eof
        <2>3. CASE i = Len(literal)
            <3>1. Emit(<<name>>, g) BY <1>5, <1>7, <2>3
            <3> QED BY <1>0, <2>2, <3>1, EmitReads
        <2>4. CASE i # Len(literal)
            <3>1. i + 1 \in 1..Len(literal) BY <1>3, <2>1, <2>4
            <3>2. pc' = "literal" /\ arg' = <<name, i + 1>> /\ lexer' = g
                BY <1>5, <1>7, <2>4 DEF Goto
            <3>3. ArgFits' BY <3>1, <3>2 DEF ArgFits, literal
            <3> QED BY <1>0, <2>2, <3>2, <3>3 DEF Outcome, Reads
        <2> QED BY <2>3, <2>4
    <1> QED BY <1>6, <1>7
LEMMA CommentOutcome ==
    ASSUME NEW g, IsLexer(g), NEW c, ScanComment(g, c) \/ EndComment(g, c)
    PROVE  Outcome(g, c) /\ (pc = "block comment" /\ c = Eof => Stops(g))
    <1>0. Same(g, g)
        BY AddFacts
    <1>1. CASE pc = "comment"
        <2>1. \/ c \in {Slash, Asterisk} /\ Goto("line comment", <<>>, g)
              \/ c \in {Slash, Asterisk} /\ Goto("block comment", <<>>, g)
              \/ Error(g)
            BY <1>1 DEF ScanComment, EndComment
        <2>2. c \in {Slash, Asterisk} => c # Eof BY DEF Slash, Asterisk, Eof
        <2> QED BY <1>0, <1>1, <2>1, <2>2, GotoReads, ErrorStops DEF Careful, Outcome
    <1>2. CASE pc = "line comment"
        <2>1. Goto(IF c \in EndsLineComment THEN "scan" ELSE "line comment", <<>>, g)
            BY <1>2 DEF ScanComment, EndComment
        <2>2. CASE c = Eof
            BY <1>2, <2>1, <2>2 DEF EndsLineComment, Goto, Outcome, EndsAtEof
        <2>3. CASE c # Eof
            BY <1>0, <1>2, <2>1, <2>3, GotoReads DEF Careful
        <2> QED BY <1>2, <2>2, <2>3
    <1>3. CASE pc = "block comment"
        <2>1. IF c \in {0, Eof} THEN Error(g)
              ELSE Goto(IF c = Asterisk THEN "block comment *" ELSE "block comment", <<>>, g)
            BY <1>3 DEF ScanComment, EndComment
        <2>2. CASE c \in {0, Eof}
            BY <1>0, <2>1, <2>2, ErrorStops DEF Outcome
        <2>3. CASE c \notin {0, Eof}
            BY <1>0, <2>1, <2>3, GotoReads DEF Careful
        <2> QED BY <2>2, <2>3
    <1>4. CASE pc = "block comment *"
        <2>1. IF c = Slash THEN Goto("scan", <<>>, g) ELSE Goto("block comment", <<>>, Unget(g))
            BY <1>4 DEF ScanComment, EndComment
        <2>2. CASE c = Slash
            <3>1. c # Eof BY <2>2 DEF Slash, Eof
            <3> QED BY <1>0, <1>4, <2>1, <2>2, <3>1, GotoReads DEF Careful
        <2>3. CASE c # Slash
            BY <1>4, <2>1, <2>3 DEF Goto, Outcome, PutsBack
        <2> QED BY <1>4, <2>2, <2>3
    <1> QED BY <1>1, <1>2, <1>3, <1>4 DEF ScanComment, EndComment

LEMMA NumberOutcome ==
    ASSUME NEW g, IsLexer(g), NEW c, ScanNumber(g, c)
    PROVE  Outcome(g, c)
    <1>0. Same(g, g) /\ Same(g, AddNumeral(g, c)) /\ pc \in NumberLabels
        BY AddFacts DEF ScanNumber
    <1> DEFINE next == NumberGoto(pc, c)
    <1>1. /\ next = "error" => Error(g)
          /\ next = "done" => Emit(NumberToken(arg[1], g), Unget(g))
          /\ next \notin {"error", "done"} => Goto(next, <<NumberType(next)>>, AddNumeral(g, c))
        BY Zenon DEF ScanNumber
    <1>2. next \in NumberLabels \cup {"error", "done"} /\ (c = Eof => next \in {"error", "done"})
        BY <1>0, NumberGotoFacts
    <1> HIDE DEF next
    <1>3. CASE next = "error"
        BY <1>0, <1>1, <1>3, ErrorStops DEF Outcome
    <1>4. CASE next = "done"
        <2>1. Emit(NumberToken(arg[1], g), Unget(g)) BY <1>1, <1>4
        <2>2. pc' \in {"scan", "stopped"} /\ lexer' = Unget(g) BY <2>1 DEF Emit
        <2>3. pc # "bom" BY <1>0 DEF NumberLabels
        <2> QED BY <1>0, <2>2, <2>3 DEF Outcome, PutsBack
    <1>5. CASE next \notin {"error", "done"}
        <2>1. Goto(next, <<NumberType(next)>>, AddNumeral(g, c)) BY <1>1, <1>5
        <2>2. c # Eof /\ next \notin Careful BY <1>2, <1>5 DEF NumberLabels, Careful
        <2> QED BY <1>0, <2>1, <2>2, GotoReads
    <1> QED BY <1>3, <1>4, <1>5

LEMMA StringOutcome ==
    ASSUME NEW g, IsLexer(g), NEW c \in Bytes \cup {Eof}, ScanString(g, c)
    PROVE  Outcome(g, c)
    <1>0. Same(g, g) /\ Same(g, Add(g, c))
        BY AddFacts
    <1> DEFINE bad == ControlCharacters \cup NeverFirst \cup {Eof}
               ranges == ContinuationRanges(c)
    <1>1. /\ CASE c = Quote -> Emit(<<"value_string", GetString(g)>>, g)
               [] c = Backslash -> Goto("escape", <<>>, g)
               [] c \in bad -> Error(g)
               [] OTHER -> Goto(IF ranges = <<>> THEN "string" ELSE "bytes", ranges, Add(g, c))
        BY Zenon DEF ScanString
    <1>2. Quote \notin bad /\ Backslash \notin bad /\ Quote # Eof /\ Backslash # Eof /\ Quote # Backslash
        BY DEF ControlCharacters, NeverFirst, Quote, Backslash, Eof
    <1>3. c \notin bad /\ c # Quote /\ c # Backslash => ranges \in Seq(SUBSET Bytes) /\ c # Eof
        BY RangesFacts
    <1> HIDE DEF bad, ranges
    <1>4. CASE c = Quote
        <2>1. Emit(<<"value_string", GetString(g)>>, g) BY <1>1, <1>2, <1>4
        <2> QED BY <1>0, <1>2, <1>4, <2>1, EmitReads
    <1>5. CASE c = Backslash
        <2>1. Goto("escape", <<>>, g) BY <1>1, <1>2, <1>5
        <2> QED BY <1>0, <1>2, <1>5, <2>1, GotoReads DEF Careful
    <1>6. CASE c \in bad
        <2>1. Error(g) BY <1>1, <1>2, <1>6
        <2> QED BY <1>0, <2>1, ErrorStops DEF Outcome
    <1>7. CASE c \notin bad /\ c # Quote /\ c # Backslash
        <2>1. Goto(IF ranges = <<>> THEN "string" ELSE "bytes", ranges, Add(g, c))
            BY <1>1, <1>7
        <2>2. CASE ranges = <<>>
            <3>1. Goto("string", ranges, Add(g, c)) BY <2>1, <2>2
            <3> QED BY <1>0, <1>3, <1>7, <3>1, GotoReads DEF Careful
        <2>3. CASE ranges # <<>>
            <3>1. pc' = "bytes" /\ arg' = ranges /\ lexer' = Add(g, c) BY <2>1, <2>3 DEF Goto
            <3>2. ArgFits' BY <1>3, <1>7, <2>3, <3>1 DEF ArgFits
            <3> QED BY <1>0, <1>3, <1>7, <3>1, <3>2 DEF Outcome, Reads
        <2> QED BY <2>2, <2>3
    <1> QED BY <1>4, <1>5, <1>6, <1>7

LEMMA BytesOutcome ==
    ASSUME NEW g, IsLexer(g), NEW c, Known, NextByteInRange(g, c)
    PROVE  Outcome(g, c)
    <1>0. Same(g, g) /\ Same(g, Add(g, c)) /\ pc = "bytes"
        BY AddFacts DEF NextByteInRange
    <1>1. arg \in Seq(SUBSET Bytes) /\ arg # <<>>
        BY <1>0 DEF Known, ArgFits
    <1>2. Head(arg) \in SUBSET Bytes /\ Tail(arg) \in Seq(SUBSET Bytes) /\ Len(Tail(arg)) = Len(arg) - 1
          /\ Len(arg) \in Nat
        BY <1>1
    <1>3. CASE c \notin Head(arg)
        BY <1>0, <1>3, ErrorStops DEF NextByteInRange, Outcome
    <1>4. CASE c \in Head(arg)
        <2>1. Goto(IF Len(arg) = 1 THEN "string" ELSE "bytes", Tail(arg), Add(g, c))
            BY <1>4 DEF NextByteInRange
        <2>2. c \in Bytes BY <1>2, <1>4
        <2>3. c # Eof BY <2>2 DEF Bytes, Eof
        <2>4. CASE Len(arg) = 1
            <3>1. Goto("string", Tail(arg), Add(g, c)) BY <2>1, <2>4
            <3> QED BY <1>0, <2>3, <3>1, GotoReads DEF Careful
        <2>5. CASE Len(arg) # 1
            <3>1. pc' = "bytes" /\ arg' = Tail(arg) /\ lexer' = Add(g, c) BY <2>1, <2>5 DEF Goto
            <3>2. Tail(arg) # <<>>
                <4>1. Len(arg) # 0 BY <1>1
                <4> DEFINE rest == Tail(arg)
                <4>2. Len(rest) # 0 BY <1>2, <2>5, <4>1
                <4> HIDE DEF rest
                <4>3. rest # <<>> BY <4>2
                <4> QED BY <4>3 DEF rest
            <3>3. ArgFits' BY <1>2, <3>1, <3>2 DEF ArgFits
            <3> QED BY <1>0, <2>3, <3>1, <3>3 DEF Outcome, Reads
        <2> QED BY <2>4, <2>5
    <1> QED BY <1>3, <1>4

LEMMA EscapeOutcome ==
    ASSUME NEW g, IsLexer(g), NEW c, ScanEscape(g, c)
    PROVE  Outcome(g, c)
    <1>0. Same(g, g) /\ \A e : Same(g, Add(g, e))
        BY AddFacts
    <1>1. DOMAIN Escapes = {34, 92, 47, 98, 102, 110, 114, 116}
        BY DEF Escapes
    <1>2. \/ c \in DOMAIN Escapes /\ Goto("string", <<>>, Add(g, Escapes[c]))
          \/ c = Letter_u /\ Goto("codepoint", <<0, 0, 0>>, g)
          \/ Error(g)
        BY Zenon DEF ScanEscape
    <1>3. c \in DOMAIN Escapes \/ c = Letter_u => c # Eof
        BY <1>1 DEF Letter_u, Eof
    <1>4. CASE c \in DOMAIN Escapes /\ Goto("string", <<>>, Add(g, Escapes[c]))
        <2> DEFINE m == Add(g, Escapes[c])
        <2>1. Same(g, m) /\ Goto("string", <<>>, m) BY <1>0, <1>4
        <2> HIDE DEF m
        <2> QED BY <1>3, <1>4, <2>1, GotoReads DEF Careful
    <1>5. CASE c = Letter_u /\ Goto("codepoint", <<0, 0, 0>>, g)
        BY <1>0, <1>3, <1>5, GotoReads DEF Careful
    <1>6. CASE Error(g)
        BY <1>0, <1>6, ErrorStops DEF Outcome
    <1> QED BY <1>2, <1>4, <1>5, <1>6

LEMMA CodepointOutcome ==
    ASSUME NEW g, IsLexer(g), NEW c, c # Eof, NEW cp, NEW high, Codepoint(g, cp, high)
    PROVE  Outcome(g, c)
    <1>0. Same(g, g) /\ \A e : Same(g, AddCodepoint(g, e))
        BY AddFacts
    <1>1. \/ Goto("string", <<>>, AddCodepoint(g, CombineSurrogates(high, cp)))
          \/ Error(g)
          \/ Goto("surrogate", <<Backslash, cp>>, g)
          \/ Goto("string", <<>>, AddCodepoint(g, cp))
        BY DEF Codepoint
    <1>2. CASE Error(g)
        BY <1>0, <1>2, ErrorStops DEF Outcome
    <1>3. CASE Goto("surrogate", <<Backslash, cp>>, g)
        <2>1. pc' = "surrogate" /\ arg'[1] = Backslash /\ lexer' = g BY <1>3 DEF Goto
        <2>2. ArgFits' BY <2>1 DEF ArgFits
        <2> QED BY <1>0, <2>1, <2>2 DEF Outcome, Reads
    <1>4. CASE Goto("string", <<>>, AddCodepoint(g, cp))
        BY <1>0, <1>4, GotoReads DEF Careful
    <1>5. CASE Goto("string", <<>>, AddCodepoint(g, CombineSurrogates(high, cp)))
        BY <1>0, <1>5, GotoReads DEF Careful
    <1> QED BY <1>1, <1>2, <1>3, <1>4, <1>5

LEMMA UnicodeOutcome ==
    ASSUME NEW g, IsLexer(g), NEW c, Known, GetCodepoint(g, c) \/ BetweenSurrogates(g, c)
    PROVE  Outcome(g, c)
    <1>0. Same(g, g)
        BY AddFacts
    <1>1. CASE GetCodepoint(g, c)
        <2> DEFINE value == 16 * arg[2] + HexDigit(c)
        <2>1. IF HexDigit(c) = -1 THEN Error(g)
              ELSE IF arg[1] < 3 THEN Goto("codepoint", <<arg[1] + 1, value, arg[3]>>, g)
              ELSE Codepoint(g, value, arg[3])
            BY <1>1, Zenon DEF GetCodepoint
        <2>2. HexDigit(Eof) = -1
            BY DEF HexDigit, Eof, Digits
        <2>3. CASE HexDigit(c) = -1
            BY <1>0, <2>1, <2>3, ErrorStops DEF Outcome
        <2>4. CASE HexDigit(c) # -1 /\ arg[1] < 3
            <3>1. c # Eof BY <2>2, <2>4
            <3>2. Goto("codepoint", <<arg[1] + 1, value, arg[3]>>, g) BY <2>1, <2>4, Zenon
            <3> QED BY <1>0, <3>1, <3>2, GotoReads DEF Careful
        <2>5. CASE HexDigit(c) # -1 /\ ~(arg[1] < 3)
            <3>1. c # Eof BY <2>2, <2>5
            <3>2. Codepoint(g, value, arg[3]) BY <2>1, <2>5, Zenon
            <3> QED BY <3>1, <3>2, CodepointOutcome
        <2> QED BY <2>3, <2>4, <2>5
    <1>2. CASE BetweenSurrogates(g, c)
        <2>1. pc = "surrogate" /\ arg[1] \in {Backslash, Letter_u}
            BY <1>2 DEF BetweenSurrogates, Known, ArgFits
        <2>2. CASE c # arg[1]
            BY <1>0, <1>2, <2>2, ErrorStops DEF BetweenSurrogates, Outcome
        <2>3. CASE c = arg[1]
            <3>1. c # Eof BY <2>1, <2>3 DEF Backslash, Letter_u, Eof
            <3>2. CASE c = Backslash
                <4>1. pc' = "surrogate" /\ arg'[1] = Letter_u /\ lexer' = g
                    BY <1>2, <2>3, <3>2 DEF BetweenSurrogates, Goto
                <4>2. ArgFits' BY <4>1 DEF ArgFits
                <4> QED BY <1>0, <3>1, <4>1, <4>2 DEF Outcome, Reads
            <3>3. CASE c # Backslash
                <4>1. Goto("codepoint", <<0, 0, arg[2]>>, g)
                    BY <1>2, <2>3, <3>3 DEF BetweenSurrogates
                <4> QED BY <1>0, <3>1, <4>1, GotoReads DEF Careful
            <3> QED BY <3>2, <3>3
        <2> QED BY <2>2, <2>3
    <1> QED BY <1>1, <1>2
LEMMA ReadOutcome ==
    ASSUME NEW c \in Bytes \cup {Eof}, IsLexer(Get(lexer, c)), Known, Read(c)
    PROVE  /\ Outcome(Get(lexer, c), c)
           /\ c = Eof /\ pc \in {"scan", "block comment"} => Stops(Get(lexer, c))
           /\ pc # "stopped"
    <1> DEFINE g == Get(lexer, c)
    <1>1. \/ SkipBom(g, c)
          \/ SkipWhitespace(g, c) \/ BeginComment(g, c) \/ BeginToken(g, c) \/ Unexpected(g, c)
          \/ ScanLiteral(g, c)
          \/ ScanComment(g, c) \/ EndComment(g, c)
          \/ ScanNumber(g, c)
          \/ ScanString(g, c)
          \/ NextByteInRange(g, c)
          \/ ScanEscape(g, c)
          \/ GetCodepoint(g, c) \/ BetweenSurrogates(g, c)
        BY Zenon DEF Read
    <1>2. IsLexer(g)
        OBVIOUS
    <1> HIDE DEF g
    <1> SUFFICES /\ Outcome(g, c)
                 /\ c = Eof /\ pc \in {"scan", "block comment"} => Stops(g)
                 /\ pc # "stopped"
        BY DEF g
    <1>3. CASE SkipBom(g, c)
        BY <1>2, <1>3, SkipBomOutcome DEF SkipBom
    <1>4. CASE SkipWhitespace(g, c) \/ BeginComment(g, c) \/ BeginToken(g, c) \/ Unexpected(g, c)
        <2>1. pc = "scan"
            BY <1>4 DEF SkipWhitespace, BeginComment, BeginToken, Unexpected
        <2> QED BY <1>2, <1>4, <2>1, ScanOutcome
    <1>5. CASE ScanLiteral(g, c)
        BY <1>2, <1>5, ScanLiteralOutcome DEF ScanLiteral
    <1>6. CASE ScanComment(g, c) \/ EndComment(g, c)
        <2>1. pc \in {"comment", "line comment", "block comment", "block comment *"}
            BY <1>6 DEF ScanComment, EndComment
        <2> QED BY <1>2, <1>6, <2>1, CommentOutcome
    <1>7. CASE ScanNumber(g, c)
        <2>1. pc \in NumberLabels
            BY <1>7 DEF ScanNumber
        <2> QED BY <1>2, <1>7, <2>1, NumberOutcome DEF NumberLabels
    <1>8. CASE ScanString(g, c)
        BY <1>2, <1>8, StringOutcome DEF ScanString
    <1>9. CASE NextByteInRange(g, c)
        BY <1>2, <1>9, BytesOutcome DEF NextByteInRange
    <1>10. CASE ScanEscape(g, c)
        BY <1>2, <1>10, EscapeOutcome DEF ScanEscape
    <1>11. CASE GetCodepoint(g, c) \/ BetweenSurrogates(g, c)
        BY <1>2, <1>11, UnicodeOutcome DEF GetCodepoint, BetweenSurrogates
    <1> QED BY <1>1, <1>3, <1>4, <1>5, <1>6, <1>7, <1>8, <1>9, <1>10, <1>11

-----------------------------------------------------------------------------
(* The invariant holds *)

LEMMA InitInv ==
    ASSUME Init
    PROVE  LexInv
    <1>1. /\ lexer = NewLexer /\ text = <<>> /\ pc = "bom" /\ arg = <<>> /\ form \in Shapes
        BY DEF Init
    <1>2. /\ lexer.current = Eof /\ lexer.token_string = <<>>
          /\ lexer.position.chars_read_total = 0 /\ lexer.position.chars_read_current_line = 0
          /\ lexer.position.lines_read = 0
        BY <1>1 DEF NewLexer
    <1>3. IsLexer(lexer) /\ lexer.next_unget \in BOOLEAN
        BY <1>1 DEF NewLexer, IsLexer
    <1>4. Used(lexer, text) = <<>>
        BY <1>1, <1>2 DEF Used
    <1>5. Newlines(<<>>) = {}
        BY DEF Newlines
    <1>6. Cardinality({}) = 0
        BY FS_EmptySet
    <1>7. Ends(<<>>, <<>>)
        BY DEF Ends
    <1>8. Tracks(lexer, text)
        <2>1. /\ lexer.position.chars_read_total \in Nat
              /\ lexer.position.chars_read_current_line \in Nat
              /\ lexer.current \in Bytes \cup {Eof}
            BY <1>2
        <2>2. lexer.position.lines_read = Cardinality(Newlines(Used(lexer, text)))
            BY <1>2, <1>4, <1>5, <1>6
        <2>3. lexer.token_string \in Seq(Int) /\ Ends(Used(lexer, text), lexer.token_string)
            BY <1>2, <1>4, <1>7
        <2> QED BY <1>2, <1>3, <2>1, <2>2, <2>3, Zenon DEF Tracks
    <1> QED BY <1>1, <1>8 DEF LexInv, EndIsNear

LEMMA NextCharType ==
    ASSUME LexInv, NEW c \in NextChars
    PROVE  c \in Bytes \cup {Eof}
    <1>1. /\ text \in Seq(Bytes) /\ lexer.current \in Bytes \cup {Eof} /\ lexer.next_unget \in BOOLEAN
          /\ form \in Seq(SUBSET Bytes)
        BY LexerAssumption DEF LexInv, Tracks, Bytes
    <1>2. CASE lexer.next_unget
        BY <1>1, <1>2 DEF NextChars
    <1>3. CASE ~lexer.next_unget /\ c # Eof
        <2>1. c \in form[Len(text) + 1] /\ Len(text) < Len(form)
            BY <1>3 DEF NextChars
        <2>2. Len(text) + 1 \in 1..Len(form) BY <1>1, <2>1
        <2>3. form[Len(text) + 1] \in SUBSET Bytes BY <1>1, <2>2
        <2> QED BY <2>1, <2>3
    <1> QED BY <1>2, <1>3

\* What the invariant says about the character that get() returns.
LEMMA NextCharFacts ==
    ASSUME LexInv, pc # "stopped", NEW c \in NextChars,
           text' = IF lexer.next_unget \/ c = Eof THEN text ELSE Append(text, c)
    PROVE  /\ c \in Bytes \cup {Eof}
           /\ Used(lexer, text) \in Seq(Bytes)
           /\ text' = IF c = Eof THEN Used(lexer, text) ELSE Append(Used(lexer, text), c)
           /\ text' \in Seq(Bytes)
           /\ c # Eof => /\ lexer.position.chars_read_total = Len(Used(lexer, text))
                         /\ c # Newline => IsColumn(lexer.position.chars_read_current_line,
                                                    Used(lexer, text))
           /\ \/ lexer.position.chars_read_total <= Len(text') + 1
              \/ parser = "ending" /\ lexer.position.chars_read_total <= Len(text') + 2
           /\ lexer.current = Eof /\ pc # "bom" => c = Eof /\ pc \in {"scan", "block comment"}
           /\ c = Eof /\ (lexer.current # Eof \/ pc = "bom") =>
                 lexer.position.chars_read_total = Len(text')
    <1> DEFINE used == Used(lexer, text)
               total == lexer.position.chars_read_total
               column == lexer.position.chars_read_current_line
    <1>1. /\ text \in Seq(Bytes) /\ lexer.current \in Bytes \cup {Eof} /\ lexer.next_unget \in BOOLEAN
          /\ lexer.current # Eof => IsAt(lexer, text)
          /\ form \in Seq(SUBSET Bytes) /\ total \in Nat
        BY LexerAssumption DEF LexInv, Tracks, Bytes
    <1>2. c \in Bytes \cup {Eof}
        BY NextCharType
    <1> SUFFICES /\ used \in Seq(Bytes)
                 /\ text' = IF c = Eof THEN used ELSE Append(used, c)
                 /\ text' \in Seq(Bytes)
                 /\ c # Eof => total = Len(used) /\ (c # Newline => IsColumn(column, used))
                 /\ total <= Len(text') + 1 \/ (parser = "ending" /\ total <= Len(text') + 2)
                 /\ lexer.current = Eof /\ pc # "bom" => c = Eof /\ pc \in {"scan", "block comment"}
                 /\ c = Eof /\ (lexer.current # Eof \/ pc = "bom") => total = Len(text')
        BY <1>2
    <1>3. CASE lexer.current # Eof
        <2>1. /\ text # <<>> /\ Last(text) = lexer.current /\ total = Len(used)
              /\ ~(lexer.next_unget /\ lexer.current = Newline) => IsColumn(column, used)
            BY <1>1, <1>3 DEF IsAt
        <2>2. CASE lexer.next_unget
            <3>1. c = lexer.current /\ text' = text /\ used = Front(text)
                BY <1>3, <2>2 DEF NextChars, Used
            <3>2. /\ Front(text) \in Seq(Bytes) /\ text = Append(Front(text), c)
                  /\ Len(Front(text)) = Len(text) - 1 /\ Len(text) \in Nat
                BY <1>1, <2>1, <3>1, FrontFacts, SplitLast
            <3>3. total <= Len(text') + 1 BY <2>1, <3>1, <3>2
            <3> QED BY <1>1, <1>2, <1>3, <2>1, <2>2, <3>1, <3>2, <3>3
        <2>3. CASE ~lexer.next_unget
            <3>1. used = text BY <2>3 DEF Used
            <3>2. text' = IF c = Eof THEN text ELSE Append(text, c) BY <2>3
            <3>3. text' \in Seq(Bytes) /\ Len(text) <= Len(text') + 1
                <4>1. CASE c = Eof BY <1>1, <3>2, <4>1
                <4>2. CASE c # Eof
                    <5>1. c \in Bytes /\ text' = Append(text, c) BY <1>2, <3>2, <4>2
                    <5>2. Len(text') = Len(text) + 1 /\ text' \in Seq(Bytes) BY <1>1, <5>1, AppendFacts
                    <5> QED BY <1>1, <5>2
                <4> QED BY <4>1, <4>2
            <3> QED BY <1>1, <1>2, <1>3, <2>1, <2>3, <3>1, <3>2, <3>3
        <2> QED BY <1>1, <2>2, <2>3
    <1>4. CASE lexer.current = Eof
        <2>1. used = text BY <1>4 DEF Used
        <2>2. CASE lexer = NewLexer /\ text = <<>> /\ pc = "bom"
            <3>1. total = 0 /\ column = 0 /\ ~lexer.next_unget BY <2>2 DEF NewLexer
            <3>2. text' = IF c = Eof THEN text ELSE Append(text, c) BY <3>1
            <3>3. text' \in Seq(Bytes) /\ total <= Len(text') + 1
                <4>1. CASE c = Eof BY <1>1, <3>1, <3>2, <4>1
                <4>2. CASE c # Eof
                    <5>1. c \in Bytes /\ text' = Append(text, c) BY <1>2, <3>2, <4>2
                    <5> QED BY <1>1, <3>1, <5>1, AppendFacts
                <4> QED BY <4>1, <4>2
            <3>4. Len(text) = 0 BY <2>2
            <3>5. IsColumn(column, text)
                <4>1. Newlines(text) = {} BY <2>2 DEF Newlines
                <4>2. column = Len(text) - 0 BY <3>1, <3>4
                <4> HIDE DEF column
                <4> QED BY <4>1, <4>2 DEF IsColumn
            <3> QED BY <1>1, <1>2, <2>1, <2>2, <3>1, <3>2, <3>3, <3>4, <3>5
        <2>3. CASE lexer.next_unget /\ total = Len(text) /\ pc \in {"scan", "block comment"}
            <3>1. c = Eof /\ text' = text BY <1>4, <2>3 DEF NextChars
            <3> HIDE DEF used, total, column
            <3>a. total <= total + 1 BY <1>1
            <3>2. total <= Len(text') + 1
                <4>1. total = Len(text') BY <2>3, <3>1
                <4> QED BY <3>a, <4>1
            <3> QED BY <1>1, <1>4, <2>1, <2>3, <3>1, <3>2
        <2>4. CASE /\ ~lexer.next_unget /\ total # 0 /\ pc = "scan"
                   /\ total <= Len(text) + 1 \/ (parser = "ending" /\ total <= Len(text) + 2)
            <3>1. c = Eof BY <1>4, <2>4 DEF NextChars
            <3>2. text' = text BY <3>1
            <3> HIDE DEF total
            <3> QED BY <1>1, <1>4, <2>1, <2>4, <3>1, <3>2
        <2> QED BY <1>4, <2>2, <2>3, <2>4 DEF LexInv, EndIsNear
    <1> QED BY <1>3, <1>4

\* Every outcome of a get() keeps the invariant.
LEMMA StepInv ==
    ASSUME LexInv, NEW c \in NextChars, Read(c), UNCHANGED form,
           text' = IF lexer.next_unget \/ c = Eof THEN text ELSE Append(text, c)
    PROVE  LexInv'
    <1> DEFINE g == Get(lexer, c)
               total == lexer.position.chars_read_total
    <1>1. Known /\ IsLexer(g)
        <2>1. Known BY DEF LexInv, EndIsNear, Known, ArgFits
        <2>2. IsLexer(lexer) BY DEF LexInv, Tracks
        <2> QED BY <2>1, <2>2, GetFacts
    <1>2. pc # "stopped"
        <2>1. c \in Bytes \cup {Eof}
            BY NextCharType
        <2> QED BY <1>1, <2>1, ReadOutcome
    <1>3. /\ c \in Bytes \cup {Eof}
          /\ text' \in Seq(Bytes)
          /\ total <= Len(text') + 1 \/ (parser = "ending" /\ total <= Len(text') + 2)
          /\ lexer.current = Eof /\ pc # "bom" => c = Eof /\ pc \in {"scan", "block comment"}
          /\ c = Eof /\ (lexer.current # Eof \/ pc = "bom") => total = Len(text')
        BY <1>2, NextCharFacts
    <1>4. /\ Outcome(g, c)
          /\ c = Eof /\ pc \in {"scan", "block comment"} => Stops(g)
        BY <1>1, <1>3, ReadOutcome
    <1>5. /\ Tracks(g, text')
          /\ g.current = c /\ ~g.next_unget
          /\ g.position.chars_read_total = total + 1
          /\ c = Eof => g.position.chars_read_current_line =
                           lexer.position.chars_read_current_line + 1
        <2>1. text \in Seq(Bytes) /\ Tracks(lexer, text) BY DEF LexInv
        <2> QED BY <1>2, <2>1, NextCharFacts, GetTracks
    <1>6. /\ total \in Nat /\ lexer.position.chars_read_current_line \in Nat
          /\ form' \in Shapes
        BY DEF LexInv, Tracks
    <1> HIDE DEF g, total
    <1> DEFINE n == Len(text')
    <1>7. n \in Nat /\ (total <= n + 1 \/ (parser = "ending" /\ total <= n + 2))
        <2> DEFINE t == text'
        <2>1. t \in Seq(Bytes) BY <1>3
        <2> HIDE DEF t
        <2>2. Len(t) \in Nat BY <2>1
        <2> QED BY <1>3, <2>2 DEF t
    <1> HIDE DEF n
    <1>8. CASE Stops(g)
        <2>1. /\ Same(g, lexer')
              /\ pc' = "stopped" \/ (pc' = "scan" /\ parser # "ending" /\ parser' = "ending")
            BY <1>8 DEF Stops
        <2>2. Tracks(lexer', text') BY <1>5, <2>1, SameTracks
        <2>3. lexer'.position.chars_read_total = total + 1 BY <1>5, <2>1 DEF Same
        <2>4. ASSUME pc' = "stopped" PROVE EndIsNear'
            <3>1. lexer'.position.chars_read_total <= n + 3 BY <1>6, <1>7, <2>3
            <3> QED BY <2>4, <3>1 DEF EndIsNear, n
        <2>5. ASSUME pc' = "scan", parser # "ending", parser' = "ending" PROVE EndIsNear'
            <3>1. lexer'.current = c /\ ~lexer'.next_unget BY <1>5, <2>1 DEF Same
            <3>2. CASE c = Eof
                <4>1. lexer'.position.chars_read_total <= n + 2 /\ lexer'.position.chars_read_total # 0
                    BY <1>6, <1>7, <2>3, <2>5
                <4> QED BY <2>5, <3>1, <3>2, <4>1 DEF EndIsNear, n
            <3>3. CASE c # Eof
                <4>1. ArgFits' BY <2>5 DEF ArgFits
                <4> QED BY <3>1, <3>3, <4>1 DEF EndIsNear
            <3> QED BY <3>2, <3>3
        <2>6. EndIsNear' BY <2>1, <2>4, <2>5
        <2> QED BY <1>3, <1>6, <2>2, <2>6 DEF LexInv
    <1>9. CASE Reads(g, c)
        <2>1. c # Eof /\ ArgFits' BY <1>9 DEF Reads
        <2>2. Tracks(lexer', text') /\ lexer'.current = c
            <3>1. CASE Same(g, lexer')
                BY <1>5, <3>1, SameTracks DEF Same
            <3>2. CASE Same(Reset(g), lexer')
                <4>1. Tracks(Reset(g), text') BY <1>3, <1>5, <2>1, ResetTracks
                <4>2. Reset(g).current = c BY <1>1, <1>5, ResetFacts DEF g
                <4> QED BY <3>2, <4>1, <4>2, SameTracks DEF Same
            <3> QED BY <1>9, <3>1, <3>2 DEF Reads
        <2>3. EndIsNear' BY <2>1, <2>2 DEF EndIsNear
        <2> QED BY <1>3, <1>6, <2>2, <2>3 DEF LexInv
    <1>10. CASE PutsBack(g)
        <2>1. /\ pc \in NumberLabels \cup {"bom", "block comment *"} /\ lexer' = Unget(g)
              /\ pc' \in {"scan", "block comment", "stopped"}
            BY <1>10 DEF PutsBack
        <2>2. c = Eof => /\ g.position.chars_read_current_line # 0
                         /\ g.position.chars_read_total # 0
            BY <1>5, <1>6
        <2>3. /\ Tracks(lexer', text') /\ lexer'.current = c /\ lexer'.next_unget
              /\ lexer'.position.chars_read_total = g.position.chars_read_total - 1
            BY <1>3, <1>5, <2>1, <2>2, UngetTracks
        <2>4. CASE c # Eof
            <3>1. ArgFits' BY <2>1 DEF ArgFits
            <3>2. EndIsNear' BY <2>3, <2>4, <3>1 DEF EndIsNear
            <3> QED BY <1>3, <1>6, <2>3, <3>2 DEF LexInv
        <2>5. CASE c = Eof
            <3>1. lexer.current # Eof \/ pc = "bom"
                BY <1>3, <2>1 DEF NumberLabels
            <3>a. total = n
                BY <1>3, <2>5, <3>1 DEF n
            <3>2. lexer'.position.chars_read_total = n
                BY <1>5, <1>6, <2>3, <3>a
            <3>3. lexer'.position.chars_read_total <= n + 3
                BY <1>7, <3>2
            <3>4. EndIsNear' BY <2>1, <2>3, <2>5, <3>2, <3>3 DEF EndIsNear, n
            <3> QED BY <1>3, <1>6, <2>3, <3>4 DEF LexInv
        <2> QED BY <2>4, <2>5
    <1>11. CASE EndsAtEof(g, c)
        <2>1. c = Eof /\ pc = "line comment" /\ pc' = "scan" /\ lexer' = g BY <1>11 DEF EndsAtEof
        <2>2. lexer.current # Eof BY <1>3, <2>1
        <2>3. g.position.chars_read_total = Len(text') + 1 BY <1>3, <1>5, <2>1, <2>2
        <2>4. g.position.chars_read_total # 0 /\ g.position.chars_read_total <= n + 1
            BY <1>6, <1>5, <1>7, <2>3 DEF n
        <2>5. EndIsNear' BY <1>5, <2>1, <2>4 DEF EndIsNear, n
        <2> QED BY <1>3, <1>5, <1>6, <2>1, <2>5 DEF LexInv
    <1> QED BY <1>4, <1>8, <1>9, <1>10, <1>11 DEF Outcome

LEMMA NextInv ==
    ASSUME LexInv, [Next]_vars
    PROVE  LexInv'
    <1>1. CASE Next
        BY <1>1, StepInv DEF Next
    <1>2. CASE UNCHANGED vars
        BY <1>2 DEF vars, LexInv, EndIsNear, ArgFits
    <1> QED BY <1>1, <1>2

\* On every text, of any length and with any bytes: the counts of bytes and
\* lines, the column and token_string are those of the bytes that get() has
\* returned and unget() has not taken back, at every step of scan(); and
\* the end of the input is read at most three times, so no loop runs past it.
THEOREM PositionOfTheLexer == Spec => []PositionIsExact
    <1>1. Init => LexInv
        BY InitInv
    <1>2. LexInv /\ [Next]_vars => LexInv'
        BY NextInv
    <1>3. LexInv => PositionIsExact
        <2> SUFFICES ASSUME LexInv PROVE PositionIsExact
            OBVIOUS
        <2> DEFINE used == Used(lexer, text)
                   total == lexer.position.chars_read_total
        <2>1. /\ lexer.position.lines_read = Cardinality(Newlines(used))
              /\ Ends(used, lexer.token_string) /\ text \in Seq(Bytes)
              /\ lexer.current # Eof => IsAt(lexer, text)
            BY DEF LexInv, Tracks
        <2>2. lexer.current # Eof =>
                 /\ total = Len(used)
                 /\ ~(lexer.next_unget /\ lexer.current = Newline) =>
                       IsColumn(lexer.position.chars_read_current_line, used)
            BY <2>1 DEF IsAt
        <2>3. total <= Len(text) + 3
            <3>1. Len(text) \in Nat /\ total \in Nat BY <2>1 DEF LexInv, Tracks
            <3>2. CASE lexer.current # Eof
                <4>1. used = text \/ (text # <<>> /\ used = Front(text))
                    BY <2>1, <3>2 DEF Used, IsAt
                <4>2. Len(used) = Len(text) \/ Len(used) = Len(text) - 1
                    BY <2>1, <4>1, FrontFacts
                <4>3. total = Len(used) BY <2>2, <3>2
                <4> HIDE DEF used, total
                <4> QED BY <3>1, <4>2, <4>3
            <3>3. CASE lexer.current = Eof
                <4>1. total = 0 \/ total = Len(text) \/ total <= Len(text) + 1 \/ total <= Len(text) + 2 \/ total <= Len(text) + 3
                    <5>1. lexer = NewLexer => total = 0 BY DEF NewLexer
                    <5> QED BY <3>3, <5>1 DEF LexInv, EndIsNear
                <4> HIDE DEF total
                <4> QED BY <3>1, <4>1
            <3> QED BY <3>2, <3>3
        <2> QED BY <2>1, <2>2, <2>3, Zenon DEF PositionIsExact
    <1> QED BY <1>1, <1>2, <1>3, PTL DEF Spec
=============================================================================
