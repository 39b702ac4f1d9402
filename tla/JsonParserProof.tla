-------------------------- MODULE JsonParserProof --------------------------
(***************************************************************************)
(* The raw pointers of json_sax_dom_parser and json_sax_dom_callback_parser*)
(* stay valid for every text, every nesting and every answer of the        *)
(* callback.                                                               *)
(***************************************************************************)
EXTENDS JsonParser, SequenceTheorems, WellFoundedInduction, TLAPS

-----------------------------------------------------------------------------
(* The invariant *)

\* A container names no cell twice.
IsCell(v) ==
    /\ v[1] = "array" => v[2] \in Seq(Nat)
    /\ v[1] \in {"array", "object"} =>
          \A i, j \in DOMAIN v[2] : v[2][i] = v[2][j] => i = j

\* The memory is a forest: a cell has at most one owner, the root none.
Heap(cells, next) ==
    /\ next \in Nat
    /\ cells = [c \in DOMAIN cells |-> cells[c]]
    /\ Root \in DOMAIN cells
    /\ \A c \in DOMAIN cells : c \in Nat /\ c < next /\ IsCell(cells[c])
    /\ \A c \in DOMAIN cells : Children(cells[c]) \subseteq DOMAIN cells \ {Root}
    /\ \A c, d \in DOMAIN cells : c # d => Children(cells[c]) \cap Children(cells[d]) = {}

Kind(isArray) == IF isArray THEN "array" ELSE "object"

\* The stack of pointers is a path from the root, of containers of these
\* kinds, that a rejected container ends: null pointers follow.
Chain(cells, stack, kinds) ==
    /\ stack \in Seq(Int)
    /\ kinds \in Seq(BOOLEAN)
    /\ Len(stack) = Len(kinds)
    /\ \A i \in 1..Len(stack) : stack[i] # NullPtr =>
          /\ stack[i] \in DOMAIN cells
          /\ cells[stack[i]][1] = Kind(kinds[i])
          /\ IF i = 1 THEN stack[i] = Root ELSE Owns(cells, stack[i - 1], stack[i])
    /\ \A i, j \in 1..Len(stack) : stack[i] # NullPtr /\ stack[i] = stack[j] => i = j

IsConsumer(s) ==
    s = [cells |-> s.cells, next |-> s.next, ref_stack |-> s.ref_stack,
         object_element |-> s.object_element, keep_stack |-> s.keep_stack,
         key_keep_stack |-> s.key_keep_stack, errored |-> s.errored]

Sound(s, kinds) ==
    /\ IsConsumer(s)
    /\ Heap(s.cells, s.next)
    /\ Chain(s.cells, s.ref_stack, kinds)
    /\ s.key_keep_stack \in Seq(BOOLEAN)

\* The containers that are open: states lags behind an opening bracket
\* until the first element, or the colon of the first member, is read.
Containers ==
    CASE pc = "first element" -> Append(states, TRUE)
      [] pc \in {"first key", "first colon"} -> Append(states, FALSE)
      [] OTHER -> states

\* What the place in the loop says about the innermost container.
PlaceFits ==
    /\ pc \in {"value", "first element", "first key", "first colon", "colon", "comma",
               "next element", "next key", "strict"}
    /\ pc = "value" => states = <<>> \/ ~Last(states)
    /\ pc = "comma" => states # <<>>
    /\ pc = "next element" => states # <<>> /\ Last(states)
    /\ pc \in {"colon", "next key"} => states # <<>> /\ ~Last(states)
    /\ pc = "strict" => states = <<>>

NoneRejected(s) == options.consumer = "dom" => \A i \in DOMAIN s.ref_stack : s.ref_stack[i] # NullPtr

MemberAwaited == AwaitsMember => Owns(sax.cells, Last(sax.ref_stack), sax.object_element)

Reading ==
    /\ PlaceFits
    /\ states \in Seq(BOOLEAN)
    /\ Sound(sax, Containers)
    /\ NoneRejected(sax)
    /\ MemberAwaited

PointerInv ==
    /\ options.consumer \in {"dom", "callback", "acceptor"}
    /\ options.consumer # "acceptor" => \/ Reading
                                        \/ pc \in {"failed", "done"} /\ PointersStayValid

-----------------------------------------------------------------------------
(* Sequences *)

LEMMA AppendFacts ==
    ASSUME NEW S, NEW s \in Seq(S), NEW e \in S
    PROVE  /\ Append(s, e) \in Seq(S)
           /\ Len(Append(s, e)) = Len(s) + 1
           /\ \A i \in 1..Len(s) : Append(s, e)[i] = s[i]
           /\ Append(s, e)[Len(s) + 1] = e
    OBVIOUS

LEMMA PrefixFacts ==
    ASSUME NEW S, NEW s \in Seq(S), NEW i \in 1..Len(s)
    PROVE  /\ SubSeq(s, 1, i - 1) \in Seq(S)
           /\ Len(SubSeq(s, 1, i - 1)) = i - 1
           /\ \A k \in 1..i - 1 : SubSeq(s, 1, i - 1)[k] = s[k]
    <1>1. Len(s) \in Nat /\ i \in Nat /\ 1 <= i /\ i <= Len(s) /\ \A k \in 1..Len(s) : s[k] \in S
        OBVIOUS
    <1> QED BY <1>1, SubSeqProperties

LEMMA FrontFacts ==
    ASSUME NEW S, NEW s \in Seq(S), s # <<>>
    PROVE  /\ Front(s) \in Seq(S)
           /\ Len(Front(s)) = Len(s) - 1
           /\ Len(s) \in Nat \ {0}
           /\ \A i \in 1..Len(s) - 1 : Front(s)[i] = s[i]
    <1>1. Len(s) \in Nat \ {0} /\ Len(s) \in 1..Len(s)
        OBVIOUS
    <1> QED BY <1>1, PrefixFacts DEF Front

LEMMA LastOfAppend ==
    ASSUME NEW S, NEW s \in Seq(S), NEW e \in S
    PROVE  Append(s, e) # <<>> /\ Last(Append(s, e)) = e /\ Front(Append(s, e)) = s
    <1> DEFINE a == Append(s, e)
    <1>1. /\ a \in Seq(S) /\ Len(a) = Len(s) + 1 /\ a[Len(s) + 1] = e /\ Len(s) \in Nat
          /\ \A i \in 1..Len(s) : a[i] = s[i]
        BY AppendFacts
    <1> HIDE DEF a
    <1>2. a # <<>> BY <1>1
    <1>3. Last(a) = e BY <1>1 DEF Last
    <1>4. /\ Front(a) \in Seq(S) /\ Len(Front(a)) = Len(s)
          /\ \A i \in 1..Len(s) : Front(a)[i] = s[i]
        BY <1>1, <1>2, FrontFacts
    <1>5. Front(a) = s
        BY <1>4, SeqEqual
    <1> QED BY <1>2, <1>3, <1>5 DEF a

\* Nothing is left before an element that does not exist.
LEMMA FrontOfEmpty ==
    ASSUME NEW S, NEW s \in Seq(S), s = <<>>
    PROVE  Front(s) = <<>>
    BY SubSeqEmpty DEF Front

LEMMA RemoveFacts ==
    ASSUME NEW S, NEW s \in Seq(S), NEW i \in 1..Len(s)
    PROVE  /\ RemoveAt(s, i) \in Seq(S)
           /\ Len(RemoveAt(s, i)) = Len(s) - 1
           /\ \A k \in 1..Len(s) - 1 : RemoveAt(s, i)[k] = s[IF k < i THEN k ELSE k + 1]
    <1> DEFINE a == SubSeq(s, 1, i - 1)
               b == SubSeq(s, i + 1, Len(s))
    <1>1. Len(s) \in Nat /\ i \in Nat /\ 1 <= i /\ i <= Len(s) /\ \A k \in 1..Len(s) : s[k] \in S
        OBVIOUS
    <1>2. /\ a \in Seq(S) /\ Len(a) = i - 1
          /\ \A k \in 1..i - 1 : a[k] = s[k]
        BY PrefixFacts
    <1>3. b \in Seq(S)
        BY <1>1, SubSeqProperties
    <1>4. /\ Len(b) = IF i + 1 <= Len(s) THEN Len(s) - (i + 1) + 1 ELSE 0
          /\ \A k \in 1..Len(s) - (i + 1) + 1 : b[k] = s[i + 1 + k - 1]
        BY <1>1, SubSeqProperties
    <1>5. Len(b) = Len(s) - i /\ \A k \in 1..Len(s) - i : b[k] = s[i + k]
        BY <1>1, <1>4
    <1> HIDE DEF a, b
    <1>6. /\ a \o b \in Seq(S) /\ Len(a \o b) = Len(s) - 1
          /\ \A k \in 1..Len(a) + Len(b) :
                (a \o b)[k] = IF k <= Len(a) THEN a[k] ELSE b[k - Len(a)]
        BY <1>1, <1>2, <1>3, <1>5, ConcatProperties
    <1>7. ASSUME NEW k \in 1..Len(s) - 1
          PROVE  (a \o b)[k] = s[IF k < i THEN k ELSE k + 1]
        <2>1. CASE k < i BY <2>1, <1>1, <1>2, <1>5, <1>6
        <2>2. CASE ~(k < i)
            <3>1. k - Len(a) \in 1..Len(s) - i /\ i + (k - Len(a)) = k + 1 /\ ~(k <= Len(a))
                BY <2>2, <1>1, <1>2
            <3>2. (a \o b)[k] = b[k - Len(a)] BY <3>1, <1>1, <1>2, <1>5, <1>6
            <3>3. b[k - Len(a)] = s[k + 1] BY <3>1, <1>5
            <3> QED BY <2>2, <3>2, <3>3
        <2> QED BY <2>1, <2>2
    <1> QED BY <1>6, <1>7 DEF RemoveAt, a, b

LEMMA LeastFacts ==
    ASSUME NEW T, T \subseteq Nat, T # {}
    PROVE  (CHOOSE i \in T : \A j \in T : i <= j) \in T
    <1> DEFINE R == OpToRel(<, Nat)
    <1>1. \A x, y \in Nat : <<x, y>> \in R <=> x < y
        BY DEF OpToRel
    <1>2. IsWellFoundedOn(R, Nat)
        BY NatLessThanWellFounded
    <1> HIDE DEF R
    <1>3. PICK x \in T : \A y \in T : ~ (<<y, x>> \in R)
        BY <1>2, WFMin
    <1>4. \A y \in T : x <= y
        <2> SUFFICES ASSUME NEW y \in T PROVE x <= y
            OBVIOUS
        <2>1. x \in Nat /\ y \in Nat /\ ~(y < x)
            BY <1>1, <1>3
        <2> QED BY <2>1
    <1> QED BY <1>4

-----------------------------------------------------------------------------
(* The memory *)

LEMMA ChildrenFacts ==
    ASSUME NEW v
    PROVE  /\ v[1] \in {"array", "object"} => \A i \in DOMAIN v[2] : v[2][i] \in Children(v)
           /\ \A q \in Children(v) : v[1] \in {"array", "object"} /\ \E i \in DOMAIN v[2] : v[2][i] = q
    BY DEF Children

LEMMA NullIsNoCell ==
    ASSUME NEW cells, NEW next, Heap(cells, next)
    PROVE  NullPtr \notin DOMAIN cells
    <1>1. NullPtr \notin Nat BY DEF NullPtr
    <1> QED BY <1>1 DEF Heap

\* The path depends on the cells it goes through, and of the last one only
\* on its kind.
LEMMA ChainKept ==
    ASSUME NEW cells, NEW stack, NEW kinds, Chain(cells, stack, kinds), NullPtr \notin DOMAIN cells,
           NEW later,
           \A i \in 1..Len(stack) : stack[i] # NullPtr =>
              /\ stack[i] \in DOMAIN later
              /\ later[stack[i]][1] = cells[stack[i]][1]
              /\ i < Len(stack) => later[stack[i]] = cells[stack[i]]
    PROVE  Chain(later, stack, kinds)
    <1>1. ASSUME NEW i \in 1..Len(stack), stack[i] # NullPtr, i # 1
          PROVE  Owns(later, stack[i - 1], stack[i])
        <2>1. Owns(cells, stack[i - 1], stack[i]) /\ i - 1 \in 1..Len(stack) /\ i - 1 < Len(stack)
            BY <1>1 DEF Chain
        <2>2. CASE stack[i - 1] # NullPtr
            BY <2>1, <2>2 DEF Owns
        <2>3. CASE stack[i - 1] = NullPtr
            BY <2>1, <2>3 DEF Owns
        <2> QED BY <2>2, <2>3
    <1> QED BY <1>1 DEF Chain

\* Assignment of a value that owns no more than the one before.
LEMMA AssignFacts ==
    ASSUME NEW s, IsConsumer(s), Heap(s.cells, s.next), NEW p \in DOMAIN s.cells,
           NEW v, IsCell(v), Children(v) \subseteq Children(s.cells[p]),
           NEW t, t = Assign(s, p, v)
    PROVE  /\ IsConsumer(t)
           /\ t.ref_stack = s.ref_stack /\ t.object_element = s.object_element
           /\ t.key_keep_stack = s.key_keep_stack
           /\ Heap(t.cells, t.next)
           /\ DOMAIN t.cells = DOMAIN s.cells
           /\ t.cells[p] = v
           /\ \A c \in DOMAIN s.cells : c # p => t.cells[c] = s.cells[c]
    <1>1. t = [s EXCEPT !.cells = [s.cells EXCEPT ![p] = v]]
        BY DEF Assign
    <1>2. /\ IsConsumer(t) /\ t.cells = [s.cells EXCEPT ![p] = v] /\ t.next = s.next
          /\ t.ref_stack = s.ref_stack
          /\ t.object_element = s.object_element /\ t.key_keep_stack = s.key_keep_stack
        BY <1>1 DEF IsConsumer
    <1>3. Heap([s.cells EXCEPT ![p] = v], s.next)
        BY DEF Heap
    <1> QED BY <1>2, <1>3 DEF Heap

\* The array that emplace_back leaves owns the new storage.
LEMMA NewArray ==
    ASSUME NEW n \in Nat, NEW next \in Nat, NEW array,
           array = <<"array", [i \in 1..n + 1 |-> next + i - 1]>>
    PROVE  array[1] = "array" /\ IsCell(array) /\ Children(array) = next .. next + n
    <1> DEFINE f == [i \in 1..n + 1 |-> next + i - 1]
    <1>1. array[1] = "array" /\ array[2] = f
        OBVIOUS
    <1>2. f \in Seq(Nat) /\ DOMAIN f = 1..n + 1
        OBVIOUS
    <1>3. \A i \in 1..n + 1 : f[i] = next + i - 1 /\ f[i] \in next .. next + n
        OBVIOUS
    <1> HIDE DEF f
    <1>4. \A i, j \in DOMAIN f : f[i] = f[j] => i = j
        BY <1>2, <1>3
    <1>5. \A c \in next .. next + n : c - next + 1 \in 1..n + 1 /\ f[c - next + 1] = c
        BY <1>3
    <1>6. {f[i] : i \in DOMAIN f} = next .. next + n
        <2>1. \A i \in DOMAIN f : f[i] \in next .. next + n
            BY <1>2, <1>3
        <2>2. \A c \in next .. next + n : \E i \in DOMAIN f : f[i] = c
            BY <1>2, <1>5
        <2> QED BY <2>1, <2>2
    <1> QED BY <1>1, <1>2, <1>4, <1>6 DEF IsCell, Children

\* The move to new storage keeps the forest: a moved value takes its
\* children with it, and its old cell is gone.
LEMMA Relocation ==
    ASSUME NEW cells, NEW next, Heap(cells, next), NEW p \in DOMAIN cells,
           NEW n \in Nat, NEW elements,
           \A i \in 1..n : elements[i] \in Children(cells[p]),
           \A i, j \in 1..n : elements[i] = elements[j] => i = j,
           NEW v, IsCell(v), Children(v) = {},
           NEW array, IsCell(array), Children(array) = next .. next + n,
           NEW later, later = [c \in DOMAIN later |-> later[c]],
           DOMAIN later = (DOMAIN cells \ Children(cells[p])) \cup (next .. next + n),
           p \notin Children(cells[p]), later[p] = array, later[next + n] = v,
           \A i \in 1..n : later[next + i - 1] = cells[elements[i]],
           \A c \in DOMAIN cells \ Children(cells[p]) : c # p => later[c] = cells[c]
    PROVE  Heap(later, next + n + 1)
    <1> DEFINE Moved == 1..n
               stays(c) == c \in DOMAIN cells /\ c \notin Children(cells[p]) /\ c # p
    <1>1. /\ next \in Nat /\ Root \in DOMAIN cells /\ Root = 0
          /\ \A c \in DOMAIN cells : c \in Nat /\ c < next /\ IsCell(cells[c])
          /\ \A c \in DOMAIN cells : Children(cells[c]) \subseteq DOMAIN cells \ {Root}
          /\ \A c, d \in DOMAIN cells : c # d => Children(cells[c]) \cap Children(cells[d]) = {}
        BY DEF Heap, Root
    <1>2. \A c \in next .. next + n : c = next + n \/ \E i \in Moved : c = next + i - 1
        <2> SUFFICES ASSUME NEW c \in next .. next + n, c # next + n
                     PROVE  \E i \in Moved : c = next + i - 1
            OBVIOUS
        <2>1. c - next + 1 \in Moved /\ c = next + (c - next + 1) - 1
            BY <1>1
        <2> QED BY <2>1
    <1>3. \A c \in DOMAIN later : stays(c) \/ c = p \/ c = next + n \/ \E i \in Moved : c = next + i - 1
        BY <1>2
    <1>4. \A i \in Moved : elements[i] \in DOMAIN cells /\ elements[i] # p /\ later[next + i - 1] = cells[elements[i]]
        BY <1>1
    <1>5. \A c \in DOMAIN later : stays(c) => later[c] = cells[c]
        OBVIOUS
    <1>6. /\ Root \in DOMAIN later
          /\ \A c \in DOMAIN later : c \in Nat /\ c < next + n + 1
        BY <1>1
    <1>7. \A c \in DOMAIN later : IsCell(later[c])
        <2> SUFFICES ASSUME NEW c \in DOMAIN later PROVE IsCell(later[c])
            OBVIOUS
        <2>1. CASE stays(c) BY <2>1, <1>1, <1>5
        <2>2. CASE \E i \in Moved : c = next + i - 1 BY <2>2, <1>1, <1>4
        <2> QED BY <1>3, <2>1, <2>2
    \* A cell that p owned is owned by nothing else.
    <1>8. \A c \in DOMAIN cells : c # p => Children(cells[c]) \subseteq DOMAIN later \ {Root}
        BY <1>1
    <1>9. \A c \in DOMAIN later : Children(later[c]) \subseteq DOMAIN later \ {Root}
        <2> SUFFICES ASSUME NEW c \in DOMAIN later PROVE Children(later[c]) \subseteq DOMAIN later \ {Root}
            OBVIOUS
        <2>1. CASE stays(c) BY <2>1, <1>5, <1>8
        <2>2. CASE c = p BY <2>2, <1>1
        <2>3. CASE c = next + n BY <2>3
        <2>4. CASE \E i \in Moved : c = next + i - 1
            <3>1. PICK i \in Moved : c = next + i - 1 BY <2>4
            <3> QED BY <3>1, <1>4, <1>8
        <2> QED BY <1>3, <2>1, <2>2, <2>3, <2>4
    \* Each cell apart from p and the new one stands for one of before.
    <1> DEFINE from(c) == IF c >= next THEN elements[c - next + 1] ELSE c
    <1>10. \A c \in DOMAIN later : c # p /\ c # next + n =>
              /\ from(c) \in DOMAIN cells /\ from(c) # p /\ later[c] = cells[from(c)]
              /\ c >= next <=> from(c) \in Children(cells[p])
        <2> SUFFICES ASSUME NEW c \in DOMAIN later, c # p, c # next + n
                     PROVE  /\ from(c) \in DOMAIN cells /\ from(c) # p /\ later[c] = cells[from(c)]
                            /\ c >= next <=> from(c) \in Children(cells[p])
            OBVIOUS
        <2>1. CASE stays(c)
            <3>1. from(c) = c BY <2>1, <1>1
            <3> QED BY <3>1, <2>1, <1>5, <1>1
        <2>2. ASSUME NEW i \in Moved, c = next + i - 1
              PROVE  /\ from(c) \in DOMAIN cells /\ from(c) # p /\ later[c] = cells[from(c)]
                     /\ c >= next <=> from(c) \in Children(cells[p])
            <3>1. c >= next /\ c - next + 1 = i BY <2>2, <1>1
            <3>2. from(c) = elements[i] BY <3>1
            <3> QED BY <3>1, <3>2, <1>4, <2>2
        <2> QED BY <1>3, <2>1, <2>2
    <1>11. ASSUME NEW c \in DOMAIN later, NEW d \in DOMAIN later, c # d, from(c) = from(d),
                  c # p, c # next + n, d # p, d # next + n
           PROVE  FALSE
        <2>1. c \in Nat /\ d \in Nat BY <1>6
        <2>2. c >= next <=> d >= next BY <1>10, <1>11
        <2>3. CASE c < next BY <2>1, <2>2, <2>3, <1>1, <1>11
        <2>4. CASE c >= next
            <3>1. c - next + 1 \in Moved /\ d - next + 1 \in Moved BY <2>1, <2>2, <2>4, <1>1, <1>6, <1>11
            <3>2. elements[c - next + 1] = elements[d - next + 1] BY <2>1, <2>2, <2>4, <1>1, <1>11
            <3>3. c - next + 1 = d - next + 1 BY <3>1, <3>2
            <3> QED BY <3>3, <2>1, <1>1, <1>11
        <2> QED BY <2>1, <2>3, <2>4, <1>1
    <1> HIDE DEF from
    <1>12. ASSUME NEW c \in DOMAIN later, NEW d \in DOMAIN later, c # d
           PROVE  Children(later[c]) \cap Children(later[d]) = {}
        <2>1. CASE c = next + n \/ d = next + n BY <2>1
        <2>2. CASE c # next + n /\ d # next + n /\ c # p /\ d # p
            BY <2>2, <1>10, <1>11, <1>12, <1>1
        <2>3. ASSUME NEW e \in DOMAIN later, e # p, e # next + n
              PROVE  Children(later[e]) \cap Children(later[p]) = {}
            <3>1. Children(later[e]) \subseteq DOMAIN cells BY <2>3, <1>10, <1>1
            <3> QED BY <3>1, <1>1
        <2>4. CASE c = p BY <2>1, <2>3, <2>4, <1>12
        <2>5. CASE d = p BY <2>1, <2>3, <2>5, <1>12
        <2> QED BY <2>1, <2>2, <2>4, <2>5
    <1>13. next + n + 1 \in Nat BY <1>1
    <1>14. \A c, d \in DOMAIN later : c # d => Children(later[c]) \cap Children(later[d]) = {}
        BY <1>12
    <1>15. later = [c \in DOMAIN later |-> later[c]] OBVIOUS
    <1> QED BY <1>6, <1>7, <1>9, <1>13, <1>14, <1>15 DEF Heap

\* emplace_back: the elements have moved, the other cells stay, the new
\* element is owned by the array.
LEMMA EmplaceBackFacts ==
    ASSUME NEW s, IsConsumer(s), Heap(s.cells, s.next), NEW p \in DOMAIN s.cells,
           s.cells[p][1] = "array", p \notin Children(s.cells[p]),
           NEW v, IsCell(v), Children(v) = {},
           NEW h, h = EmplaceBack(s, p, v)
    PROVE  /\ IsConsumer(h.consumer)
           /\ h.consumer.ref_stack = s.ref_stack
           /\ h.consumer.key_keep_stack = s.key_keep_stack
           /\ Heap(h.consumer.cells, h.consumer.next)
           /\ \A c \in DOMAIN s.cells \ Children(s.cells[p]) :
                 c \in DOMAIN h.consumer.cells /\ (c # p => h.consumer.cells[c] = s.cells[c])
           /\ h.consumer.cells[p][1] = "array"
           /\ h.element \in DOMAIN h.consumer.cells \ DOMAIN s.cells
           /\ h.element \in Nat
           /\ h.consumer.cells[h.element] = v
           /\ Owns(h.consumer.cells, p, h.element)
    <1> DEFINE cells == s.cells
               next == s.next
               elements == cells[p][2]
               n == Len(elements)
               array == <<"array", [i \in 1..n + 1 |-> next + i - 1]>>
               dom == (DOMAIN cells \ Children(cells[p])) \cup (next .. next + n)
               later == [c \in dom |->
                           IF c \in next .. next + n
                           THEN IF c = next + n THEN v ELSE cells[elements[c - next + 1]]
                           ELSE IF c = p THEN array ELSE cells[c]]
               t == [s EXCEPT !.cells = later, !.next = next + n + 1]
    <1>1. elements \in Seq(Nat) /\ next \in Nat
        BY DEF Heap, IsCell
    <1>2. n \in Nat /\ DOMAIN elements = 1..n
        BY <1>1
    <1>3. /\ \A i, j \in 1..n : elements[i] = elements[j] => i = j
          /\ \A i \in 1..n : elements[i] \in Children(cells[p])
        BY <1>2 DEF Heap, IsCell, Children
    <1>4. ToSet(elements) = Children(cells[p])
        BY DEF ToSet, Children
    <1>5. h = [consumer |-> t, element |-> next + n]
        BY <1>4, Zenon DEF EmplaceBack, Handled
    <1> HIDE DEF t
    <1>6. h.consumer = t /\ h.element = next + n
        BY <1>5
    <1>7. array[1] = "array" /\ IsCell(array) /\ Children(array) = next .. next + n
        BY <1>1, <1>2, NewArray
    <1> HIDE DEF array
    <1>8. \A c \in DOMAIN cells : c \in Nat /\ c < next /\ c \notin next .. next + n
        BY <1>1 DEF Heap
    <1>9. next + n \in next .. next + n /\ next + n \in dom
        BY <1>1, <1>2
    <1>10. \A i \in 1..n : /\ next + i - 1 \in next .. next + n /\ next + i - 1 # next + n
                           /\ (next + i - 1) - next + 1 = i
        BY <1>1, <1>2
    <1> HIDE DEF elements, n, cells, next
    <1>11. /\ DOMAIN later = dom /\ later = [c \in DOMAIN later |-> later[c]]
           /\ \A c \in DOMAIN cells \ Children(cells[p]) : c # p => later[c] = cells[c]
           /\ later[p] = array
           /\ later[next + n] = v
        BY <1>8, <1>9 DEF cells
    <1>12. \A i \in 1..n : later[next + i - 1] = cells[elements[i]]
        BY <1>10
    <1> HIDE DEF later
    <1>13. p \in DOMAIN cells /\ p \notin Children(cells[p]) /\ Heap(cells, next)
        BY DEF cells, next
    <1>14. Heap(later, next + n + 1)
        BY <1>2, <1>3, <1>7, <1>11, <1>12, <1>13, Relocation
    <1>15. /\ IsConsumer(h.consumer) /\ h.consumer.cells = later /\ h.consumer.next = next + n + 1
           /\ h.consumer.ref_stack = s.ref_stack /\ h.consumer.key_keep_stack = s.key_keep_stack
        <2> DEFINE u == [s EXCEPT !.cells = later]
        <2>1. t = [u EXCEPT !.next = next + n + 1]
            BY DEF t
        <2>2. u = [cells |-> later, next |-> s.next, ref_stack |-> s.ref_stack,
                   object_element |-> s.object_element, keep_stack |-> s.keep_stack,
                   key_keep_stack |-> s.key_keep_stack, errored |-> s.errored]
            BY DEF IsConsumer
        <2> HIDE DEF u
        <2>3. t = [cells |-> later, next |-> next + n + 1, ref_stack |-> s.ref_stack,
                   object_element |-> s.object_element, keep_stack |-> s.keep_stack,
                   key_keep_stack |-> s.key_keep_stack, errored |-> s.errored]
            BY <2>1, <2>2
        <2> QED BY <1>6, <2>3 DEF IsConsumer
    <1>16. Owns(later, p, next + n)
        BY <1>7, <1>9, <1>11, <1>13 DEF Owns
    <1>17. next + n \in Nat
        BY <1>1, <1>2 DEF n, next, elements
    <1> QED BY <1>6, <1>7, <1>8, <1>9, <1>11, <1>13, <1>14, <1>15, <1>16, <1>17 DEF cells

\* map::operator[]: the element of the key is owned by the object.
LEMMA SubscriptFacts ==
    ASSUME NEW s, IsConsumer(s), Heap(s.cells, s.next), NEW p \in DOMAIN s.cells,
           s.cells[p][1] = "object", NEW key,
           NEW h, h = Subscript(s, p, key)
    PROVE  /\ IsConsumer(h.consumer)
           /\ h.consumer.ref_stack = s.ref_stack
           /\ h.consumer.key_keep_stack = s.key_keep_stack
           /\ Heap(h.consumer.cells, h.consumer.next)
           /\ \A c \in DOMAIN s.cells :
                 c \in DOMAIN h.consumer.cells /\ (c # p => h.consumer.cells[c] = s.cells[c])
           /\ h.consumer.cells[p][1] = "object"
           /\ h.element \in DOMAIN h.consumer.cells
           /\ Owns(h.consumer.cells, p, h.element)
    <1> DEFINE cells == s.cells
               next == s.next
               members == cells[p][2]
               f == [k \in DOMAIN members \cup {key} |-> IF k = key THEN next ELSE members[k]]
               object == <<"object", f>>
               later == [c \in DOMAIN cells \cup {next} |->
                            IF c = next THEN NullValue ELSE IF c = p THEN object ELSE cells[c]]
               t == [s EXCEPT !.cells = later, !.next = next + 1]
    <1>1. CASE key \in DOMAIN members
        <2>1. h = [consumer |-> s, element |-> members[key]]
            BY <1>1, Zenon DEF Subscript, Handled
        <2>2. h.consumer = s /\ h.element = members[key]
            BY <2>1
        <2>3. members[key] \in Children(cells[p])
            BY <1>1 DEF Children
        <2>4. Children(cells[p]) \subseteq DOMAIN cells
            BY DEF Heap
        <2> QED BY <2>2, <2>3, <2>4 DEF Owns
    <1>2. CASE key \notin DOMAIN members
        <2>1. h = [consumer |-> t, element |-> next]
            BY <1>2, Zenon DEF Subscript, Handled
        <2> HIDE DEF t
        <2>2. h.consumer = t /\ h.element = next
            BY <2>1
        <2>3. /\ IsConsumer(t) /\ t.cells = later /\ t.next = next + 1 /\ t.ref_stack = s.ref_stack
              /\ t.key_keep_stack = s.key_keep_stack
            <3> HIDE DEF later, next
            <3> DEFINE u == [s EXCEPT !.cells = later]
            <3>1. t = [u EXCEPT !.next = next + 1]
                BY DEF t
            <3>2. u = [cells |-> later, next |-> s.next, ref_stack |-> s.ref_stack,
                       object_element |-> s.object_element, keep_stack |-> s.keep_stack,
                       key_keep_stack |-> s.key_keep_stack, errored |-> s.errored]
                BY DEF IsConsumer
            <3> HIDE DEF u
            <3>3. t = [cells |-> later, next |-> next + 1, ref_stack |-> s.ref_stack,
                       object_element |-> s.object_element, keep_stack |-> s.keep_stack,
                       key_keep_stack |-> s.key_keep_stack, errored |-> s.errored]
                BY <3>1, <3>2
            <3> QED BY <3>3 DEF IsConsumer
        <2>5. /\ next \in Nat /\ Root \in DOMAIN cells /\ Root = 0
              /\ \A c \in DOMAIN cells : c \in Nat /\ c < next /\ IsCell(cells[c])
              /\ \A c \in DOMAIN cells : Children(cells[c]) \subseteq DOMAIN cells \ {Root}
              /\ \A c, d \in DOMAIN cells : c # d => Children(cells[c]) \cap Children(cells[d]) = {}
            BY DEF Heap, Root
        <2>6. next \notin DOMAIN cells
            BY <2>5
        <2>7. IsCell(NullValue) /\ Children(NullValue) = {}
            BY DEF IsCell, Children, NullValue
        <2>8. object[1] = "object" /\ object[2] = f
            OBVIOUS
        <2>9. /\ \A k \in DOMAIN members : members[k] \in Children(cells[p]) /\ members[k] # next
              /\ \A k, l \in DOMAIN members : members[k] = members[l] => k = l
            BY <2>5, <2>6 DEF Children, IsCell
        <2>10. DOMAIN f = DOMAIN members \cup {key} /\ f[key] = next
               /\ \A k \in DOMAIN members : f[k] = members[k]
            BY <1>2
        <2> HIDE DEF f
        <2>11. IsCell(object)
            <3>1. \A k, l \in DOMAIN f : f[k] = f[l] => k = l
                BY <1>2, <2>9, <2>10
            <3> QED BY <2>8, <3>1 DEF IsCell
        <2>12. Children(object) = Children(cells[p]) \cup {next}
            <3>1. Children(object) = {f[k] : k \in DOMAIN f}
                BY <2>8 DEF Children
            <3>2. Children(cells[p]) = {members[k] : k \in DOMAIN members}
                BY DEF Children
            <3> QED BY <3>1, <3>2, <2>10
        <2> HIDE DEF object, members, cells, next
        <2>13. /\ DOMAIN later = DOMAIN cells \cup {next} /\ later = [c \in DOMAIN later |-> later[c]]
               /\ \A c \in DOMAIN cells : c # p => later[c] = cells[c]
               /\ later[next] = NullValue
            BY <2>6
        <2>14. p \in DOMAIN cells
            BY DEF cells
        <2>15. later[p] = object
            BY <2>6, <2>14
        <2> HIDE DEF later
        <2>16. \A c \in DOMAIN later : c \in Nat /\ c < next + 1 /\ IsCell(later[c])
            BY <2>5, <2>7, <2>11, <2>13, <2>14, <2>15
        <2>17. \A c \in DOMAIN later : Children(later[c]) \subseteq DOMAIN later \ {Root}
            <3>1. next # Root BY <2>5, <2>6
            <3> QED BY <3>1, <2>5, <2>7, <2>12, <2>13, <2>14, <2>15
        <2>18. \A c, d \in DOMAIN later : c # d => Children(later[c]) \cap Children(later[d]) = {}
            <3>1. ASSUME NEW c \in DOMAIN cells, c # p
                  PROVE  Children(cells[c]) \cap Children(object) = {}
                BY <3>1, <2>5, <2>6, <2>12, <2>14
            <3> QED BY <3>1, <2>5, <2>7, <2>13, <2>14, <2>15
        <2>19. Heap(later, next + 1)
            <3>1. next + 1 \in Nat /\ Root \in DOMAIN later BY <2>5, <2>13
            <3> QED BY <3>1, <2>13, <2>16, <2>17, <2>18 DEF Heap
        <2>20. Owns(later, p, next)
            BY <2>12, <2>13, <2>14, <2>15 DEF Owns
        <2> QED BY <2>2, <2>3, <2>8, <2>13, <2>14, <2>15, <2>19, <2>20 DEF cells
    <1> QED BY <1>1, <1>2

-----------------------------------------------------------------------------
(* The stack of pointers *)

\* What the innermost container owns is not open itself.
LEMMA NotOpen ==
    ASSUME NEW cells, NEW next, NEW stack, NEW kinds, Heap(cells, next),
           Chain(cells, stack, kinds), stack # <<>>,
           NEW q, Owns(cells, Last(stack), q)
    PROVE  /\ q \in DOMAIN cells /\ q # Root /\ q # NullPtr
           /\ \A i \in 1..Len(stack) : stack[i] # q
    <1> DEFINE n == Len(stack)
    <1>1. n \in Nat /\ n # 0 /\ n \in 1..n /\ Last(stack) = stack[n]
        BY DEF Chain, Last
    <1>2. stack[n] \in DOMAIN cells /\ q \in DOMAIN cells /\ q # Root /\ q \in Nat /\ stack[n] \in Nat
        BY <1>1 DEF Owns, Heap
    <1>3. q # NullPtr /\ stack[n] # NullPtr
        BY <1>2 DEF NullPtr
    <1>4. ASSUME NEW i \in 1..n, stack[i] = q PROVE FALSE
        <2>1. i # 1 BY <1>2, <1>3, <1>4 DEF Chain
        <2>2. Owns(cells, stack[i - 1], q) BY <1>3, <1>4, <2>1 DEF Chain
        <2>3. stack[i - 1] = stack[n] BY <1>1, <2>2 DEF Owns, Heap
        <2>4. i - 1 \in 1..n BY <1>1, <2>1
        <2>5. i - 1 = n BY <1>1, <1>3, <2>3, <2>4 DEF Chain
        <2> QED BY <1>1, <2>5
    <1> QED BY <1>2, <1>3, <1>4

\* A container is opened in the innermost one, ...
LEMMA PushChain ==
    ASSUME NEW cells, NEW stack, NEW kinds, Chain(cells, stack, kinds),
           NEW k \in BOOLEAN, NEW e \in Int,
           e # NullPtr =>
              /\ e \in DOMAIN cells /\ cells[e][1] = Kind(k)
              /\ \A i \in 1..Len(stack) : stack[i] # e
              /\ IF stack = <<>> THEN e = Root ELSE Owns(cells, Last(stack), e)
    PROVE  Chain(cells, Append(stack, e), Append(kinds, k))
    <1> DEFINE n == Len(stack)
               later == Append(stack, e)
               kinds2 == Append(kinds, k)
    <1>1. /\ stack \in Seq(Int) /\ kinds \in Seq(BOOLEAN) /\ n = Len(kinds) /\ n \in Nat
          /\ n = 0 <=> stack = <<>>
        BY DEF Chain
    <1>2. /\ later \in Seq(Int) /\ Len(later) = n + 1 /\ later[n + 1] = e
          /\ \A i \in 1..n : later[i] = stack[i]
        BY <1>1, AppendFacts
    <1>3. /\ kinds2 \in Seq(BOOLEAN) /\ Len(kinds2) = n + 1 /\ kinds2[n + 1] = k
          /\ \A i \in 1..n : kinds2[i] = kinds[i]
        BY <1>1, AppendFacts
    <1> HIDE DEF later, kinds2
    <1>4. ASSUME NEW i \in 1..n, later[i] # NullPtr
          PROVE  /\ later[i] \in DOMAIN cells /\ cells[later[i]][1] = Kind(kinds2[i])
                 /\ IF i = 1 THEN later[i] = Root ELSE Owns(cells, later[i - 1], later[i])
        <2>1. CASE i = 1 BY <2>1, <1>1, <1>2, <1>3, <1>4 DEF Chain
        <2>2. CASE i # 1
            <3>1. i - 1 \in 1..n BY <2>2, <1>1
            <3> QED BY <2>2, <3>1, <1>2, <1>3, <1>4 DEF Chain
        <2> QED BY <2>1, <2>2
    <1>5. ASSUME e # NullPtr, n + 1 # 1
          PROVE  Owns(cells, later[n + 1 - 1], later[n + 1])
        <2>1. stack # <<>> /\ n \in 1..n /\ n + 1 - 1 = n BY <1>1, <1>5
        <2> QED BY <2>1, <1>2, <1>5 DEF Last
    <1>6. ASSUME e # NullPtr, n + 1 = 1
          PROVE  e = Root
        BY <1>1, <1>6
    <1>7. \A i \in 1..n + 1 : i \in 1..n \/ i = n + 1
        BY <1>1
    <1>8. \A i \in 1..n + 1 : later[i] # NullPtr =>
             /\ later[i] \in DOMAIN cells /\ cells[later[i]][1] = Kind(kinds2[i])
             /\ IF i = 1 THEN later[i] = Root ELSE Owns(cells, later[i - 1], later[i])
        BY <1>2, <1>3, <1>4, <1>5, <1>6, <1>7
    <1>9. \A i, j \in 1..n + 1 : later[i] # NullPtr /\ later[i] = later[j] => i = j
        BY <1>2, <1>7 DEF Chain
    <1> QED BY <1>2, <1>3, <1>8, <1>9 DEF Chain, later, kinds2

\* ... and closed.
LEMMA PopChain ==
    ASSUME NEW cells, NEW stack, NEW kinds, Chain(cells, stack, kinds), stack # <<>>
    PROVE  /\ Chain(cells, Front(stack), Front(kinds))
           /\ Len(Front(stack)) = Len(stack) - 1
           /\ \A i \in 1..Len(stack) - 1 : Front(stack)[i] = stack[i]
    <1> DEFINE n == Len(stack)
    <1>1. /\ stack \in Seq(Int) /\ kinds \in Seq(BOOLEAN) /\ n = Len(kinds) /\ n \in Nat \ {0}
          /\ kinds # <<>>
        BY DEF Chain
    <1>2. /\ Front(stack) \in Seq(Int) /\ Len(Front(stack)) = n - 1
          /\ \A i \in 1..n - 1 : Front(stack)[i] = stack[i]
        BY <1>1, FrontFacts
    <1>3. /\ Front(kinds) \in Seq(BOOLEAN) /\ Len(Front(kinds)) = n - 1
          /\ \A i \in 1..n - 1 : Front(kinds)[i] = kinds[i]
        BY <1>1, FrontFacts
    <1>4. \A i \in 1..n - 1 : i \in 1..n /\ (i # 1 => i - 1 \in 1..n - 1)
        BY <1>1
    <1>5. \A i \in 1..n - 1 : Front(stack)[i] # NullPtr =>
             /\ Front(stack)[i] \in DOMAIN cells /\ cells[Front(stack)[i]][1] = Kind(Front(kinds)[i])
             /\ IF i = 1 THEN Front(stack)[i] = Root
                ELSE Owns(cells, Front(stack)[i - 1], Front(stack)[i])
        BY <1>2, <1>3, <1>4 DEF Chain
    <1>6. \A i, j \in 1..n - 1 :
             Front(stack)[i] # NullPtr /\ Front(stack)[i] = Front(stack)[j] => i = j
        BY <1>2, <1>4 DEF Chain
    <1> QED BY <1>2, <1>3, <1>5, <1>6 DEF Chain

-----------------------------------------------------------------------------
(* The events of the builders *)

\* A value that owns nothing: a leaf, or a container that was just opened.
IsNew(v) == IsCell(v) /\ Children(v) = {}

LEMMA NewValues ==
    /\ \A x : IsNew(Leaf(x))
    /\ IsNew(NullValue) /\ IsNew(DiscardedValue)
    /\ IsNew(EmptyArray) /\ EmptyArray[1] = "array"
    /\ IsNew(EmptyObject) /\ EmptyObject[1] = "object"
    <1>1. \A x : IsNew(Leaf(x))
        BY DEF IsNew, IsCell, Children, Leaf
    <1>2. IsNew(NullValue) /\ IsNew(DiscardedValue)
        BY DEF IsNew, IsCell, Children, NullValue, DiscardedValue
    <1>3. EmptyArray[1] = "array" /\ EmptyArray[2] = <<>>
        BY DEF EmptyArray
    <1>4. EmptyObject[1] = "object" /\ DOMAIN EmptyObject[2] = {}
        BY DEF EmptyObject
    <1>5. <<>> \in Seq(Nat) /\ DOMAIN <<>> = {}
        OBVIOUS
    <1>6. IsNew(EmptyArray)
        BY <1>3, <1>5 DEF IsNew, IsCell, Children
    <1>7. IsNew(EmptyObject)
        BY <1>4 DEF IsNew, IsCell, Children
    <1> QED BY <1>1, <1>2, <1>3, <1>4, <1>6, <1>7

\* handle_value kept the path, and put v at its end or nowhere.
Stored(h, s, kinds, v) ==
    /\ Sound(h.consumer, kinds)
    /\ h.consumer.ref_stack = s.ref_stack
    /\ h.element \in Int
    /\ h.element # NullPtr =>
          /\ h.element \in DOMAIN h.consumer.cells
          /\ h.consumer.cells[h.element] = v
          /\ \A i \in 1..Len(s.ref_stack) : s.ref_stack[i] # h.element
          /\ IF s.ref_stack = <<>> THEN h.element = Root
             ELSE Owns(h.consumer.cells, Last(s.ref_stack), h.element)

LEMMA LastFacts ==
    ASSUME NEW cells, NEW stack, NEW kinds, Chain(cells, stack, kinds), stack # <<>>
    PROVE  /\ Len(stack) \in Nat \ {0} /\ Len(stack) \in 1..Len(stack)
           /\ Last(stack) = stack[Len(stack)]
           /\ Last(stack) # NullPtr =>
                 /\ Last(stack) \in DOMAIN cells
                 /\ cells[Last(stack)][1] = Kind(Last(kinds))
    BY DEF Chain, Last

LEMMA StoredAtRoot ==
    ASSUME NEW s, NEW kinds, Sound(s, kinds), s.ref_stack = <<>>, NEW v, IsNew(v),
           NEW h, h = Handled(Assign(s, Root, v), Root)
    PROVE  Stored(h, s, kinds, v) /\ h.element # NullPtr
    <1> DEFINE t == Assign(s, Root, v)
    <1>1. h = [consumer |-> t, element |-> Root]
        BY Zenon DEF Handled
    <1>2. Root \in DOMAIN s.cells /\ Children(v) \subseteq Children(s.cells[Root])
          /\ IsConsumer(s) /\ Heap(s.cells, s.next) /\ IsCell(v)
        BY DEF Sound, Heap, IsNew
    <1>3. t = Assign(s, Root, v)
        OBVIOUS
    <1> HIDE DEF t
    <1>4. h.consumer = t /\ h.element = Root
        BY <1>1
    <1>5. /\ IsConsumer(t) /\ t.ref_stack = s.ref_stack /\ Heap(t.cells, t.next)
          /\ t.key_keep_stack = s.key_keep_stack
          /\ DOMAIN t.cells = DOMAIN s.cells /\ t.cells[Root] = v
        BY <1>2, <1>3, AssignFacts
    <1>6. Chain(t.cells, t.ref_stack, kinds)
        BY <1>5 DEF Sound, Chain
    <1>7. Sound(t, kinds)
        BY <1>5, <1>6 DEF Sound
    <1>8. Root \in Int /\ Root # NullPtr /\ Len(s.ref_stack) = 0
        BY DEF Root, NullPtr
    <1> QED BY <1>2, <1>4, <1>5, <1>7, <1>8 DEF Stored

LEMMA StoredInArray ==
    ASSUME NEW s, NEW kinds, Sound(s, kinds), s.ref_stack # <<>>, Last(s.ref_stack) # NullPtr,
           IsArrayCell(s, Last(s.ref_stack)), NEW v, IsNew(v),
           NEW h, h = EmplaceBack(s, Last(s.ref_stack), v)
    PROVE  Stored(h, s, kinds, v) /\ h.element # NullPtr
    <1> DEFINE p == Last(s.ref_stack)
               n == Len(s.ref_stack)
    <1>1. /\ IsConsumer(s) /\ Heap(s.cells, s.next) /\ Chain(s.cells, s.ref_stack, kinds)
          /\ IsCell(v) /\ Children(v) = {} /\ s.cells[p][1] = "array"
        BY DEF Sound, IsNew, IsArrayCell
    <1>2. p \in DOMAIN s.cells /\ n \in 1..n /\ p = s.ref_stack[n]
        BY <1>1, LastFacts
    <1>3. ASSUME NEW q \in Children(s.cells[p]) PROVE \A i \in 1..n : s.ref_stack[i] # q
        <2>1. Owns(s.cells, Last(s.ref_stack), q) BY <1>2, <1>3 DEF Owns
        <2> QED BY <1>1, <2>1, NotOpen
    <1>4. p \notin Children(s.cells[p])
        BY <1>2, <1>3
    <1> DEFINE t == h.consumer
    <1>5. /\ IsConsumer(t) /\ t.ref_stack = s.ref_stack /\ Heap(t.cells, t.next)
          /\ t.key_keep_stack = s.key_keep_stack
          /\ \A c \in DOMAIN s.cells \ Children(s.cells[p]) :
                c \in DOMAIN t.cells /\ (c # p => t.cells[c] = s.cells[c])
          /\ t.cells[p][1] = "array"
          /\ h.element \in DOMAIN t.cells \ DOMAIN s.cells
          /\ h.element \in Nat
          /\ t.cells[h.element] = v
          /\ Owns(t.cells, p, h.element)
        BY <1>1, <1>2, <1>4, EmplaceBackFacts
    <1> HIDE DEF t
    <1>6. ASSUME NEW i \in 1..n, s.ref_stack[i] # NullPtr
          PROVE  /\ s.ref_stack[i] \in DOMAIN t.cells
                 /\ t.cells[s.ref_stack[i]][1] = s.cells[s.ref_stack[i]][1]
                 /\ i < n => t.cells[s.ref_stack[i]] = s.cells[s.ref_stack[i]]
        <2>1. s.ref_stack[i] \in DOMAIN s.cells \ Children(s.cells[p])
            BY <1>1, <1>3, <1>6 DEF Chain
        <2>2. s.ref_stack[i] = p => i = n
            BY <1>1, <1>2, <1>6 DEF Chain
        <2> QED BY <1>1, <1>5, <2>1, <2>2
    <1>7. Chain(t.cells, s.ref_stack, kinds)
        BY <1>1, <1>6, NullIsNoCell, ChainKept
    <1>8. Sound(t, kinds)
        BY <1>5, <1>7 DEF Sound
    <1>9. \A i \in 1..n : s.ref_stack[i] # h.element
        <2>1. h.element # NullPtr BY <1>5 DEF NullPtr
        <2> QED BY <2>1, <1>1, <1>5 DEF Chain
    <1>10. h.element # NullPtr /\ h.element \in Int
        BY <1>5 DEF NullPtr
    <1> QED BY <1>5, <1>8, <1>9, <1>10 DEF Stored, t

LEMMA StoredInMember ==
    ASSUME NEW s, NEW kinds, Sound(s, kinds), s.ref_stack # <<>>,
           NEW q, Owns(s.cells, Last(s.ref_stack), q), NEW v, IsNew(v),
           NEW h, h = Handled(Assign(s, q, v), q)
    PROVE  Stored(h, s, kinds, v) /\ h.element # NullPtr
    <1> DEFINE t == Assign(s, q, v)
               n == Len(s.ref_stack)
    <1>1. h = [consumer |-> t, element |-> q]
        BY Zenon DEF Handled
    <1>2. /\ IsConsumer(s) /\ Heap(s.cells, s.next) /\ Chain(s.cells, s.ref_stack, kinds) /\ IsCell(v)
        BY DEF Sound, IsNew
    <1>3. t = Assign(s, q, v)
        OBVIOUS
    <1> HIDE DEF t
    <1>4. h.consumer = t /\ h.element = q
        BY <1>1
    <1>5. /\ q \in DOMAIN s.cells /\ q # NullPtr
          /\ \A i \in 1..n : s.ref_stack[i] # q
        BY <1>2, NotOpen
    <1>6. Children(v) \subseteq Children(s.cells[q])
        BY DEF IsNew
    <1>7. /\ IsConsumer(t) /\ t.ref_stack = s.ref_stack /\ Heap(t.cells, t.next)
          /\ t.key_keep_stack = s.key_keep_stack
          /\ DOMAIN t.cells = DOMAIN s.cells /\ t.cells[q] = v
          /\ \A c \in DOMAIN s.cells : c # q => t.cells[c] = s.cells[c]
        BY <1>2, <1>3, <1>5, <1>6, AssignFacts
    <1>8. Chain(t.cells, s.ref_stack, kinds)
        <2>1. \A i \in 1..n : s.ref_stack[i] # NullPtr =>
                 /\ s.ref_stack[i] \in DOMAIN t.cells
                 /\ t.cells[s.ref_stack[i]] = s.cells[s.ref_stack[i]]
            BY <1>2, <1>5, <1>7 DEF Chain
        <2> QED BY <1>2, <2>1, NullIsNoCell, ChainKept
    <1>9. Sound(t, kinds)
        BY <1>7, <1>8 DEF Sound
    <1>10. Owns(t.cells, Last(s.ref_stack), q)
        <2>1. Last(s.ref_stack) # q BY <1>2, <1>5, LastFacts
        <2> QED BY <2>1, <1>7 DEF Owns
    <1>11. q \in Int
        BY <1>2, <1>5 DEF Heap
    <1> QED BY <1>4, <1>5, <1>7, <1>9, <1>10, <1>11 DEF Stored

\* The element of the current key, which handle_value may assign, is part
\* of the innermost container.
Ready(s, kept) ==
    /\ s.ref_stack # <<>>
    /\ Last(s.ref_stack) # NullPtr
    /\ ~IsArrayCell(s, Last(s.ref_stack))
    /\ kept
    => Owns(s.cells, Last(s.ref_stack), s.object_element)

LEMMA HandleValueFacts ==
    ASSUME NEW s, NEW kinds, Sound(s, kinds), NEW v, IsNew(v), Ready(s, TRUE),
           s.ref_stack # <<>> => Last(s.ref_stack) # NullPtr
    PROVE  Stored(HandleValue(s, v), s, kinds, v) /\ HandleValue(s, v).element # NullPtr
    <1>1. CASE s.ref_stack = <<>>
        <2>1. HandleValue(s, v) = Handled(Assign(s, Root, v), Root) BY <1>1 DEF HandleValue
        <2> QED BY <1>1, <2>1, StoredAtRoot
    <1>2. CASE s.ref_stack # <<>> /\ IsArrayCell(s, Last(s.ref_stack))
        <2>1. HandleValue(s, v) = EmplaceBack(s, Last(s.ref_stack), v) BY <1>2 DEF HandleValue
        <2> QED BY <1>2, <2>1, StoredInArray
    <1>3. CASE s.ref_stack # <<>> /\ ~IsArrayCell(s, Last(s.ref_stack))
        <2>1. HandleValue(s, v) = Handled(Assign(s, s.object_element, v), s.object_element)
            BY <1>3 DEF HandleValue
        <2>2. Owns(s.cells, Last(s.ref_stack), s.object_element)
            BY <1>3 DEF Ready
        <2> QED BY <1>3, <2>1, <2>2, StoredInMember
    <1> QED BY <1>1, <1>2, <1>3

\* Only the other stacks differ.
SameMemory(s, t) ==
    /\ t.cells = s.cells /\ t.next = s.next /\ t.ref_stack = s.ref_stack
    /\ t.object_element = s.object_element

LEMMA SameSound ==
    ASSUME NEW s, NEW t, NEW kinds, Sound(s, kinds), IsConsumer(t), SameMemory(s, t),
           t.key_keep_stack \in Seq(BOOLEAN)
    PROVE  Sound(t, kinds)
    BY DEF Sound, SameMemory

LEMMA SameStored ==
    ASSUME NEW s, NEW t, NEW kinds, NEW v, NEW h, SameMemory(s, t), Stored(h, t, kinds, v)
    PROVE  Stored(h, s, kinds, v)
    BY DEF Stored, SameMemory

LEMMA SkippedFacts ==
    ASSUME NEW s, NEW kinds, Sound(s, kinds), NEW v
    PROVE  Stored(Skipped(s), s, kinds, v)
    <1>1. Skipped(s).consumer = s /\ Skipped(s).element = NullPtr
        BY DEF Skipped, Handled
    <1>2. NullPtr \in Int
        BY DEF NullPtr
    <1> QED BY <1>1, <1>2 DEF Stored

LEMMA StoreElementFacts ==
    ASSUME NEW s, NEW kinds, Sound(s, kinds), NEW v, IsNew(v), s.ref_stack # <<>>,
           Last(s.key_keep_stack) => Owns(s.cells, Last(s.ref_stack), s.object_element)
    PROVE  Stored(StoreElement(s, v), s, kinds, v)
    <1> DEFINE popped == [s EXCEPT !.key_keep_stack = Front(s.key_keep_stack)]
    <1>1. IsConsumer(popped) /\ SameMemory(s, popped)
        BY DEF Sound, IsConsumer, SameMemory
    <1>2. StoreElement(s, v) = IF Last(s.key_keep_stack)
                               THEN Handled(Assign(popped, s.object_element, v), s.object_element)
                               ELSE Skipped(popped)
        BY Zenon DEF StoreElement
    <1> HIDE DEF popped
    <1>3. Sound(popped, kinds)
        <2>1. s.key_keep_stack \in Seq(BOOLEAN) BY DEF Sound
        <2>2. Front(s.key_keep_stack) \in Seq(BOOLEAN) BY <2>1, FrontFacts, FrontOfEmpty
        <2>3. popped.key_keep_stack = Front(s.key_keep_stack) BY DEF popped, Sound, IsConsumer
        <2> QED BY <1>1, <2>2, <2>3, SameSound
    <1>4. CASE Last(s.key_keep_stack)
        <2>1. Owns(popped.cells, Last(popped.ref_stack), s.object_element) /\ popped.ref_stack # <<>>
            BY <1>1, <1>4 DEF SameMemory
        <2>2. StoreElement(s, v) = Handled(Assign(popped, s.object_element, v), s.object_element)
            BY <1>2, <1>4
        <2>3. Stored(StoreElement(s, v), popped, kinds, v)
            BY <1>3, <2>1, <2>2, StoredInMember
        <2> QED BY <1>1, <2>3, SameStored
    <1>5. CASE ~Last(s.key_keep_stack)
        <2>1. StoreElement(s, v) = Skipped(popped)
            BY <1>2, <1>5
        <2>2. Stored(StoreElement(s, v), popped, kinds, v)
            BY <1>3, <2>1, SkippedFacts
        <2> QED BY <1>1, <2>2, SameStored
    <1> QED BY <1>4, <1>5

LEMMA CallbackValueFacts ==
    ASSUME NEW s, NEW kinds, Sound(s, kinds), NEW v, IsNew(v), NEW keep,
           Ready(s, Last(s.key_keep_stack))
    PROVE  Stored(CallbackHandleValue(s, v, keep), s, kinds, v)
    <1> DEFINE h == CallbackHandleValue(s, v, keep)
    <1>1. CASE ~Last(s.keep_stack) \/ ~keep
        <2>1. h = Skipped(s) BY <1>1, Zenon DEF CallbackHandleValue
        <2> QED BY <2>1, SkippedFacts
    <1>2. CASE ~(~Last(s.keep_stack) \/ ~keep) /\ s.ref_stack = <<>>
        <2>1. h = Handled(Assign(s, Root, v), Root) BY <1>2, Zenon DEF CallbackHandleValue
        <2> QED BY <1>2, <2>1, StoredAtRoot
    <1>3. CASE ~(~Last(s.keep_stack) \/ ~keep) /\ s.ref_stack # <<>> /\ Last(s.ref_stack) = NullPtr
        <2>1. h = Skipped(s) BY <1>3, Zenon DEF CallbackHandleValue
        <2> QED BY <2>1, SkippedFacts
    <1>4. CASE /\ ~(~Last(s.keep_stack) \/ ~keep) /\ s.ref_stack # <<>> /\ Last(s.ref_stack) # NullPtr
               /\ IsArrayCell(s, Last(s.ref_stack))
        <2>1. h = EmplaceBack(s, Last(s.ref_stack), v) BY <1>4, Zenon DEF CallbackHandleValue
        <2> QED BY <1>4, <2>1, StoredInArray
    <1>5. CASE /\ ~(~Last(s.keep_stack) \/ ~keep) /\ s.ref_stack # <<>> /\ Last(s.ref_stack) # NullPtr
               /\ ~IsArrayCell(s, Last(s.ref_stack))
        <2>1. h = StoreElement(s, v) BY <1>5, Zenon DEF CallbackHandleValue
        <2>2. Last(s.key_keep_stack) => Owns(s.cells, Last(s.ref_stack), s.object_element)
            BY <1>5 DEF Ready
        <2> QED BY <1>5, <2>1, <2>2, StoreElementFacts
    <1> QED BY <1>1, <1>2, <1>3, <1>4, <1>5, Zenon

\* A container is opened: its address goes on the stack.
LEMMA PushFacts ==
    ASSUME NEW h, NEW s, NEW kinds, NEW v, Stored(h, s, kinds, v),
           NEW k \in BOOLEAN, v[1] = Kind(k)
    PROVE  /\ Sound(Push(h), Append(kinds, k))
           /\ Push(h).ref_stack = Append(s.ref_stack, h.element)
    <1> DEFINE t == h.consumer
               u == [t EXCEPT !.ref_stack = Append(t.ref_stack, h.element)]
    <1>1. Push(h) = u
        BY Zenon DEF Push
    <1>2. IsConsumer(t) /\ Heap(t.cells, t.next) /\ Chain(t.cells, t.ref_stack, kinds)
          /\ t.ref_stack = s.ref_stack /\ t.key_keep_stack \in Seq(BOOLEAN)
        BY DEF Stored, Sound
    <1> HIDE DEF t
    <1>3. /\ IsConsumer(u) /\ u.cells = t.cells /\ u.next = t.next
          /\ u.ref_stack = Append(t.ref_stack, h.element) /\ u.key_keep_stack = t.key_keep_stack
        <2> DEFINE x == Append(t.ref_stack, h.element)
        <2>1. IsConsumer(t) BY <1>2
        <2>2. u = [t EXCEPT !.ref_stack = x] OBVIOUS
        <2> HIDE DEF x, u
        <2>3. /\ IsConsumer(u) /\ u.cells = t.cells /\ u.next = t.next
              /\ u.ref_stack = x /\ u.key_keep_stack = t.key_keep_stack
            BY <2>1, <2>2 DEF IsConsumer
        <2> QED BY <2>3 DEF x
    <1>4. Chain(t.cells, Append(t.ref_stack, h.element), Append(kinds, k))
        BY <1>2, PushChain DEF Stored, t
    <1> QED BY <1>1, <1>2, <1>3, <1>4 DEF Sound

\* start_object and start_array.
LEMMA DomStartFacts ==
    ASSUME NEW s, NEW kinds, Sound(s, kinds), NEW v, IsNew(v), Ready(s, TRUE),
           NEW k \in BOOLEAN, v[1] = Kind(k),
           \A i \in DOMAIN s.ref_stack : s.ref_stack[i] # NullPtr
    PROVE  /\ Sound(DomStart(s, v), Append(kinds, k))
           /\ \A i \in DOMAIN DomStart(s, v).ref_stack : DomStart(s, v).ref_stack[i] # NullPtr
    <1> DEFINE h == HandleValue(s, v)
    <1>1. s.ref_stack # <<>> => Last(s.ref_stack) # NullPtr
        <2>1. Chain(s.cells, s.ref_stack, kinds) /\ DOMAIN s.ref_stack = 1..Len(s.ref_stack)
            BY DEF Sound, Chain
        <2> QED BY <2>1, LastFacts
    <1>2. Stored(h, s, kinds, v) /\ h.element # NullPtr
        BY <1>1, HandleValueFacts
    <1> HIDE DEF h
    <1>3. Sound(Push(h), Append(kinds, k)) /\ Push(h).ref_stack = Append(s.ref_stack, h.element)
        BY <1>2, PushFacts
    <1>4. s.ref_stack \in Seq(Int) /\ h.element \in Int
        BY <1>2 DEF Sound, Chain, Stored
    <1>5. \A i \in DOMAIN Append(s.ref_stack, h.element) : Append(s.ref_stack, h.element)[i] # NullPtr
        <2> DEFINE n == Len(s.ref_stack)
                   later == Append(s.ref_stack, h.element)
        <2>1. /\ n \in Nat /\ DOMAIN s.ref_stack = 1..n /\ DOMAIN later = 1..n + 1
              /\ later[n + 1] = h.element /\ \A i \in 1..n : later[i] = s.ref_stack[i]
            BY <1>4
        <2>2. \A i \in 1..n + 1 : i \in 1..n \/ i = n + 1
            BY <2>1
        <2> HIDE DEF n, later
        <2>3. \A i \in DOMAIN later : later[i] # NullPtr
            BY <1>2, <2>1, <2>2
        <2> QED BY <2>3 DEF later
    <1> QED BY <1>3, <1>5 DEF DomStart, h

LEMMA CallbackStartFacts ==
    ASSUME NEW s, NEW kinds, Sound(s, kinds), NEW v, IsNew(v), NEW keep,
           Ready(s, Last(s.key_keep_stack)), NEW k \in BOOLEAN, v[1] = Kind(k)
    PROVE  Sound(CallbackStart(s, v, keep), Append(kinds, k))
    <1> DEFINE t == [s EXCEPT !.keep_stack = Append(s.keep_stack, keep)]
    <1>1. CallbackStart(s, v, keep) = Push(CallbackHandleValue(t, v, TRUE))
        BY Zenon DEF CallbackStart
    <1>2. IsConsumer(t) /\ SameMemory(s, t) /\ t.key_keep_stack = s.key_keep_stack
        <2>1. IsConsumer(s) BY DEF Sound
        <2> QED BY <2>1 DEF IsConsumer, SameMemory
    <1> HIDE DEF t
    <1>3. Sound(t, kinds)
        BY <1>2, SameSound DEF Sound
    <1>4. Ready(t, Last(t.key_keep_stack))
        BY <1>2 DEF Ready, SameMemory, IsArrayCell
    <1>5. Stored(CallbackHandleValue(t, v, TRUE), t, kinds, v)
        BY <1>3, <1>4, CallbackValueFacts
    <1> QED BY <1>1, <1>5, PushFacts

\* key(): the element of the key is part of the object.
LEMMA KeyFacts ==
    ASSUME NEW s, NEW kinds, Sound(s, kinds), s.ref_stack # <<>>, Last(s.ref_stack) # NullPtr,
           ~Last(kinds), NEW key, NEW h, h = Subscript(s, Last(s.ref_stack), key)
    PROVE  /\ Sound(h.consumer, kinds)
           /\ h.consumer.ref_stack = s.ref_stack
           /\ h.consumer.key_keep_stack = s.key_keep_stack
           /\ Owns(h.consumer.cells, Last(s.ref_stack), h.element)
    <1> DEFINE p == Last(s.ref_stack)
               n == Len(s.ref_stack)
               t == h.consumer
    <1>1. IsConsumer(s) /\ Heap(s.cells, s.next) /\ Chain(s.cells, s.ref_stack, kinds)
        BY DEF Sound
    <1>2. p \in DOMAIN s.cells /\ n \in 1..n /\ p = s.ref_stack[n] /\ s.cells[p][1] = "object"
        BY <1>1, LastFacts DEF Kind
    <1>3. /\ IsConsumer(t) /\ t.ref_stack = s.ref_stack /\ t.key_keep_stack = s.key_keep_stack
          /\ Heap(t.cells, t.next)
          /\ \A c \in DOMAIN s.cells :
                c \in DOMAIN t.cells /\ (c # p => t.cells[c] = s.cells[c])
          /\ t.cells[p][1] = "object"
          /\ Owns(t.cells, p, h.element)
        BY <1>1, <1>2, SubscriptFacts
    <1> HIDE DEF t
    <1>4. ASSUME NEW i \in 1..n, s.ref_stack[i] # NullPtr
          PROVE  /\ s.ref_stack[i] \in DOMAIN t.cells
                 /\ t.cells[s.ref_stack[i]][1] = s.cells[s.ref_stack[i]][1]
                 /\ i < n => t.cells[s.ref_stack[i]] = s.cells[s.ref_stack[i]]
        <2>1. s.ref_stack[i] \in DOMAIN s.cells
            BY <1>1, <1>4 DEF Chain
        <2>2. s.ref_stack[i] = p => i = n
            BY <1>1, <1>2, <1>4 DEF Chain
        <2> QED BY <1>2, <1>3, <2>1, <2>2
    <1>5. Chain(t.cells, s.ref_stack, kinds)
        BY <1>1, <1>4, NullIsNoCell, ChainKept
    <1> QED BY <1>3, <1>5 DEF Sound, t

LEMMA DomKeyFacts ==
    ASSUME NEW s, NEW kinds, Sound(s, kinds), s.ref_stack # <<>>, Last(s.ref_stack) # NullPtr,
           ~Last(kinds), NEW key, NEW t, t = DomKey(s, key)
    PROVE  /\ Sound(t, kinds)
           /\ t.ref_stack = s.ref_stack
           /\ Owns(t.cells, Last(t.ref_stack), t.object_element)
    <1> DEFINE h == Subscript(s, Last(s.ref_stack), key)
               g == h.consumer
    <1>1. t = [h.consumer EXCEPT !.object_element = h.element]
        BY Zenon DEF DomKey
    <1>2. h = Subscript(s, Last(s.ref_stack), key)
        OBVIOUS
    <1> HIDE DEF h
    <1>3. /\ Sound(g, kinds) /\ g.ref_stack = s.ref_stack
          /\ Owns(g.cells, Last(s.ref_stack), h.element)
        BY <1>2, KeyFacts
    <1>4. t = [g EXCEPT !.object_element = h.element]
        BY <1>1, Zenon
    <1> HIDE DEF g
    <1>5. /\ IsConsumer(t) /\ t.cells = g.cells /\ t.next = g.next /\ t.ref_stack = g.ref_stack
          /\ t.object_element = h.element /\ t.key_keep_stack = g.key_keep_stack
        BY <1>3, <1>4 DEF Sound, IsConsumer
    <1> QED BY <1>3, <1>5 DEF Sound

LEMMA CallbackKeyFacts ==
    ASSUME NEW s, NEW kinds, Sound(s, kinds), s.ref_stack # <<>>, ~Last(kinds),
           NEW keep \in BOOLEAN, NEW key, NEW t, t = CallbackKey(s, key, keep)
    PROVE  /\ Sound(t, kinds)
           /\ t.ref_stack = s.ref_stack
           /\ Last(t.ref_stack) # NullPtr /\ Last(t.key_keep_stack) =>
                 Owns(t.cells, Last(t.ref_stack), t.object_element)
    <1> DEFINE pushed == [s EXCEPT !.key_keep_stack = Append(s.key_keep_stack, keep)]
               h == Subscript(pushed, Last(s.ref_stack), key)
               g == h.consumer
               a == Assign(g, h.element, DiscardedValue)
    <1>1. t = IF ~keep \/ Last(s.ref_stack) = NullPtr THEN pushed
              ELSE [a EXCEPT !.object_element = h.element]
        BY Zenon DEF CallbackKey
    <1>2. /\ IsConsumer(pushed) /\ SameMemory(s, pushed)
          /\ pushed.key_keep_stack = Append(s.key_keep_stack, keep)
        <2> DEFINE x == Append(s.key_keep_stack, keep)
        <2>1. IsConsumer(s) BY DEF Sound
        <2>2. pushed = [s EXCEPT !.key_keep_stack = x] OBVIOUS
        <2> HIDE DEF x, pushed
        <2>3. IsConsumer(pushed) /\ SameMemory(s, pushed) /\ pushed.key_keep_stack = x
            BY <2>1, <2>2 DEF IsConsumer, SameMemory
        <2> QED BY <2>3 DEF x
    <1> HIDE DEF pushed
    <1>3. Sound(pushed, kinds) /\ pushed.ref_stack = s.ref_stack
        <2>1. s.key_keep_stack \in Seq(BOOLEAN) BY DEF Sound
        <2>2. pushed.key_keep_stack \in Seq(BOOLEAN) BY <1>2, <2>1
        <2> QED BY <1>2, <2>2, SameSound DEF SameMemory
    <1>4. Last(pushed.key_keep_stack) = keep
        <2>1. s.key_keep_stack \in Seq(BOOLEAN) BY DEF Sound
        <2>2. Len(pushed.key_keep_stack) = Len(s.key_keep_stack) + 1
              /\ pushed.key_keep_stack[Len(s.key_keep_stack) + 1] = keep
            BY <1>2, <2>1, AppendFacts
        <2> QED BY <2>2 DEF Last
    <1>5. CASE ~keep \/ Last(s.ref_stack) = NullPtr
        <2>1. t = pushed BY <1>1, <1>5, Zenon
        <2> QED BY <1>3, <1>4, <1>5, <2>1
    <1>6. CASE keep /\ Last(s.ref_stack) # NullPtr
        <2>1. t = [a EXCEPT !.object_element = h.element]
            BY <1>1, <1>6, Zenon
        <2>2. h = Subscript(pushed, Last(pushed.ref_stack), key)
            BY <1>3
        <2> HIDE DEF h
        <2>3. /\ Sound(g, kinds) /\ g.ref_stack = s.ref_stack
              /\ Owns(g.cells, Last(g.ref_stack), h.element)
            BY <1>3, <1>6, <2>2, KeyFacts
        <2>4. a = Assign(g, h.element, DiscardedValue)
            OBVIOUS
        <2> HIDE DEF g, a
        <2> DEFINE q == h.element
                   r == Handled(a, q)
        <2>5. r.consumer = a
            BY DEF Handled
        <2>6. r = Handled(Assign(g, q, DiscardedValue), q)
            BY <2>4
        <2> HIDE DEF r
        <2>7. Stored(r, g, kinds, DiscardedValue) /\ r.element # NullPtr
            BY <1>3, <2>3, <2>6, NewValues, StoredInMember
        <2>8. r.element = q
            BY <2>6 DEF Handled
        <2>9. /\ Sound(a, kinds) /\ a.ref_stack = s.ref_stack
              /\ Owns(a.cells, Last(a.ref_stack), q)
            BY <2>3, <2>5, <2>7, <2>8 DEF Stored
        <2>10. /\ IsConsumer(t) /\ t.cells = a.cells /\ t.next = a.next /\ t.ref_stack = a.ref_stack
               /\ t.object_element = q /\ t.key_keep_stack = a.key_keep_stack
            BY <2>1, <2>9 DEF Sound, IsConsumer
        <2> QED BY <2>9, <2>10 DEF Sound
    <1> QED BY <1>5, <1>6

\* end_object and end_array: the innermost container is left.
LEMMA PopFacts ==
    ASSUME NEW s, NEW kinds, Sound(s, kinds), s.ref_stack # <<>>, NEW t, IsConsumer(t),
           t.cells = s.cells, t.next = s.next, t.ref_stack = Front(s.ref_stack),
           t.key_keep_stack = s.key_keep_stack
    PROVE  Sound(t, Front(kinds))
    BY PopChain DEF Sound

LEMMA DomEndFacts ==
    ASSUME NEW s, NEW kinds, Sound(s, kinds), s.ref_stack # <<>>
    PROVE  /\ Sound(DomEnd(s), Front(kinds))
           /\ DomEnd(s).ref_stack = Front(s.ref_stack)
    <1> DEFINE t == [s EXCEPT !.ref_stack = Front(s.ref_stack)]
    <1>1. DomEnd(s) = t
        BY Zenon DEF DomEnd
    <1>2. /\ IsConsumer(t) /\ t.cells = s.cells /\ t.next = s.next
          /\ t.ref_stack = Front(s.ref_stack) /\ t.key_keep_stack = s.key_keep_stack
        <2>1. IsConsumer(s) BY DEF Sound
        <2> QED BY <2>1 DEF IsConsumer
    <1> HIDE DEF t
    <1> QED BY <1>1, <1>2, PopFacts

\* A value that owns no more is assigned to the innermost container.
LEMMA ReplaceInnermost ==
    ASSUME NEW s, NEW kinds, Sound(s, kinds), s.ref_stack # <<>>, Last(s.ref_stack) # NullPtr,
           NEW v, IsCell(v), Children(v) \subseteq Children(s.cells[Last(s.ref_stack)]),
           v[1] = s.cells[Last(s.ref_stack)][1],
           NEW t, t = Assign(s, Last(s.ref_stack), v)
    PROVE  Sound(t, kinds) /\ t.ref_stack = s.ref_stack
    <1> DEFINE p == Last(s.ref_stack)
               n == Len(s.ref_stack)
    <1>1. IsConsumer(s) /\ Heap(s.cells, s.next) /\ Chain(s.cells, s.ref_stack, kinds)
        BY DEF Sound
    <1>2. p \in DOMAIN s.cells /\ n \in 1..n /\ p = s.ref_stack[n]
        BY <1>1, LastFacts
    <1>3. /\ IsConsumer(t) /\ t.ref_stack = s.ref_stack /\ t.key_keep_stack = s.key_keep_stack
          /\ Heap(t.cells, t.next) /\ DOMAIN t.cells = DOMAIN s.cells /\ t.cells[p] = v
          /\ \A c \in DOMAIN s.cells : c # p => t.cells[c] = s.cells[c]
        BY <1>1, <1>2, AssignFacts
    <1>4. ASSUME NEW i \in 1..n, s.ref_stack[i] # NullPtr
          PROVE  /\ s.ref_stack[i] \in DOMAIN t.cells
                 /\ t.cells[s.ref_stack[i]][1] = s.cells[s.ref_stack[i]][1]
                 /\ i < n => t.cells[s.ref_stack[i]] = s.cells[s.ref_stack[i]]
        <2>1. s.ref_stack[i] \in DOMAIN s.cells
            BY <1>1, <1>4 DEF Chain
        <2>2. s.ref_stack[i] = p => i = n
            BY <1>1, <1>2, <1>4 DEF Chain
        <2> QED BY <1>2, <1>3, <2>1, <2>2
    <1>5. Chain(t.cells, s.ref_stack, kinds)
        BY <1>1, <1>4, NullIsNoCell, ChainKept
    <1> QED BY <1>3, <1>5 DEF Sound

\* The container may be discarded before it is left: the path above it is
\* not touched.
LEMMA LeaveFacts ==
    ASSUME NEW s, NEW kinds, Sound(s, kinds), s.ref_stack # <<>>, NEW keep
    PROVE  /\ Sound(LeaveContainer(s, keep), Front(kinds))
           /\ LeaveContainer(s, keep).ref_stack = Front(s.ref_stack)
    <1> DEFINE p == Last(s.ref_stack)
               n == Len(s.ref_stack)
               discards == p # NullPtr /\ ~keep
               t == Assign(s, p, DiscardedValue)
               closed == IF discards THEN t ELSE s
               u == [closed EXCEPT !.ref_stack = Front(closed.ref_stack)]
               w == [u EXCEPT !.keep_stack = Front(u.keep_stack)]
    <1>1. IsConsumer(s) /\ Heap(s.cells, s.next) /\ Chain(s.cells, s.ref_stack, kinds)
          /\ s.key_keep_stack \in Seq(BOOLEAN)
        BY DEF Sound
    <1>2. n \in Nat \ {0} /\ n \in 1..n /\ p = s.ref_stack[n] /\ (p # NullPtr => p \in DOMAIN s.cells)
        BY <1>1, LastFacts
    <1>3. IsCell(DiscardedValue) /\ Children(DiscardedValue) = {}
        BY NewValues DEF IsNew
    <1>4. ASSUME discards
          PROVE  /\ IsConsumer(t) /\ t.ref_stack = s.ref_stack /\ t.key_keep_stack = s.key_keep_stack
                 /\ Heap(t.cells, t.next) /\ DOMAIN t.cells = DOMAIN s.cells
                 /\ \A c \in DOMAIN s.cells : c # p => t.cells[c] = s.cells[c]
        <2>1. p \in DOMAIN s.cells /\ Children(DiscardedValue) \subseteq Children(s.cells[p])
            BY <1>2, <1>3, <1>4
        <2>2. t = Assign(s, p, DiscardedValue)
            OBVIOUS
        <2> HIDE DEF t, p
        <2> QED BY <1>1, <1>3, <2>1, <2>2, AssignFacts
    <1>5. LeaveContainer(s, keep) = w
        BY Zenon DEF LeaveContainer
    <1> HIDE DEF t
    <1>6. /\ IsConsumer(closed) /\ closed.ref_stack = s.ref_stack
          /\ closed.key_keep_stack = s.key_keep_stack
          /\ Heap(closed.cells, closed.next) /\ DOMAIN closed.cells = DOMAIN s.cells
          /\ \A c \in DOMAIN s.cells : c # p => closed.cells[c] = s.cells[c]
        BY <1>1, <1>4
    <1> HIDE DEF closed
    <1>7. /\ IsConsumer(u) /\ u.cells = closed.cells /\ u.next = closed.next
          /\ u.ref_stack = Front(s.ref_stack) /\ u.key_keep_stack = s.key_keep_stack
        BY <1>6 DEF IsConsumer
    <1> HIDE DEF u
    <1>8. /\ IsConsumer(w) /\ w.cells = closed.cells /\ w.next = closed.next
          /\ w.ref_stack = Front(s.ref_stack) /\ w.key_keep_stack = s.key_keep_stack
        BY <1>7 DEF IsConsumer
    <1> HIDE DEF w
    <1> DEFINE front == Front(s.ref_stack)
    <1>9. /\ Chain(s.cells, front, Front(kinds)) /\ Len(front) = n - 1
          /\ \A i \in 1..n - 1 : front[i] = s.ref_stack[i]
        BY <1>1, PopChain
    <1> HIDE DEF front
    <1>10. ASSUME NEW i \in 1..Len(front), front[i] # NullPtr
           PROVE  front[i] \in DOMAIN closed.cells /\ closed.cells[front[i]] = s.cells[front[i]]
        <2>1. i \in 1..n /\ i # n /\ front[i] = s.ref_stack[i]
            BY <1>2, <1>9, <1>10
        <2>2. front[i] \in DOMAIN s.cells /\ front[i] # p
            BY <1>1, <1>2, <1>10, <2>1 DEF Chain
        <2> QED BY <1>6, <2>2
    <1>11. Chain(closed.cells, front, Front(kinds))
        BY <1>1, <1>9, <1>10, NullIsNoCell, ChainKept
    <1> QED BY <1>1, <1>5, <1>6, <1>8, <1>11 DEF Sound, front

\* What is left of an array or an object when one element is gone.
LEMMA ShorterArray ==
    ASSUME NEW v, IsCell(v), v[1] = "array", NEW r \in Seq(Nat), NEW f,
           \A k \in 1..Len(r) : f[k] \in DOMAIN v[2] /\ r[k] = v[2][f[k]],
           \A k, l \in 1..Len(r) : f[k] = f[l] => k = l
    PROVE  IsCell(<<"array", r>>) /\ Children(<<"array", r>>) \subseteq Children(v)
    <1> DEFINE w == <<"array", r>>
    <1>1. w[1] = "array" /\ w[2] = r /\ DOMAIN r = 1..Len(r)
        OBVIOUS
    <1> HIDE DEF w
    <1>2. \A i, j \in DOMAIN v[2] : v[2][i] = v[2][j] => i = j
        BY DEF IsCell
    <1>3. \A k, l \in DOMAIN r : r[k] = r[l] => k = l
        <2> SUFFICES ASSUME NEW k \in 1..Len(r), NEW l \in 1..Len(r), r[k] = r[l] PROVE k = l
            BY <1>1
        <2>1. f[k] \in DOMAIN v[2] /\ f[l] \in DOMAIN v[2] /\ v[2][f[k]] = v[2][f[l]]
            OBVIOUS
        <2>2. f[k] = f[l]
            BY <1>2, <2>1
        <2> QED BY <2>2
    <1>4. IsCell(w)
        BY <1>1, <1>3 DEF IsCell
    <1>5. Children(w) \subseteq Children(v)
        BY <1>1 DEF Children
    <1> QED BY <1>4, <1>5 DEF w

LEMMA RemovedElement ==
    ASSUME NEW v, IsCell(v), v[1] = "array", NEW i \in 1..Len(v[2])
    PROVE  /\ IsCell(<<"array", RemoveAt(v[2], i)>>)
           /\ Children(<<"array", RemoveAt(v[2], i)>>) \subseteq Children(v)
    <1> DEFINE e == v[2]
               r == RemoveAt(e, i)
               f == [k \in Nat |-> IF k < i THEN k ELSE k + 1]
    <1>1. e \in Seq(Nat) BY DEF IsCell
    <1> HIDE DEF e
    <1>2. i \in 1..Len(e) BY DEF e
    <1>3. /\ r \in Seq(Nat) /\ Len(r) = Len(e) - 1
          /\ \A k \in 1..Len(e) - 1 : r[k] = e[IF k < i THEN k ELSE k + 1]
        BY <1>1, <1>2, RemoveFacts
    <1> HIDE DEF r
    <1>4. Len(e) \in Nat /\ DOMAIN e = 1..Len(e) /\ Len(r) \in Nat
        BY <1>1, <1>3
    <1>5. \A k \in Nat : f[k] = IF k < i THEN k ELSE k + 1
        OBVIOUS
    <1> HIDE DEF f
    <1> DEFINE n == Len(e)
               m == Len(r)
    <1>a. n \in Nat /\ m \in Nat /\ m = n - 1 /\ i \in Nat /\ 1 <= i /\ i <= n
        BY <1>2, <1>3, <1>4
    <1>b. /\ DOMAIN e = 1..n
          /\ \A k \in 1..m : r[k] = e[IF k < i THEN k ELSE k + 1]
        BY <1>3, <1>4
    <1> HIDE DEF n, m
    <1>c. \A k \in 1..m : /\ k \in Nat /\ f[k] = IF k < i THEN k ELSE k + 1
                          /\ f[k] \in 1..n
        <2> SUFFICES ASSUME NEW k \in 1..m
                     PROVE  k \in Nat /\ f[k] = (IF k < i THEN k ELSE k + 1) /\ f[k] \in 1..n
            OBVIOUS
        <2>1. k \in Nat /\ 1 <= k /\ k <= m BY <1>a
        <2>2. f[k] = IF k < i THEN k ELSE k + 1 BY <1>5, <2>1
        <2>3. CASE k < i
            <3>1. f[k] = k BY <2>2, <2>3
            <3> QED BY <1>a, <2>1, <2>2, <3>1
        <2>4. CASE ~(k < i)
            <3>1. f[k] = k + 1 BY <2>2, <2>4
            <3> QED BY <1>a, <2>1, <2>2, <3>1
        <2> QED BY <2>3, <2>4
    <1>6. \A k, l \in 1..m : f[k] = f[l] => k = l
        BY <1>a, <1>c
    <1>7. \A k \in 1..m : f[k] \in DOMAIN e
        BY <1>b, <1>c
    <1>8. \A k \in 1..m : r[k] = e[f[k]]
        BY <1>b, <1>c
    <1> QED BY <1>3, <1>6, <1>7, <1>8, ShorterArray DEF e, r, m

LEMMA WithoutLast ==
    ASSUME NEW v, IsCell(v), v[1] = "array"
    PROVE  /\ IsCell(<<"array", Front(v[2])>>)
           /\ Children(<<"array", Front(v[2])>>) \subseteq Children(v)
    <1> DEFINE e == v[2]
               f == [k \in Nat |-> k]
    <1>1. e \in Seq(Nat) BY DEF IsCell
    <1> HIDE DEF e
    <1>2. /\ Front(e) \in Seq(Nat)
          /\ \A k \in 1..Len(Front(e)) : k \in DOMAIN e /\ Front(e)[k] = e[k]
        <2>1. CASE e = <<>>
            <3>1. Front(e) = <<>> BY <1>1, <2>1, FrontOfEmpty
            <3> QED BY <3>1
        <2>2. CASE e # <<>>
            BY <1>1, <2>2, FrontFacts
        <2> QED BY <2>1, <2>2
    <1>3. \A k \in 1..Len(Front(e)) : f[k] = k
        BY <1>2
    <1> HIDE DEF f
    <1> QED BY <1>2, <1>3, ShorterArray DEF e

LEMMA WithoutKey ==
    ASSUME NEW v, IsCell(v), v[1] = "object", NEW S
    PROVE  LET w == <<"object", [k \in DOMAIN v[2] \ S |-> v[2][k]]>>
           IN  IsCell(w) /\ Children(w) \subseteq Children(v)
    <1> DEFINE f == [k \in DOMAIN v[2] \ S |-> v[2][k]]
               w == <<"object", f>>
    <1>1. w[1] = "object" /\ w[2] = f
        OBVIOUS
    <1>2. DOMAIN f = DOMAIN v[2] \ S /\ \A k \in DOMAIN f : f[k] = v[2][k]
        OBVIOUS
    <1> HIDE DEF f
    <1>3. IsCell(w)
        BY <1>1, <1>2 DEF IsCell
    <1>4. Children(w) \subseteq Children(v)
        BY <1>1, <1>2 DEF Children
    <1> QED BY <1>3, <1>4 DEF f

LEMMA EraseFacts ==
    ASSUME NEW s, NEW kinds, Sound(s, kinds), s.ref_stack # <<>>, Last(s.ref_stack) # NullPtr,
           NEW keys, NEW t, t = EraseDiscarded(s, Last(s.ref_stack), keys)
    PROVE  Sound(t, kinds) /\ t.ref_stack = s.ref_stack
    <1> DEFINE p == Last(s.ref_stack)
               v == s.cells[p]
               i == FirstDiscarded(s, v[2])
               gone == DiscardedKeys(s, v[2], keys)
               array == <<"array", RemoveAt(v[2], i)>>
               object == <<"object", [k \in DOMAIN v[2] \ {Head(gone)} |-> v[2][k]]>>
    <1>1. Heap(s.cells, s.next) /\ Chain(s.cells, s.ref_stack, kinds)
        BY DEF Sound
    <1>2. p \in DOMAIN s.cells /\ v[1] = Kind(Last(kinds)) /\ IsCell(v)
        BY <1>1, LastFacts DEF Heap
    <1>3. t = IF v[1] = "array" THEN IF i = 0 THEN s ELSE Assign(s, p, array)
              ELSE IF gone = <<>> THEN s ELSE Assign(s, p, object)
        BY Zenon DEF EraseDiscarded, IsArrayCell
    <1>4. CASE v[1] = "array" /\ i # 0
        <2>1. t = Assign(s, p, array)
            BY <1>3, <1>4, Zenon
        <2>2. DOMAIN v[2] = 1..Len(v[2])
            BY <1>2, <1>4 DEF IsCell
        <2>3. i \in 1..Len(v[2])
            <3> DEFINE found == {j \in DOMAIN v[2] : s.cells[v[2][j]] = DiscardedValue}
            <3>1. i = IF found = {} THEN 0 ELSE CHOOSE j \in found : \A k \in found : j <= k
                BY Zenon DEF FirstDiscarded
            <3>2. found # {}
                BY <1>4, <3>1
            <3>3. found \subseteq Nat /\ found \subseteq 1..Len(v[2])
                BY <2>2
            <3> HIDE DEF found, i
            <3> QED BY <3>1, <3>2, <3>3, LeastFacts
        <2> HIDE DEF i
        <2>4. IsCell(array) /\ Children(array) \subseteq Children(v)
            BY <1>2, <1>4, <2>3, RemovedElement
        <2>5. array[1] = v[1]
            BY <1>4
        <2> HIDE DEF array
        <2> QED BY <2>1, <2>4, <2>5, ReplaceInnermost
    <1>5. CASE v[1] # "array" /\ gone # <<>>
        <2>1. t = Assign(s, p, object)
            BY <1>3, <1>5, Zenon
        <2>2. v[1] = "object"
            BY <1>2, <1>5 DEF Kind
        <2>3. IsCell(object) /\ Children(object) \subseteq Children(v)
            BY <1>2, <2>2, WithoutKey
        <2>4. object[1] = v[1]
            BY <2>2
        <2> HIDE DEF object
        <2> QED BY <2>1, <2>3, <2>4, ReplaceInnermost
    <1>6. CASE t = s
        BY <1>6
    <1> QED BY <1>3, <1>4, <1>5, <1>6, Zenon

LEMMA CallbackEndObjectFacts ==
    ASSUME NEW s, NEW kinds, Sound(s, kinds), s.ref_stack # <<>>, NEW keep, NEW keys
    PROVE  /\ Sound(CallbackEndObject(s, keep, keys), Front(kinds))
           /\ CallbackEndObject(s, keep, keys).ref_stack = Front(s.ref_stack)
    <1> DEFINE left == LeaveContainer(s, keep)
               p == Last(left.ref_stack)
               t == CallbackEndObject(s, keep, keys)
    <1>1. t = IF left.ref_stack = <<>> \/ p = NullPtr THEN left ELSE EraseDiscarded(left, p, keys)
        BY Zenon DEF CallbackEndObject
    <1>2. Sound(left, Front(kinds)) /\ left.ref_stack = Front(s.ref_stack)
        BY LeaveFacts
    <1> HIDE DEF left, t
    <1>3. CASE left.ref_stack = <<>> \/ p = NullPtr
        <2>1. t = left BY <1>1, <1>3, Zenon
        <2> QED BY <1>2, <2>1 DEF t
    <1>4. CASE left.ref_stack # <<>> /\ p # NullPtr
        <2>1. t = EraseDiscarded(left, p, keys) BY <1>1, <1>4, Zenon
        <2>2. Sound(t, Front(kinds)) /\ t.ref_stack = left.ref_stack
            BY <1>2, <1>4, <2>1, EraseFacts
        <2> QED BY <1>2, <2>2 DEF t
    <1> QED BY <1>3, <1>4

LEMMA CallbackEndArrayFacts ==
    ASSUME NEW s, NEW kinds, Sound(s, kinds), s.ref_stack # <<>>, NEW keep
    PROVE  /\ Sound(CallbackEndArray(s, keep), Front(kinds))
           /\ CallbackEndArray(s, keep).ref_stack = Front(s.ref_stack)
    <1> DEFINE left == LeaveContainer(s, keep)
               p == Last(left.ref_stack)
               n == Len(s.ref_stack)
               v == left.cells[p]
               pops == Last(s.ref_stack) # NullPtr /\ ~keep /\ left.ref_stack # <<>> /\ v[1] = "array"
               array == <<"array", Front(v[2])>>
               t == CallbackEndArray(s, keep)
    <1>1. t = IF pops THEN Assign(left, p, array) ELSE left
        BY Zenon DEF CallbackEndArray, IsArrayCell
    <1>2. Sound(left, Front(kinds)) /\ left.ref_stack = Front(s.ref_stack)
        BY LeaveFacts
    <1> HIDE DEF left, t
    <1>3. CASE ~pops
        <2>1. t = left BY <1>1, <1>3, Zenon
        <2> QED BY <1>2, <2>1 DEF t
    <1>4. CASE pops
        <2>1. t = Assign(left, p, array) BY <1>1, <1>4, Zenon
        <2>2. Chain(s.cells, s.ref_stack, kinds) /\ Heap(s.cells, s.next)
            BY DEF Sound
        <2>3. /\ Len(left.ref_stack) = n - 1 /\ \A i \in 1..n - 1 : left.ref_stack[i] = s.ref_stack[i]
              /\ n \in Nat /\ n # 0 /\ Last(s.ref_stack) = s.ref_stack[n]
            BY <1>2, <2>2, PopChain, LastFacts
        <2>4. n - 1 \in 1..n - 1 /\ p = left.ref_stack[n - 1]
            <3>1. left.ref_stack \in Seq(Int) BY <1>2 DEF Sound, Chain
            <3>2. Len(left.ref_stack) # 0 BY <1>4, <3>1
            <3>3. n - 1 # 0 BY <2>3, <3>2
            <3> DEFINE r == left.ref_stack
            <3>4. p = r[Len(r)] BY DEF Last
            <3>5. p = r[n - 1] BY <2>3, <3>4
            <3> HIDE DEF n, p, r
            <3>6. n - 1 \in 1..n - 1 BY <2>3, <3>3
            <3> QED BY <3>5, <3>6 DEF r
        \* Null pointers are followed by null pointers only.
        <2>5. p # NullPtr
            <3>1. Owns(s.cells, s.ref_stack[n - 1], s.ref_stack[n])
                BY <1>4, <2>2, <2>3, <2>4 DEF Chain
            <3>2. s.ref_stack[n - 1] \in Nat
                BY <2>2, <3>1 DEF Owns, Heap
            <3> QED BY <2>3, <2>4, <3>2 DEF NullPtr
        <2>6. p \in DOMAIN left.cells /\ IsCell(v)
            BY <1>2, <1>4, <2>5, LastFacts DEF Sound, Heap
        <2>7. IsCell(array) /\ Children(array) \subseteq Children(v) /\ array[1] = v[1]
            BY <1>4, <2>6, WithoutLast
        <2> HIDE DEF array
        <2>8. Sound(t, Front(kinds)) /\ t.ref_stack = left.ref_stack
            BY <1>2, <1>4, <2>1, <2>5, <2>7, ReplaceInnermost
        <2> QED BY <1>2, <2>8 DEF t
    <1> QED BY <1>3, <1>4
-----------------------------------------------------------------------------
(* The events of sax_parse_internal *)

\* What the events keep, whichever builder consumes them.
IsBuilder == options.consumer \in {"dom", "callback"}

LEMMA StackOf ==
    ASSUME NEW s, NEW kinds, Sound(s, kinds)
    PROVE  /\ s.ref_stack \in Seq(Int) /\ kinds \in Seq(BOOLEAN)
           /\ Len(s.ref_stack) = Len(kinds)
           /\ s.ref_stack = <<>> <=> kinds = <<>>
           /\ DOMAIN s.ref_stack = 1..Len(s.ref_stack)
    BY DEF Sound, Chain

LEMMA ReadyToRead ==
    ASSUME Reading, pc \in {"value", "first element", "next element"}
    PROVE  /\ options.consumer = "dom" => Ready(sax, TRUE)
           /\ options.consumer = "callback" => Ready(sax, Last(sax.key_keep_stack))
    <1>1. Sound(sax, Containers) /\ Chain(sax.cells, sax.ref_stack, Containers)
        BY DEF Reading, Sound
    <1>2. CASE pc = "value" /\ states = <<>>
        <2>1. Containers = <<>> BY <1>2 DEF Containers
        <2>2. sax.ref_stack = <<>> BY <1>1, <2>1, StackOf
        <2> QED BY <2>2 DEF Ready
    <1>3. CASE pc = "value" /\ states # <<>>
        BY <1>3 DEF Reading, MemberAwaited, AwaitsMember, Ready
    <1>4. CASE pc \in {"first element", "next element"}
        <2>1. Last(Containers)
            <3>1. CASE pc = "first element"
                <4>1. Containers = Append(states, TRUE) /\ states \in Seq(BOOLEAN)
                    BY <3>1 DEF Containers, Reading
                <4>2. Last(Append(states, TRUE)) = TRUE
                    BY <4>1, LastOfAppend
                <4> QED BY <4>1, <4>2
            <3>2. CASE pc = "next element"
                BY <3>2 DEF Containers, Reading, PlaceFits
            <3> QED BY <1>4, <3>1, <3>2
        <2>2. sax.ref_stack # <<>> /\ Last(sax.ref_stack) # NullPtr => IsArrayCell(sax, Last(sax.ref_stack))
            BY <1>1, <2>1, LastFacts DEF IsArrayCell, Kind
        <2> QED BY <2>2 DEF Ready
    <1> QED BY <1>2, <1>3, <1>4

LEMMA ValueEvent ==
    ASSUME Reading, IsBuilder, pc \in {"value", "first element", "next element"},
           NEW v, IsNew(v), NEW keep
    PROVE  /\ Sound(Value(sax, v, keep), Containers)
           /\ Value(sax, v, keep).ref_stack = sax.ref_stack
    <1>1. Sound(sax, Containers) /\ NoneRejected(sax)
        BY DEF Reading
    <1>2. CASE options.consumer = "dom"
        <2>1. Value(sax, v, keep) = HandleValue(sax, v).consumer
            BY <1>2, Zenon DEF Value, DomValue
        <2>2. sax.ref_stack # <<>> => Last(sax.ref_stack) # NullPtr
            BY <1>1, <1>2, StackOf, LastFacts DEF NoneRejected, Sound
        <2>3. Ready(sax, TRUE) BY <1>2, ReadyToRead
        <2>4. Stored(HandleValue(sax, v), sax, Containers, v)
            BY <1>1, <2>2, <2>3, HandleValueFacts
        <2> QED BY <2>1, <2>4 DEF Stored
    <1>3. CASE options.consumer = "callback"
        <2>1. Value(sax, v, keep) = CallbackHandleValue(sax, v, keep).consumer
            BY <1>3 DEF Value, CallbackValue
        <2>2. Ready(sax, Last(sax.key_keep_stack)) BY <1>3, ReadyToRead
        <2>3. Stored(CallbackHandleValue(sax, v, keep), sax, Containers, v)
            BY <1>1, <2>2, CallbackValueFacts
        <2> QED BY <2>1, <2>3 DEF Stored
    <1> QED BY <1>2, <1>3 DEF IsBuilder

LEMMA StartEvent ==
    ASSUME Reading, IsBuilder, pc \in {"value", "first element", "next element"},
           NEW v, IsNew(v), NEW keep, NEW k \in BOOLEAN, v[1] = Kind(k)
    PROVE  /\ Sound(StartContainer(sax, v, keep), Append(Containers, k))
           /\ NoneRejected(StartContainer(sax, v, keep))
    <1>1. Sound(sax, Containers) /\ NoneRejected(sax)
        BY DEF Reading
    <1>2. CASE options.consumer = "dom"
        <2>1. StartContainer(sax, v, keep) = DomStart(sax, v)
            BY <1>2, Zenon DEF StartContainer
        <2>2. Ready(sax, TRUE) BY <1>2, ReadyToRead
        <2>3. \A i \in DOMAIN sax.ref_stack : sax.ref_stack[i] # NullPtr
            BY <1>1, <1>2 DEF NoneRejected
        <2>4. /\ Sound(DomStart(sax, v), Append(Containers, k))
              /\ \A i \in DOMAIN DomStart(sax, v).ref_stack : DomStart(sax, v).ref_stack[i] # NullPtr
            BY <1>1, <2>2, <2>3, DomStartFacts
        <2> QED BY <2>1, <2>4 DEF NoneRejected
    <1>3. CASE options.consumer = "callback"
        <2>1. StartContainer(sax, v, keep) = CallbackStart(sax, v, keep)
            BY <1>3 DEF StartContainer
        <2>2. Ready(sax, Last(sax.key_keep_stack)) BY <1>3, ReadyToRead
        <2>3. Sound(CallbackStart(sax, v, keep), Append(Containers, k))
            BY <1>1, <2>2, CallbackStartFacts
        <2> QED BY <1>3, <2>1, <2>3 DEF NoneRejected
    <1> QED BY <1>2, <1>3 DEF IsBuilder

LEMMA KeyEvent ==
    ASSUME Reading, IsBuilder, Containers # <<>>, ~Last(Containers),
           NEW key, NEW keep \in BOOLEAN, NEW t, t = Key(sax, key, keep)
    PROVE  /\ Sound(t, Containers)
           /\ t.ref_stack = sax.ref_stack
           /\ Last(t.ref_stack) # NullPtr /\ (options.consumer = "callback" => Last(t.key_keep_stack)) =>
                 Owns(t.cells, Last(t.ref_stack), t.object_element)
    <1>1. Sound(sax, Containers) /\ NoneRejected(sax) /\ sax.ref_stack # <<>>
        BY StackOf DEF Reading
    <1>2. CASE options.consumer = "dom"
        <2>1. t = DomKey(sax, key)
            BY <1>2, Zenon DEF Key
        <2>2. Last(sax.ref_stack) # NullPtr
            BY <1>1, <1>2, StackOf, LastFacts DEF NoneRejected, Sound
        <2> QED BY <1>1, <2>1, <2>2, DomKeyFacts
    <1>3. CASE options.consumer = "callback"
        <2>1. t = CallbackKey(sax, key, keep)
            BY <1>3 DEF Key
        <2>2. /\ Sound(t, Containers) /\ t.ref_stack = sax.ref_stack
              /\ Last(t.ref_stack) # NullPtr /\ Last(t.key_keep_stack) =>
                    Owns(t.cells, Last(t.ref_stack), t.object_element)
            BY <1>1, <2>1, CallbackKeyFacts
        <2> QED BY <1>3, <2>2
    <1> QED BY <1>2, <1>3 DEF IsBuilder

LEMMA EndEvent ==
    ASSUME Reading, IsBuilder, Containers # <<>>, NEW keep,
           NEW t, t = EndArray(sax, keep) \/ t = EndObject(sax, keep)
    PROVE  Sound(t, Front(Containers)) /\ NoneRejected(t)
    <1>1. Sound(sax, Containers) /\ NoneRejected(sax) /\ sax.ref_stack # <<>>
        BY StackOf DEF Reading
    <1>2. CASE options.consumer = "dom"
        <2>1. t = DomEnd(sax)
            BY <1>2, Zenon DEF EndArray, EndObject
        <2>2. Sound(t, Front(Containers)) /\ t.ref_stack = Front(sax.ref_stack)
            BY <1>1, <2>1, DomEndFacts
        <2>3. \A i \in DOMAIN t.ref_stack : t.ref_stack[i] # NullPtr
            <3> DEFINE r == sax.ref_stack
                       n == Len(r)
            <3>1. r \in Seq(Int) /\ r # <<>> /\ DOMAIN r = 1..n BY <1>1, StackOf
            <3>2. /\ Front(r) \in Seq(Int) /\ Len(Front(r)) = n - 1 /\ n \in Nat \ {0}
                  /\ \A i \in 1..n - 1 : Front(r)[i] = r[i]
                BY <3>1, FrontFacts
            <3>3. \A i \in 1..n : r[i] # NullPtr BY <1>1, <1>2, <3>1 DEF NoneRejected
            <3>4. t.ref_stack = Front(r) BY <2>2
            <3> HIDE DEF r
            <3>5. DOMAIN Front(r) = 1..n - 1 /\ \A i \in 1..n - 1 : i \in 1..n BY <3>2
            <3> QED BY <3>2, <3>3, <3>4, <3>5
        <2> QED BY <2>2, <2>3 DEF NoneRejected
    <1>3. CASE options.consumer = "callback"
        <2>1. t = CallbackEndArray(sax, keep) \/ t = CallbackEndObject(sax, keep, Strings)
            BY <1>3 DEF EndArray, EndObject
        <2>2. Sound(t, Front(Containers))
            BY <1>1, <2>1, CallbackEndArrayFacts, CallbackEndObjectFacts
        <2> QED BY <1>3, <2>2 DEF NoneRejected
    <1> QED BY <1>2, <1>3 DEF IsBuilder
-----------------------------------------------------------------------------
(* The steps of sax_parse_internal *)

\* What the loop's steps lead to: it goes on, or it has failed.
ReadingOn == Reading' \/ (pc' \in {"failed", "done"} /\ PointersStayValid')

\* The stack of a sound consumer is valid.
LEMMA SoundStack ==
    ASSUME NEW s, NEW kinds, Sound(s, kinds)
    PROVE  \A i \in DOMAIN s.ref_stack :
              LET p == s.ref_stack[i] IN
              p # NullPtr =>
                 /\ IF i = 1 THEN p = Root ELSE Owns(s.cells, s.ref_stack[i - 1], p)
                 /\ p \in DOMAIN s.cells
                 /\ IsArrayCell(s, p) \/ IsObjectCell(s, p)
    <1>1. Chain(s.cells, s.ref_stack, kinds) /\ DOMAIN s.ref_stack = 1..Len(s.ref_stack)
        BY StackOf DEF Sound
    <1> QED BY <1>1 DEF Chain, Kind, IsArrayCell, IsObjectCell

LEMMA ReadingIsValid ==
    ASSUME Reading
    PROVE  PointersStayValid
    <1>1. Sound(sax, Containers) /\ NoneRejected(sax) /\ MemberAwaited
        BY DEF Reading
    <1>2. AwaitsMember => sax.object_element \in DOMAIN sax.cells
        <2>1. Heap(sax.cells, sax.next) BY <1>1 DEF Sound
        <2> QED BY <1>1, <2>1 DEF MemberAwaited, Heap, Owns
    <1> QED BY <1>1, <1>2, SoundStack DEF PointersStayValid, NoneRejected, MemberAwaited

LEMMA FailStep ==
    ASSUME Reading, Fail, UNCHANGED options
    PROVE  ReadingOn
    <1>1. Sound(sax, Containers) /\ NoneRejected(sax)
        BY DEF Reading
    <1>2. sax'.cells = sax.cells /\ sax'.ref_stack = sax.ref_stack
        <2>1. IsConsumer(sax) BY <1>1 DEF Sound
        <2>2. sax' = [sax EXCEPT !.errored = TRUE] BY DEF Fail, ConsumerError
        <2> QED BY <2>1, <2>2 DEF IsConsumer
    <1>3. pc' \in {"failed", "done"}
        BY DEF Fail
    <1>4. ~AwaitsMember'
        BY <1>3 DEF AwaitsMember
    <1>5. \A i \in DOMAIN sax'.ref_stack :
             LET p == sax'.ref_stack[i] IN
             p # NullPtr =>
                /\ IF i = 1 THEN p = Root ELSE Owns(sax'.cells, sax'.ref_stack[i - 1], p)
                /\ p \in DOMAIN sax'.cells
                /\ IsArrayCell(sax', p) \/ IsObjectCell(sax', p)
        BY <1>1, <1>2, SoundStack DEF IsArrayCell, IsObjectCell
    <1>6. options'.consumer = "dom" => \A i \in DOMAIN sax'.ref_stack : sax'.ref_stack[i] # NullPtr
        BY <1>1, <1>2 DEF NoneRejected
    <1> QED BY <1>3, <1>4, <1>5, <1>6 DEF ReadingOn, PointersStayValid

LEMMA AfterValueStep ==
    ASSUME NEW open \in Seq(BOOLEAN), AfterValue(open), Sound(sax', open), NoneRejected(sax)'
    PROVE  ReadingOn
    <1>1. states' = open /\ pc' = IF open = <<>> THEN "strict" ELSE "comma"
        BY DEF AfterValue
    <1>2. Containers' = open
        BY <1>1 DEF Containers
    <1>3. PlaceFits'
        BY <1>1 DEF PlaceFits
    <1>4. ~AwaitsMember'
        BY <1>1 DEF AwaitsMember
    <1> QED BY <1>1, <1>2, <1>3, <1>4 DEF ReadingOn, Reading, MemberAwaited

LEMMA ReadValueStep ==
    ASSUME Reading, IsBuilder, pc \in {"value", "first element", "next element"}, UNCHANGED options,
           NEW token, NEW keep, ReadValue(token, keep, Containers)
    PROVE  ReadingOn
    <1>1. Sound(sax, Containers) /\ NoneRejected(sax) /\ Containers \in Seq(BOOLEAN)
        BY StackOf DEF Reading
    <1>2. CASE ReadLeaf(token, keep, Containers)
        <2>1. sax' = Value(sax, Leaf(token), keep) /\ AfterValue(Containers)
            BY <1>2 DEF ReadLeaf
        <2>2. Sound(sax', Containers) /\ sax'.ref_stack = sax.ref_stack
            BY <2>1, ValueEvent, NewValues
        <2>3. NoneRejected(sax)'
            BY <1>1, <2>2 DEF NoneRejected
        <2> QED BY <1>1, <2>1, <2>2, <2>3, AfterValueStep
    <1>3. CASE OpenObject(token, keep, Containers)
        <2>1. sax' = StartContainer(sax, EmptyObject, keep) /\ pc' = "first key" /\ states' = Containers
            BY <1>3 DEF OpenObject
        <2>2. Sound(sax', Append(Containers, FALSE)) /\ NoneRejected(sax')
            BY <2>1, StartEvent, NewValues DEF Kind
        <2>3. NoneRejected(sax)'
            BY <2>2 DEF NoneRejected
        <2>4. Containers' = Append(Containers, FALSE)
            <3>1. Containers' = Append(states', FALSE) BY <2>1 DEF Containers
            <3> QED BY <2>1, <3>1
        <2>5. PlaceFits' /\ ~AwaitsMember'
            BY <2>1 DEF PlaceFits, AwaitsMember
        <2> QED BY <1>1, <2>1, <2>2, <2>3, <2>4, <2>5 DEF ReadingOn, Reading, MemberAwaited
    <1>4. CASE OpenArray(token, keep, Containers)
        <2>1. sax' = StartContainer(sax, EmptyArray, keep) /\ pc' = "first element" /\ states' = Containers
            BY <1>4 DEF OpenArray
        <2>2. Sound(sax', Append(Containers, TRUE)) /\ NoneRejected(sax')
            BY <2>1, StartEvent, NewValues DEF Kind
        <2>3. NoneRejected(sax)'
            BY <2>2 DEF NoneRejected
        <2>4. Containers' = Append(Containers, TRUE)
            <3>1. Containers' = Append(states', TRUE) BY <2>1 DEF Containers
            <3> QED BY <2>1, <3>1
        <2>5. PlaceFits' /\ ~AwaitsMember'
            BY <2>1 DEF PlaceFits, AwaitsMember
        <2> QED BY <1>1, <2>1, <2>2, <2>3, <2>4, <2>5 DEF ReadingOn, Reading, MemberAwaited
    <1>5. CASE Fail
        BY <1>5, FailStep
    <1> QED BY <1>2, <1>3, <1>4, <1>5 DEF ReadValue

LEMMA CloseStep ==
    ASSUME Reading, IsBuilder, Containers # <<>>, UNCHANGED options,
           NEW keep, CloseArray(keep, Front(Containers)) \/ CloseObject(keep, Front(Containers))
    PROVE  ReadingOn
    <1>1. Containers \in Seq(BOOLEAN)
        BY StackOf DEF Reading
    <1>2. /\ sax' = EndArray(sax, keep) \/ sax' = EndObject(sax, keep)
          /\ AfterValue(Front(Containers))
        BY DEF CloseArray, CloseObject
    <1>3. Sound(sax', Front(Containers)) /\ NoneRejected(sax')
        BY <1>2, EndEvent
    <1>4. NoneRejected(sax)'
        BY <1>3 DEF NoneRejected
    <1>5. Front(Containers) \in Seq(BOOLEAN)
        BY <1>1, FrontFacts
    <1> QED BY <1>2, <1>3, <1>4, <1>5, AfterValueStep

\* A key is read before its colon: "first colon" after "first key",
\* "colon" after "next key".
LEMMA ReadKeyStep ==
    ASSUME Reading, IsBuilder, UNCHANGED options, NEW token, NEW keep \in BOOLEAN, NEW colon,
           \/ pc = "first key" /\ colon = "first colon"
           \/ pc = "next key" /\ colon = "colon",
           ReadKey(token, keep, colon)
    PROVE  ReadingOn
    <1>1. sax' = Key(sax, token[2], keep) /\ pc' = colon /\ states' = states
        BY DEF ReadKey
    <1>2. NoneRejected(sax) /\ states \in Seq(BOOLEAN)
        BY DEF Reading
    <1>3. Containers # <<>> /\ ~Last(Containers)
        <2>1. CASE pc = "first key"
            <3>1. Containers = Append(states, FALSE) BY <2>1 DEF Containers
            <3> QED BY <1>2, <3>1, LastOfAppend
        <2>2. CASE pc = "next key"
            BY <2>2 DEF Containers, Reading, PlaceFits
        <2> QED BY <2>1, <2>2
    <1>4. /\ Sound(sax', Containers) /\ sax'.ref_stack = sax.ref_stack
          /\ Last(sax'.ref_stack) # NullPtr /\ (options.consumer = "callback" => Last(sax'.key_keep_stack)) =>
                Owns(sax'.cells, Last(sax'.ref_stack), sax'.object_element)
        BY <1>1, <1>3, KeyEvent
    <1>5. NoneRejected(sax)'
        BY <1>2, <1>4 DEF NoneRejected
    <1>6. MemberAwaited'
        BY <1>4 DEF MemberAwaited, AwaitsMember
    <1>7. Containers' = Containers
        BY <1>1 DEF Containers
    <1>8. PlaceFits'
        BY <1>1 DEF PlaceFits, Reading
    <1> QED BY <1>1, <1>2, <1>4, <1>5, <1>6, <1>7, <1>8 DEF ReadingOn, Reading

LEMMA ColonStep ==
    ASSUME Reading, IsBuilder, UNCHANGED options, NEW token, Colon(token)
    PROVE  ReadingOn
    <1>1. CASE token = <<":">>
        <2>1. /\ pc \in {"first colon", "colon"} /\ pc' = "value" /\ sax' = sax
              /\ states' = IF pc = "first colon" THEN Append(states, FALSE) ELSE states
            BY <1>1 DEF Colon
        <2>2. Sound(sax, Containers) /\ NoneRejected(sax) /\ MemberAwaited /\ states \in Seq(BOOLEAN)
            BY DEF Reading
        <2>3. Containers' = Containers /\ states' = Containers
            BY <2>1 DEF Containers
        <2>4. states' \in Seq(BOOLEAN) /\ states' # <<>> /\ ~Last(states')
            <3>1. CASE pc = "first colon"
                <4>1. states' = Append(states, FALSE) BY <2>1, <3>1
                <4> QED BY <2>2, <4>1, LastOfAppend, AppendFacts
            <3>2. CASE pc = "colon"
                <4>1. states' = states BY <2>1, <3>2
                <4> QED BY <2>2, <3>2, <4>1 DEF Reading, PlaceFits
            <3> QED BY <2>1, <3>1, <3>2
        <2>5. PlaceFits'
            BY <2>1, <2>4 DEF PlaceFits
        <2>6. NoneRejected(sax)' /\ MemberAwaited'
            BY <2>1, <2>2 DEF NoneRejected, MemberAwaited, AwaitsMember
        <2> QED BY <2>1, <2>2, <2>3, <2>4, <2>5, <2>6 DEF ReadingOn, Reading
    <1>2. CASE Fail
        BY <1>2, FailStep
    <1> QED BY <1>1, <1>2 DEF Colon

LEMMA CommaStep ==
    ASSUME Reading, IsBuilder, UNCHANGED options, NEW token, NEW keep, Comma(token, keep)
    PROVE  ReadingOn
    <1>1. pc = "comma" /\ states # <<>> /\ Containers = states /\ states \in Seq(BOOLEAN)
        BY DEF Comma, Reading, PlaceFits, Containers
    <1>2. CASE /\ pc' = IF Last(states) THEN "next element" ELSE "next key"
               /\ UNCHANGED <<states, sax, outcome>>
        <2>1. Sound(sax, Containers) /\ NoneRejected(sax)
            BY DEF Reading
        <2>2. Containers' = Containers
            BY <1>1, <1>2 DEF Containers
        <2>3. PlaceFits' /\ ~AwaitsMember'
            BY <1>1, <1>2 DEF PlaceFits, AwaitsMember
        <2>4. NoneRejected(sax)'
            BY <1>2, <2>1 DEF NoneRejected
        <2> QED BY <1>1, <1>2, <2>1, <2>2, <2>3, <2>4 DEF ReadingOn, Reading, MemberAwaited
    <1>3. CASE CloseArray(keep, Front(states)) \/ CloseObject(keep, Front(states))
        BY <1>1, <1>3, CloseStep
    <1>4. CASE Fail
        BY <1>4, FailStep
    <1> QED BY <1>2, <1>3, <1>4 DEF Comma
LEMMA ElementStep ==
    ASSUME Reading, IsBuilder, UNCHANGED options, NEW token, NEW keep,
           FirstElement(token, keep) \/ NextElement(token, keep)
    PROVE  ReadingOn
    <1>1. CASE FirstElement(token, keep)
        <2>1. pc = "first element" /\ Containers = Append(states, TRUE) /\ states \in Seq(BOOLEAN)
            BY <1>1 DEF FirstElement, Containers, Reading
        <2>2. Containers # <<>> /\ Front(Containers) = states
            BY <2>1, LastOfAppend
        <2>3. CloseArray(keep, Front(Containers)) \/ ReadValue(token, keep, Containers)
            BY <1>1, <2>1, <2>2 DEF FirstElement
        <2> QED BY <2>1, <2>2, <2>3, CloseStep, ReadValueStep
    <1>2. CASE NextElement(token, keep)
        <2>1. pc = "next element" /\ Containers = states /\ states # <<>>
            BY <1>2 DEF NextElement, Containers, Reading, PlaceFits
        <2>2. CloseArray(keep, Front(Containers)) \/ ReadValue(token, keep, Containers)
            BY <1>2, <2>1 DEF NextElement
        <2> QED BY <2>1, <2>2, CloseStep, ReadValueStep
    <1> QED BY <1>1, <1>2

LEMMA MemberStep ==
    ASSUME Reading, IsBuilder, UNCHANGED options, NEW token, NEW keep \in BOOLEAN,
           FirstKey(token, keep) \/ NextKey(token, keep)
    PROVE  ReadingOn
    <1>1. CASE FirstKey(token, keep)
        <2>1. pc = "first key" /\ Containers = Append(states, FALSE) /\ states \in Seq(BOOLEAN)
            BY <1>1 DEF FirstKey, Containers, Reading
        <2>2. Containers # <<>> /\ Front(Containers) = states
            BY <2>1, LastOfAppend
        <2>3. \/ CloseObject(keep, Front(Containers))
              \/ ReadKey(token, keep, "first colon")
              \/ Fail
            BY <1>1, <2>2 DEF FirstKey
        <2> QED BY <2>1, <2>2, <2>3, CloseStep, ReadKeyStep, FailStep
    <1>2. CASE NextKey(token, keep)
        <2>1. pc = "next key" /\ Containers = states /\ states # <<>>
            BY <1>2 DEF NextKey, Containers, Reading, PlaceFits
        <2>2. \/ CloseObject(keep, Front(Containers))
              \/ ReadKey(token, keep, "colon")
              \/ Fail
            BY <1>2, <2>1 DEF NextKey
        <2> QED BY <2>1, <2>2, CloseStep, ReadKeyStep, FailStep
    <1> QED BY <1>1, <1>2

LEMMA ReadingStep ==
    ASSUME Reading, IsBuilder, UNCHANGED options, NEW token, NEW keep \in BOOLEAN, Step(token, keep)
    PROVE  ReadingOn
    <1>1. CASE PlainValue(token, keep)
        <2>1. pc = "value" /\ Containers = states
            BY <1>1 DEF PlainValue, Containers
        <2> QED BY <1>1, <2>1, ReadValueStep DEF PlainValue
    <1>2. CASE StrictCheck(token)
        BY <1>2 DEF StrictCheck, Return, ReadingOn, PointersStayValid, Done
    <1> QED BY <1>1, <1>2, ElementStep, MemberStep, ColonStep, CommaStep DEF Step

-----------------------------------------------------------------------------
(* The invariant holds *)

LEMMA InitInv ==
    ASSUME Init
    PROVE  PointerInv
    <1>1. options.consumer \in {"dom", "callback", "acceptor"}
        BY ParserAssumption DEF Init
    <1>2. pc = "value" /\ states = <<>> /\ sax = NewConsumer
        BY DEF Init
    <1>3. /\ sax.ref_stack = <<>> /\ sax.next = 1 /\ sax.key_keep_stack = <<>>
          /\ sax.cells = [c \in {Root} |-> NullValue] /\ IsConsumer(sax)
        BY <1>2 DEF NewConsumer, IsConsumer, Root
    <1>4. IsCell(NullValue) /\ Children(NullValue) = {}
        BY NewValues DEF IsNew
    <1>5. DOMAIN sax.cells = {0} /\ sax.cells[0] = NullValue /\ Root = 0
          /\ sax.cells = [c \in DOMAIN sax.cells |-> sax.cells[c]]
        BY <1>3 DEF Root
    <1>6. Heap(sax.cells, sax.next)
        BY <1>3, <1>4, <1>5 DEF Heap
    <1>7. Containers = <<>>
        BY <1>2 DEF Containers
    <1>8. Chain(sax.cells, <<>>, <<>>)
        BY DEF Chain
    <1>9. Sound(sax, Containers)
        BY <1>3, <1>6, <1>7, <1>8 DEF Sound
    <1>10. PlaceFits /\ NoneRejected(sax) /\ MemberAwaited
        BY <1>2, <1>3 DEF PlaceFits, NoneRejected, MemberAwaited, AwaitsMember
    <1> QED BY <1>1, <1>2, <1>9, <1>10 DEF PointerInv, Reading

LEMMA NextInv ==
    ASSUME PointerInv, [Next]_vars
    PROVE  PointerInv'
    <1>1. CASE UNCHANGED vars
        <2>1. /\ options' = options /\ pc' = pc /\ states' = states /\ sax' = sax
            BY <1>1 DEF vars
        <2>2. Containers' = Containers
            BY <2>1 DEF Containers
        <2>3. Reading => Reading'
            BY <2>1, <2>2 DEF Reading, PlaceFits, NoneRejected, MemberAwaited, AwaitsMember
        <2>4. PointersStayValid => PointersStayValid'
            BY <2>1 DEF PointersStayValid, Done, AwaitsMember
        <2> QED BY <2>1, <2>3, <2>4 DEF PointerInv
    <1>2. CASE ReturnUnchecked
        BY <1>2 DEF ReturnUnchecked, Return, PointerInv, PointersStayValid, Done
    <1>3. CASE ReadToken
        <2>a. PICK token \in NextTokens :
                 \E keep \in Answers(token) : Step(token, keep) /\ options' = options
            BY <1>3 DEF ReadToken
        <2>1. PICK keep \in Answers(token) : Step(token, keep) /\ options' = options
            BY <2>a
        <2>2. keep \in BOOLEAN
            BY DEF Answers
        <2>3. CASE options.consumer = "acceptor"
            BY <2>1, <2>3 DEF PointerInv
        <2>4. CASE IsBuilder /\ Reading
            <3>1. ReadingOn BY <2>1, <2>2, <2>4, ReadingStep
            <3> QED BY <2>1, <3>1 DEF ReadingOn, PointerInv
        <2>5. CASE pc \in {"failed", "done"}
            <3>1. StrictCheck(token)
                BY <2>1, <2>5 DEF Step, PlainValue, FirstElement, FirstKey, Colon, Comma,
                                  NextElement, NextKey
            <3> QED BY <2>1, <3>1 DEF StrictCheck, Return, PointerInv, PointersStayValid, Done
        <2> QED BY <2>3, <2>4, <2>5 DEF PointerInv, IsBuilder
    <1> QED BY <1>1, <1>2, <1>3 DEF Next

\* Whatever the text, however deep it nests, and whatever the callback
\* answers: each pointer the builders of parse() hold on ref_stack points
\* to an open container inside the one around it, although emplace_back
\* frees the storage of an array's elements and an assignment or an erase
\* destroys parts of the value; and the address in object_element is that of
\* a member of the innermost object whenever a value will be assigned to it.
THEOREM BuilderPointersStayValid == Spec => []PointersStayValid
    <1>1. Init => PointerInv
        BY InitInv
    <1>2. PointerInv /\ [Next]_vars => PointerInv'
        BY NextInv
    <1>3. PointerInv => PointersStayValid
        BY ReadingIsValid DEF PointerInv, PointersStayValid
    <1> QED BY <1>1, <1>2, <1>3, PTL DEF Spec
=============================================================================
