---------------------------- MODULE ResultProof ----------------------------
(* Proofs about Result, for any number of objects, values and locations.   *)
EXTENDS Result, TLAPS

TypeOK ==
    /\ built \subseteq Objects /\ spent \subseteq built
    /\ is_valid \in [Objects -> BOOLEAN]
    /\ lives \in [Objects -> [Members -> Int]]
    /\ DOMAIN content = Objects /\ DOMAIN meant = Objects

(* Type correctness, with the members counted: needed to add to the counts. *)
Accounted == TypeOK /\ OneMemberLives

(* The tag names a member of the union.                                     *)
LEMMA MemberType == ASSUME NEW b \in BOOLEAN PROVE Member(b) \in Members
  BY DEF Member, Members

(* Before the first constructor nothing lives.                              *)
LEMMA InitAccounted == Init => Accounted
  BY DEF Init, Accounted, TypeOK, OneMemberLives

(* A constructor counts one more of the member that its tag names.          *)
LEMMA ConstructAccounted ==
  ASSUME Accounted, NEW o \in Objects, o \notin built, NEW b \in BOOLEAN, NEW c, Construct(o, b, c)
  PROVE  /\ built' \subseteq Objects /\ built \subseteq built'
         /\ is_valid' \in [Objects -> BOOLEAN]
         /\ lives' \in [Objects -> [Members -> Int]]
         /\ DOMAIN meant' = Objects
         /\ OneMemberLives'
<1>1. Member(b) \in Members BY MemberType
<1>2. lives' \in [Objects -> [Members -> Int]]
  BY <1>1 DEF Construct, Accounted, TypeOK
<1>3. is_valid' \in [Objects -> BOOLEAN] /\ is_valid'[o] = b
  BY DEF Construct, Accounted, TypeOK
<1>4. ASSUME NEW p \in Objects, NEW m \in Members
      PROVE  lives'[p][m] = IF p \in built' /\ m = Member(is_valid'[p]) THEN 1 ELSE 0
  <2>1. lives[p][m] = IF p \in built /\ m = Member(is_valid[p]) THEN 1 ELSE 0
    BY DEF Accounted, OneMemberLives
  <2>2. CASE p = o
    <3>1. lives'[o][m] = IF m = Member(b) THEN lives[o][m] + 1 ELSE lives[o][m]
      BY <1>1 DEF Construct, Accounted, TypeOK
    <3> QED BY <1>3, <2>1, <2>2, <3>1 DEF Construct
  <2>3. CASE p # o
    BY <2>1, <2>3 DEF Construct, Accounted, TypeOK
  <2> QED BY <2>2, <2>3
<1> QED BY <1>2, <1>3, <1>4 DEF Construct, Accounted, TypeOK, OneMemberLives

(* An assignment destroys the member of the old tag and makes the one of    *)
(* the new tag, which may be the same.                                      *)
LEMMA AssignAccounted ==
  ASSUME Accounted, NEW o \in Objects, NEW p \in Objects, Assign(o, p)
  PROVE  /\ {o, p} \subseteq built /\ p \notin spent /\ built' = built
         /\ is_valid' \in [Objects -> BOOLEAN]
         /\ lives' \in [Objects -> [Members -> Int]]
         /\ DOMAIN meant' = Objects
         /\ OneMemberLives'
<1>1. CASE o = p
  BY <1>1 DEF Assign, Differs, Accounted, TypeOK, OneMemberLives
<1>2. CASE o # p
  <2>1. Member(is_valid[p]) \in Members /\ Member(is_valid[o]) \in Members
    BY MemberType DEF Accounted, TypeOK
  <2>2. /\ {o, p} \subseteq built /\ p \notin spent /\ built' = built
        /\ lives' = [lives EXCEPT ![o] =
               [m \in Members |-> lives[o][m] - (IF m = Member(is_valid[o]) THEN 1 ELSE 0)
                                       + (IF m = Member(is_valid[p]) THEN 1 ELSE 0)]]
        /\ is_valid' = [is_valid EXCEPT ![o] = is_valid[p]]
        /\ meant' = [meant EXCEPT ![o] = meant[p]]
    BY <1>2 DEF Assign, Differs, DestroyedMember
  <2>3. is_valid' \in [Objects -> BOOLEAN] /\ is_valid'[o] = is_valid[p]
    BY <2>2 DEF Accounted, TypeOK
  <2>4. lives' \in [Objects -> [Members -> Int]]
    BY <2>2 DEF Accounted, TypeOK
  <2>5. ASSUME NEW q \in Objects, NEW m \in Members
        PROVE  lives'[q][m] = IF q \in built' /\ m = Member(is_valid'[q]) THEN 1 ELSE 0
    <3>1. lives[q][m] = IF q \in built /\ m = Member(is_valid[q]) THEN 1 ELSE 0
      BY DEF Accounted, OneMemberLives
    <3>2. CASE q = o
      <4>1. lives'[o][m] = lives[o][m] - (IF m = Member(is_valid[o]) THEN 1 ELSE 0)
                                 + (IF m = Member(is_valid[p]) THEN 1 ELSE 0)
        BY <2>2 DEF Accounted, TypeOK
      <4> QED BY <2>2, <2>3, <3>1, <3>2, <4>1
    <3>3. CASE q # o
      BY <2>2, <3>1, <3>3 DEF Accounted, TypeOK
    <3> QED BY <3>2, <3>3
  <2> QED BY <2>2, <2>3, <2>4, <2>5 DEF Accounted, TypeOK, OneMemberLives
<1> QED BY <1>1, <1>2

(* The destructor counts the member of the tag down to zero.                *)
LEMMA DestroyAccounted ==
  ASSUME Accounted, NEW o \in Objects, Destroy(o)
  PROVE  Accounted'
<1>1. Member(is_valid[o]) \in Members BY MemberType DEF Accounted, TypeOK
<1>2. lives' \in [Objects -> [Members -> Int]]
  BY <1>1 DEF Destroy, Accounted, TypeOK
<1>3. TypeOK' BY <1>2 DEF Destroy, Accounted, TypeOK
<1>4. ASSUME NEW q \in Objects, NEW m \in Members
      PROVE  lives'[q][m] = IF q \in built' /\ m = Member(is_valid'[q]) THEN 1 ELSE 0
  <2>1. lives[q][m] = IF q \in built /\ m = Member(is_valid[q]) THEN 1 ELSE 0
    BY DEF Accounted, OneMemberLives
  <2>2. CASE q = o
    <3>1. lives'[o][m] = IF m = Member(is_valid[o]) THEN lives[o][m] - 1 ELSE lives[o][m]
      BY <1>1 DEF Destroy, Accounted, TypeOK
    <3> QED BY <2>1, <2>2, <3>1 DEF Destroy
  <2>3. CASE q # o
    BY <2>1, <2>3 DEF Destroy, Accounted, TypeOK
  <2> QED BY <2>2, <2>3
<1> QED BY <1>3, <1>4 DEF Accounted, OneMemberLives

(* Every operation keeps the account.                                       *)
LEMMA NextAccounted == Accounted /\ [Next]_vars => Accounted'
<1> SUFFICES ASSUME Accounted, [Next]_vars PROVE Accounted'
  OBVIOUS
<1>1. ASSUME NEW o \in Objects, NEW v \in Values, ConstructOk(o, v) PROVE Accounted'
  <2>1. o \notin built /\ Construct(o, TRUE, <<"value", v>>) BY <1>1 DEF ConstructOk
  <2> QED BY <1>1, <2>1, ConstructAccounted DEF ConstructOk, Accounted, TypeOK
<1>2. ASSUME NEW o \in Objects, NEW l \in Locations, ConstructError(o, l) PROVE Accounted'
  <2>1. o \notin built /\ Construct(o, FALSE, <<"error", <<l>>>>) BY <1>2 DEF ConstructError
  <2> QED BY <1>2, <2>1, ConstructAccounted DEF ConstructError, Accounted, TypeOK
<1>3. ASSUME NEW o \in Objects, NEW p \in Objects, NEW l \in Locations, ErrorPropagate(o, p, l)
      PROVE  Accounted'
  <2>1. o \notin built /\ Construct(o, FALSE, <<"error", Append(meant[p][2], l)>>)
    BY <1>3 DEF ErrorPropagate
  <2>2. /\ built' \subseteq Objects /\ built \subseteq built'
        /\ is_valid' \in [Objects -> BOOLEAN]
        /\ lives' \in [Objects -> [Members -> Int]]
        /\ DOMAIN meant' = Objects
        /\ OneMemberLives'
    BY <2>1, ConstructAccounted
  <2>3. p \in built /\ spent' = spent /\ DOMAIN content' = Objects
    BY <1>3 DEF ErrorPropagate, Accounted, TypeOK
  <2> QED BY <2>2, <2>3 DEF Accounted, TypeOK
<1>4. ASSUME NEW o \in Objects, NEW p \in Objects, CopyAssign(o, p) PROVE Accounted'
  <2>1. Assign(o, p) BY <1>4 DEF CopyAssign
  <2>2. /\ {o, p} \subseteq built /\ p \notin spent /\ built' = built
        /\ is_valid' \in [Objects -> BOOLEAN]
        /\ lives' \in [Objects -> [Members -> Int]]
        /\ DOMAIN meant' = Objects
        /\ OneMemberLives'
    BY <2>1, AssignAccounted
  <2>3. spent' \subseteq built' /\ DOMAIN content' = Objects
    BY <1>4, <2>2 DEF CopyAssign, Accounted, TypeOK
  <2> QED BY <2>2, <2>3 DEF Accounted, TypeOK
<1>5. ASSUME NEW o \in Objects, NEW p \in Objects, MoveAssign(o, p) PROVE Accounted'
  <2>1. Assign(o, p) BY <1>5 DEF MoveAssign
  <2>2. /\ {o, p} \subseteq built /\ p \notin spent /\ built' = built
        /\ is_valid' \in [Objects -> BOOLEAN]
        /\ lives' \in [Objects -> [Members -> Int]]
        /\ DOMAIN meant' = Objects
        /\ OneMemberLives'
    BY <2>1, AssignAccounted
  <2>3. spent' \subseteq built' /\ DOMAIN content' = Objects
    BY <1>5, <2>2 DEF MoveAssign, Accounted, TypeOK
  <2> QED BY <2>2, <2>3 DEF Accounted, TypeOK
<1>6. ASSUME NEW o \in Objects, expect(o) PROVE Accounted'
  BY <1>6 DEF expect, Accounted, TypeOK, OneMemberLives
<1>7. ASSUME NEW o \in Objects, Destroy(o) PROVE Accounted'
  BY <1>7, DestroyAccounted
<1>8. CASE UNCHANGED vars
  BY <1>8 DEF vars, Accounted, TypeOK, OneMemberLives
<1> QED BY <1>1, <1>2, <1>3, <1>4, <1>5, <1>6, <1>7, <1>8 DEF Next

(* The hand-written destructor calls of Result always meet the member that  *)
(* is alive, and leave none alive behind.                                   *)
THEOREM MemberLives == Spec => []OneMemberLives
<1>1. Init => Accounted BY InitAccounted
<1>2. Accounted /\ [Next]_vars => Accounted' BY NextAccounted
<1>3. Accounted => OneMemberLives BY DEF Accounted
<1> QED BY <1>1, <1>2, <1>3, PTL DEF Spec

-----------------------------------------------------------------------------
(* The contents: an object that is not spent holds its value, or an Error   *)
(* whose locations and route are sequences with the same beginning.         *)
Whole(o) ==
    /\ is_valid[o] => content[o] = meant[o]
    /\ ~is_valid[o] =>
           \E where, route \in Seq(Locations) :
               /\ content[o] = <<"error", where>> /\ meant[o] = <<"error", route>>
               /\ Len(route) > 0 /\ TellsOf(where, route)
               /\ o \notin lengthened => where = route

Faithful == TypeOK /\ \A o \in built \ spent : Whole(o)

(* A sequence tells of itself.                                              *)
LEMMA TellsOfItself ==
  ASSUME NEW S, NEW s \in Seq(S), Len(s) > 0 PROVE TellsOf(s, s)
<1> DEFINE f == [i \in 1 .. Len(s) |-> i]
<1>1. f \in [1 .. Len(s) -> 1 .. Len(s)] /\ f[1] = 1 OBVIOUS
<1>2. \A i, j \in 1 .. Len(s) : i < j => f[i] < f[j] OBVIOUS
<1>3. \A i \in 1 .. Len(s) : s[f[i]] = s[i] OBVIOUS
<1> QED BY <1>1, <1>2, <1>3 DEF TellsOf

(* A location pushed to the Error only leaves the route told.               *)
LEMMA TellsAfterPush ==
  ASSUME NEW S, NEW s \in Seq(S), NEW t \in Seq(S), Len(t) > 0, TellsOf(s, t), NEW l \in S
  PROVE  TellsOf(Append(s, l), t)
<1>1. PICK f \in [1 .. Len(t) -> 1 .. Len(s)] :
        /\ f[1] = 1
        /\ \A i, j \in 1 .. Len(t) : i < j => f[i] < f[j]
        /\ \A i \in 1 .. Len(t) : s[f[i]] = t[i]
  BY DEF TellsOf
<1>2. f \in [1 .. Len(t) -> 1 .. Len(Append(s, l))] OBVIOUS
<1>3. \A i \in 1 .. Len(t) : Append(s, l)[f[i]] = t[i]
  <2> TAKE i \in 1 .. Len(t)
  <2>1. f[i] \in 1 .. Len(s) OBVIOUS
  <2> QED BY <1>1, <2>1
<1> QED BY <1>1, <1>2, <1>3 DEF TellsOf

(* A location pushed to both is told at the end.                            *)
LEMMA TellsAfterHop ==
  ASSUME NEW S, NEW s \in Seq(S), NEW t \in Seq(S), Len(t) > 0, TellsOf(s, t), NEW l \in S
  PROVE  TellsOf(Append(s, l), Append(t, l))
<1>1. PICK f \in [1 .. Len(t) -> 1 .. Len(s)] :
        /\ f[1] = 1
        /\ \A i, j \in 1 .. Len(t) : i < j => f[i] < f[j]
        /\ \A i \in 1 .. Len(t) : s[f[i]] = t[i]
  BY DEF TellsOf
<1> DEFINE g == [i \in 1 .. Len(Append(t, l)) |-> IF i \in 1 .. Len(t) THEN f[i] ELSE Len(s) + 1]
<1>2. /\ Len(Append(t, l)) = Len(t) + 1 /\ Len(Append(s, l)) = Len(s) + 1
      /\ Len(s) \in Nat /\ Len(t) \in Nat
  OBVIOUS
<1>3. g \in [1 .. Len(Append(t, l)) -> 1 .. Len(Append(s, l))]
  <2> SUFFICES ASSUME NEW i \in 1 .. Len(Append(t, l))
               PROVE  (IF i \in 1 .. Len(t) THEN f[i] ELSE Len(s) + 1) \in 1 .. Len(Append(s, l))
    OBVIOUS
  <2>1. CASE i \in 1 .. Len(t)
    <3>1. f[i] \in 1 .. Len(s) BY <2>1
    <3> QED BY <1>2, <2>1, <3>1
  <2>2. CASE i \notin 1 .. Len(t)
    BY <1>2, <2>2
  <2> QED BY <2>1, <2>2
<1>4. g[1] = 1
  BY <1>1, <1>2
<1>5. \A i, j \in 1 .. Len(Append(t, l)) : i < j => g[i] < g[j]
  <2> TAKE i, j \in 1 .. Len(Append(t, l))
  <2> HAVE i < j
  <2>1. i \in 1 .. Len(t) /\ g[i] = f[i] /\ f[i] \in 1 .. Len(s) BY <1>2
  <2>2. CASE j \in 1 .. Len(t)
    <3>1. g[j] = f[j] BY <2>2
    <3> QED BY <1>1, <2>1, <2>2, <3>1
  <2>3. CASE j \notin 1 .. Len(t)
    <3>1. g[j] = Len(s) + 1 BY <2>3
    <3> QED BY <1>2, <2>1, <3>1
  <2> QED BY <2>2, <2>3
<1>6. \A i \in 1 .. Len(Append(t, l)) : Append(s, l)[g[i]] = Append(t, l)[i]
  <2> TAKE i \in 1 .. Len(Append(t, l))
  <2>1. CASE i \in 1 .. Len(t)
    <3>1. g[i] = f[i] /\ f[i] \in 1 .. Len(s) BY <2>1
    <3>2. Append(s, l)[f[i]] = s[f[i]] /\ Append(t, l)[i] = t[i] BY <2>1, <3>1
    <3> QED BY <1>1, <2>1, <3>1, <3>2
  <2>2. CASE i \notin 1 .. Len(t)
    <3>1. i = Len(t) + 1 /\ g[i] = Len(s) + 1 BY <1>2, <2>2
    <3> QED BY <1>2, <3>1
  <2> QED BY <2>1, <2>2
<1> HIDE DEF g
<1> QED BY <1>3, <1>4, <1>5, <1>6 DEF TellsOf

(* Nothing that Whole speaks of changes for the object q.                   *)
Untouched(q) ==
    /\ is_valid'[q] = is_valid[q] /\ content'[q] = content[q] /\ meant'[q] = meant[q]
    /\ q \in lengthened' <=> q \in lengthened

LEMMA UntouchedIsWhole ==
  ASSUME NEW q, Whole(q), Untouched(q) PROVE Whole(q)'
  BY DEF Whole, Untouched

(* Every operation keeps the contents: an assignment reads a source that is *)
(* not spent and is another object, a propagation appends to both the Error *)
(* and the route of the new object, and to the Error of its source.         *)
LEMMA NextFaithful == Accounted /\ Faithful /\ [Next]_vars => \A q \in built' \ spent' : Whole(q)'
<1> SUFFICES ASSUME Accounted, Faithful, [Next]_vars, NEW q \in built' \ spent'
             PROVE  Whole(q)'
  OBVIOUS
<1>0. /\ built \subseteq Objects /\ is_valid \in [Objects -> BOOLEAN]
      /\ DOMAIN content = Objects /\ DOMAIN meant = Objects
      /\ \A o \in built \ spent : Whole(o)
  BY DEF Faithful, TypeOK
<1>1. ASSUME NEW o \in Objects, NEW v \in Values, ConstructOk(o, v) PROVE Whole(q)'
  <2>1. CASE q = o
    BY <1>0, <1>1, <2>1 DEF ConstructOk, Construct, Whole
  <2>2. CASE q # o
    <3>1. q \in built \ spent /\ Untouched(q)
      BY <1>0, <1>1, <2>2 DEF ConstructOk, Construct, Untouched
    <3> QED BY <1>0, <3>1, UntouchedIsWhole
  <2> QED BY <2>1, <2>2
<1>2. ASSUME NEW o \in Objects, NEW l \in Locations, ConstructError(o, l) PROVE Whole(q)'
  <2>1. CASE q = o
    <3>1. /\ content'[q] = <<"error", <<l>>>> /\ meant'[q] = <<"error", <<l>>>> /\ ~is_valid'[q]
      BY <1>0, <1>2, <2>1 DEF ConstructError, Construct
    <3>2. <<l>> \in Seq(Locations) /\ Len(<<l>>) > 0 OBVIOUS
    <3>3. TellsOf(<<l>>, <<l>>) BY <3>2, TellsOfItself
    <3> QED BY <3>1, <3>2, <3>3 DEF Whole
  <2>2. CASE q # o
    <3>1. q \in built \ spent /\ Untouched(q)
      BY <1>0, <1>2, <2>2 DEF ConstructError, Construct, Untouched
    <3> QED BY <1>0, <3>1, UntouchedIsWhole
  <2> QED BY <2>1, <2>2
<1>3. ASSUME NEW o \in Objects, NEW p \in Objects, NEW l \in Locations, ErrorPropagate(o, p, l)
      PROVE  Whole(q)'
  <2>1. /\ o \notin built /\ p \in built \ spent /\ ~is_valid[p] /\ o # p
        /\ built' = built \cup {o} /\ spent' = spent
        /\ is_valid' = [is_valid EXCEPT ![o] = FALSE]
        /\ meant' = [meant EXCEPT ![o] = <<"error", Append(meant[p][2], l)>>]
        /\ content' = [content EXCEPT ![p] = <<"error", Append(content[p][2], l)>>,
                                      ![o] = <<"error", Append(content[p][2], l)>>]
        /\ lengthened' = lengthened \cup {p} \cup (IF p \in lengthened THEN {o} ELSE {})
    BY <1>3 DEF ErrorPropagate, Construct, Expanded
  <2>2. PICK where \in Seq(Locations), route \in Seq(Locations) :
          /\ content[p] = <<"error", where>> /\ meant[p] = <<"error", route>>
          /\ Len(route) > 0 /\ TellsOf(where, route)
          /\ p \notin lengthened => where = route
    BY <1>0, <2>1 DEF Whole
  <2>3. /\ content[p][2] = where /\ meant[p][2] = route
    BY <2>2
  <2>4. /\ Append(where, l) \in Seq(Locations) /\ Append(route, l) \in Seq(Locations)
        /\ Len(Append(route, l)) > 0
    BY <2>2
  <2>5. CASE q = o
    <3>1. /\ content'[q] = <<"error", Append(where, l)>> /\ meant'[q] = <<"error", Append(route, l)>>
          /\ q \notin lengthened' => where = route
      BY <1>0, <2>1, <2>2, <2>3, <2>5
    <3>2. TellsOf(Append(where, l), Append(route, l)) BY <2>2, TellsAfterHop
    <3>3. ~is_valid'[q] BY <1>0, <2>1, <2>5
    <3> QED BY <2>4, <3>1, <3>2, <3>3 DEF Whole
  <2>6. CASE q = p
    <3>1. /\ content'[q] = <<"error", Append(where, l)>> /\ meant'[q] = <<"error", route>>
          /\ q \in lengthened'
      BY <1>0, <2>1, <2>2, <2>3, <2>6
    <3>2. TellsOf(Append(where, l), route) BY <2>2, TellsAfterPush
    <3>3. ~is_valid'[q] BY <1>0, <2>1, <2>6
    <3> QED BY <2>2, <2>4, <3>1, <3>2, <3>3 DEF Whole
  <2>7. CASE q # o /\ q # p
    <3>1. q \in built \ spent /\ Untouched(q)
      BY <1>0, <2>1, <2>7 DEF Untouched
    <3> QED BY <1>0, <3>1, UntouchedIsWhole
  <2> QED BY <2>5, <2>6, <2>7
<1>4. ASSUME NEW o \in Objects, NEW p \in Objects, Assign(o, p),
             \/ CopyAssign(o, p)
             \/ MoveAssign(o, p)
      PROVE  Whole(q)'
  <2>1. {o, p} \subseteq built /\ p \notin spent /\ built' = built BY <1>4 DEF Assign
  <2>2. CASE o = p
    <3>1. q \in built \ spent /\ Untouched(q)
      BY <1>0, <1>4, <2>1, <2>2 DEF Assign, CopyAssign, MoveAssign, Differs, Untouched
    <3> QED BY <1>0, <3>1, UntouchedIsWhole
  <2>3. CASE o # p
    <3>1. /\ is_valid' = [is_valid EXCEPT ![o] = is_valid[p]]
          /\ meant' = [meant EXCEPT ![o] = meant[p]]
          /\ lengthened' = (lengthened \ {o}) \cup (IF p \in lengthened THEN {o} ELSE {})
      BY <1>4, <2>3 DEF Assign, Differs
    <3>2. CASE q = o
      <4>1. /\ is_valid'[o] = is_valid[p] /\ meant'[o] = meant[p]
            /\ o \in lengthened' <=> p \in lengthened
        BY <1>0, <3>1
      <4>2. content'[o] = content[p]
        BY <1>0, <1>4, <2>3 DEF CopyAssign, MoveAssign, Differs, Source
      <4>3. Whole(p) BY <1>0, <2>1
      <4> QED BY <3>2, <4>1, <4>2, <4>3 DEF Whole
    <3>3. CASE q # o
      <4>1. q \in built \ spent /\ (q = p => CopyAssign(o, p))
        BY <1>4, <2>1, <2>3, <3>3 DEF CopyAssign, MoveAssign, Differs
      <4>2. content'[q] = content[q]
        BY <1>0, <1>4, <2>3, <3>3, <4>1 DEF CopyAssign, MoveAssign, Differs
      <4>3. Untouched(q) BY <1>0, <3>1, <3>3, <4>1, <4>2 DEF Untouched
      <4> QED BY <1>0, <4>1, <4>3, UntouchedIsWhole
    <3> QED BY <3>2, <3>3
  <2> QED BY <2>2, <2>3
<1>5. ASSUME NEW o \in Objects, expect(o) PROVE Whole(q)'
  <2>1. q \in built \ spent /\ Untouched(q)
    BY <1>0, <1>5 DEF expect, Untouched
  <2> QED BY <1>0, <2>1, UntouchedIsWhole
<1>6. ASSUME NEW o \in Objects, Destroy(o) PROVE Whole(q)'
  <2>1. q # o /\ q \in built \ spent BY <1>6 DEF Destroy
  <2>2. Untouched(q) BY <1>0, <1>6, <2>1 DEF Destroy, Untouched
  <2> QED BY <1>0, <2>1, <2>2, UntouchedIsWhole
<1>7. CASE UNCHANGED vars
  <2>1. q \in built \ spent /\ Untouched(q) BY <1>7 DEF vars, Untouched
  <2> QED BY <1>0, <2>1, UntouchedIsWhole
<1> QED BY <1>1, <1>2, <1>3, <1>4, <1>5, <1>6, <1>7 DEF Next, CopyAssign, MoveAssign

(* An object holds what was put into it until it is moved from: exactly, or *)
(* with the locations that other propagations of the same Error added.      *)
THEOREM ContentIsKept == Spec => []HoldsWhatWasPut
<1>1. Init => Accounted /\ Faithful
  BY InitAccounted DEF Init, Accounted, Faithful
<1>2. Accounted /\ Faithful /\ [Next]_vars => Accounted' /\ Faithful'
  BY NextAccounted, NextFaithful DEF Accounted, Faithful
<1>3. Accounted /\ Faithful => HoldsWhatWasPut
  <2> SUFFICES ASSUME Accounted, Faithful, NEW o \in built \ spent
               PROVE  /\ is_valid[o] \/ o \notin lengthened => content[o] = meant[o]
                      /\ ~is_valid[o] => TellsOf(content[o][2], meant[o][2])
    BY DEF HoldsWhatWasPut
  <2>1. Whole(o) BY DEF Faithful
  <2>2. CASE is_valid[o] BY <2>1, <2>2 DEF Whole
  <2>3. CASE ~is_valid[o]
    <3>1. PICK where \in Seq(Locations), route \in Seq(Locations) :
            /\ content[o] = <<"error", where>> /\ meant[o] = <<"error", route>>
            /\ TellsOf(where, route)
            /\ o \notin lengthened => where = route
      BY <2>1, <2>3 DEF Whole
    <3>2. content[o][2] = where /\ meant[o][2] = route BY <3>1
    <3> QED BY <2>3, <3>1, <3>2
  <2> QED BY <2>2, <2>3
<1> QED BY <1>1, <1>2, <1>3, PTL DEF Spec
=============================================================================
