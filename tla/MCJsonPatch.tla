---------------------------- MODULE MCJsonPatch ----------------------------
(* The documents, patches and pointers of the run of JsonPatch. *)
EXTENDS JsonPatch

Array(s) == <<"array", s>>
Object(m) == <<"object", m>>
A == <<97>>
B == <<98>>
One == <<"unsigned", 1>>
Text == <<"string", <<48>>>>

Sequences(S, n) == UNION {[1..k -> S] : k \in 0..n}
Objects(keys, S) == UNION {[K -> S] : K \in SUBSET keys}

Scalars == {Null, One, <<"integer", 1>>, <<"boolean", TRUE>>, Text}
Small == {Array(s) : s \in Sequences({Null, One}, 2)} \cup {Object(m) : m \in Objects({A, Zero}, {Null, One})}
Wide == {Array(s) : s \in Sequences({One, Text, EmptyArray, Object(A :> One)}, 3)}
            \cup {Object(m) : m \in Objects({<<Slash>>, <<Tilde, 49>>, A}, {One, Text, EmptyObject})}
            \cup Scalars
Nested == {Array(<<x, y>>) : x \in Small, y \in {One, EmptyArray}}
            \cup {Object((A :> x) @@ (<<Slash>> :> y)) : x \in Small, y \in {One, EmptyObject}}
            \cup {Object(<<Tilde>> :> x) : x \in Small}

Call(fns, values, arguments) == [fn : fns, val : values, arg : arguments]

DiffCalls == UNION {Call({"diff"}, Wide, Wide), Call({"diff"}, Nested, Nested)}

(* Patches: two operations on a document with an array and an object.       *)
Doc == Object((A :> Array(<<One, Text, Object(B :> Null)>>)) @@ (B :> Object(A :> One)))
Docs == {Doc, Array(<<Doc, One>>), Null}
Paths == {<<>>, <<A>>, <<B>>, <<Dash>>, <<Zero>>, <<A, Zero>>, <<A, <<49>>>>, <<A, <<50>>>>, <<A, <<51>>>>,
          <<A, <<52>>>>, <<A, Dash>>, <<A, <<48, 49>>>>, <<<<48, 49>>, B>>, <<B, A>>, <<B, B>>,
          <<A, <<49>>, B>>, <<A, <<50>>, B>>, <<Zero, B>>, <<Zero, A, Zero>>, <<<<49>>>>, <<B, A, B>>}
PathTexts == {to_string(p) : p \in Paths}
Changes == {OperationWith(op, p, v) : op \in {"add", "replace", "test"}, p \in PathTexts,
                                     v \in {One, Array(<<Null>>)}}
              \cup {Operation("remove", p) : p \in PathTexts}
Transfers == {<<"object", [op |-> <<"string", op>>, path |-> <<"string", p>>, from |-> <<"string", f>>]>> :
                op \in {"move", "copy"}, p \in PathTexts, f \in PathTexts}
Malformed == {Null, <<"object", [op |-> <<"string", "add">>]>>, Operation("add", <<>>),
              Operation("replace", <<>>), Operation("test", <<>>), Operation("test", <<Slash, 99>>),
              Operation("move", <<>>), Operation("copy", <<>>), Operation("no such", <<>>),
              Operation("add", <<97>>), Operation("add", <<Slash, Tilde>>),
              <<"object", [op |-> Null, path |-> <<"string", <<>>>>]>>,
              <<"object", [op |-> <<"string", "add">>, path |-> One]>>}
PatchCalls ==
    UNION {Call({"patch"}, Docs, {Array(<<o>>) : o \in Transfers}),
           Call({"patch"}, Docs, {Array(<<o>>) : o \in Malformed}),
           Call({"patch"}, {Doc, Null}, {Array(<<o1, o2>>) : o1 \in Changes, o2 \in Changes}),
           Call({"patch"}, Docs, {One})}

(* Texts of pointers over "/", "~", "-", "a" and two digits.                *)
PointerTexts == {<<>>} \cup {<<Slash>> \o s : s \in Sequences({Slash, Tilde, 45, 48, 49, 97}, 4)}
                    \cup Sequences({Slash, Tilde, 97}, 2)
PointerDocs == {Null, One, Array(<<One, Array(<<One, Null>>)>>), Object(A :> Array(<<Null>>)),
                Object((Zero :> One) @@ (<<>> :> Array(<<One>>)))}
PointerCalls == Call({"contains", "at", "operator[]"}, PointerDocs, PointerTexts)

Leaf == {Null, One, EmptyArray, EmptyObject}
FlatDocs == {Array(s) : s \in Sequences({One, EmptyArray, Array(<<Null, One>>), Object(<<49>> :> One)}, 3)}
              \cup {Object(m) : m \in Objects({<<>>, <<Slash>>, <<33>>, <<49>>}, {One, EmptyObject, Object(<<Tilde>> :> Array(<<One>>))})}
              \cup {Array([i \in 1..12 |-> x]) : x \in {One, EmptyArray, Array(<<One, One>>)}}
              \cup Leaf
(* Objects that nobody flattened, and values that are no objects.           *)
OddFlat == {Object(m) : m \in Objects({<<>>, <<Slash, 48>>, <<Slash, 48, 49>>, <<Slash, 97>>, <<97>>, <<Slash, Tilde>>},
                                      {One, EmptyArray})} \cup {One, EmptyArray}
FlattenCalls == Call({"flatten"}, FlatDocs, {Null}) \cup Call({"unflatten"}, OddFlat, {Null})

MergeDocs == {Object(m) : m \in Objects({A, B}, {Null, One, EmptyObject, Object(A :> One), Object((A :> Null) @@ (B :> Text)),
                                                Array(<<Null>>)})} \cup {Null, One}
MergeCalls == Call({"merge_patch"}, MergeDocs, MergeDocs)

AllCalls == UNION {DiffCalls, PatchCalls, PointerCalls, FlattenCalls, MergeCalls}
=============================================================================
