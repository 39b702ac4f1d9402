------------------------------ MODULE JsonPatch ------------------------------
(* The functions of basic_json that work on a whole document: patch_inplace *)
(* applies its operations one by one, unflatten its members; diff, flatten, *)
(* merge_patch and the accesses by a pointer are one step each.             *)
(*                                                                          *)
(* A patch is a sequence of operations; an operation is <<"object", r>>     *)
(* with a record r of the members it has, or a value that is no object.     *)
EXTENDS JsonPointer

CONSTANTS
    \* the calls: records of a function fn, a document val and an argument arg
    Calls,
    \* the largest value of number_integer_t; number_unsigned_t goes twice as far
    MaxInteger

ASSUME PatchAssumption == MaxInteger \in Nat /\ MaxIndex \in Nat

VARIABLES
    call,
    doc,        \* *this, or the result of unflatten
    rest,       \* the operations, or the keys, that are left
    answer,     \* what diff, flatten or contains returned
    error,      \* the id of the exception
    status      \* "running", "returned", "thrown", "assertion"

vars == <<call, doc, rest, answer, error, status>>

-----------------------------------------------------------------------------
(* Comparison *)

IsNumber(v) == v[1] \in {"integer", "unsigned", "float"}

(* static_cast<number_integer_t> of an unsigned number.                     *)
Signed(n) == IF n > MaxInteger THEN n - 2 * (MaxInteger + 1) ELSE n

(* An unsigned number is cast to the type of an integer it is compared with.*)
SameNumber(a, b) ==
    LET cast(v, other) == IF v[1] = "unsigned" /\ other[1] = "integer" THEN Signed(v[2]) ELSE v[2]
    IN  cast(a, b) = cast(b, a)

RECURSIVE Equal(_, _)
Equal(a, b) ==
    IF IsNumber(a) /\ IsNumber(b) THEN SameNumber(a, b)
    ELSE IF a[1] = b[1] /\ a[1] \in {"array", "object"}
    THEN DOMAIN a[2] = DOMAIN b[2] /\ \A i \in DOMAIN a[2] : Equal(a[2][i], b[2][i])
    ELSE a = b

-----------------------------------------------------------------------------
(* diff *)

Operation(op, path) == <<"object", [op |-> <<"string", op>>, path |-> <<"string", path>>]>>

OperationWith(op, path, v) ==
    <<"object", [op |-> <<"string", op>>, path |-> <<"string", path>>, value |-> v]>>

(* The mutant control: the elements are removed from the front.             *)
RemovalsForward(path, m, n) ==
    [i \in 1..(n - m) |-> Operation("remove", path \o <<Slash>> \o IndexText(m + i - 1))]

(* The removal of the elements m .. n-1, the last one first.                *)
Removals(path, m, n) ==
    [i \in 1..(n - m) |-> Operation("remove", path \o <<Slash>> \o IndexText(n - i))]

RECURSIVE diff(_, _, _)
diff(source, target, path) ==
    IF Equal(source, target) THEN <<>>
    ELSE IF source[1] # target[1] \/ source[1] \notin {"array", "object"}
    THEN << OperationWith("replace", path, target) >>
    ELSE IF source[1] = "array"
    THEN LET common == Min({Len(source[2]), Len(target[2])})
         IN  FlattenSeq([i \in 1..common |->
                            diff(source[2][i], target[2][i], path \o <<Slash>> \o IndexText(i - 1))])
                \o Removals(path, common, Len(source[2]))
                \o [i \in 1..(Len(target[2]) - common) |->
                        OperationWith("add", path \o <<Slash, 45>>, target[2][common + i])]
    ELSE LET old == KeysInOrder(source[2])
             new == KeysInOrder(Restrict(target[2], DOMAIN target[2] \ DOMAIN source[2]))
         IN  FlattenSeq([i \in DOMAIN old |->
                            IF old[i] \in DOMAIN target[2]
                            THEN diff(source[2][old[i]], target[2][old[i]], Step(path, old[i]))
                            ELSE << Operation("remove", Step(path, old[i])) >>])
                \o [i \in DOMAIN new |->
                        OperationWith("add", Step(path, new[i]), target[2][new[i]])]

-----------------------------------------------------------------------------
(* patch_inplace: the operations *)

Failed == -1       \* JSON_ASSERT(false)

(* insert, after the check that avoids undefined behavior.                  *)
InsertElement(v, n, w) ==
    IF n > Len(v[2]) THEN Made(v, 401) ELSE Made(<<"array", InsertAt(v[2], n + 1, w)>>, 0)

(* A parent with val added as the token last.                               *)
AddTo(parent, last, val) ==
    CASE parent = Null -> Made(<<"object", last :> val>>, 0)
      [] parent[1] = "object" -> Made(WithMember(parent, last, val), 0)
      [] parent[1] = "array" /\ last = Dash -> Made(<<"array", Append(parent[2], val)>>, 0)
      [] parent[1] = "array" /\ last # Dash ->
            LET idx == array_index(last)
            IN  IF idx.ok THEN InsertElement(parent, idx.val, val) ELSE Made(parent, idx.error)
      [] OTHER -> Made(parent, Failed)

(* A parent without the child last; a primitive parent stays as it is.      *)
RemoveFrom(parent, last) ==
    CASE parent[1] = "object" ->
            IF last \in DOMAIN parent[2]
            THEN Made(<<"object", Restrict(parent[2], DOMAIN parent[2] \ {last})>>, 0)
            ELSE Made(parent, 403)
      [] parent[1] = "array" ->
            LET idx == array_index(last)
            IN  IF ~idx.ok THEN Made(parent, idx.error)
                ELSE IF idx.val >= Len(parent[2]) THEN Made(parent, 401)
                ELSE Made(<<"array", RemoveAt(parent[2], idx.val + 1)>>, 0)
      [] OTHER -> Made(parent, 0)

(* The document with the changed parent, and what the change threw.         *)
WithParent(d, path, made) == Made(Changed(d, path, made.doc), made.error)

operation_add(d, ptr, val) ==
    IF ptr = <<>> THEN Made(val, 0)
    ELSE LET top == IF Len(ptr) > 1 THEN get_checked(d, <<ptr[1]>>) ELSE Returned(Null)
             parent == get_checked(d, Front(ptr))
         IN  IF ~top.ok THEN Made(d, top.error)
             ELSE IF ~parent.ok THEN Made(d, parent.error)
             ELSE WithParent(d, Front(ptr), AddTo(parent.val, Last(ptr), val))

operation_remove(d, ptr) ==
    IF ptr = <<>> THEN Made(d, 405)
    ELSE LET parent == get_checked(d, Front(ptr))
         IN  IF ~parent.ok THEN Made(d, parent.error)
             ELSE WithParent(d, Front(ptr), RemoveFrom(parent.val, Last(ptr)))

operation_replace(d, ptr, val) ==
    LET there == get_checked(d, ptr)
    IN  IF there.ok THEN Made(Changed(d, ptr, val), 0) ELSE Made(d, there.error)

(* The mutant control: the value is added before it is removed.             *)
AddThenRemove(d, from, ptr) ==
    LET there == get_checked(d, from)
        added == operation_add(d, ptr, there.val)
    IN  IF ~there.ok THEN Made(d, there.error)
        ELSE IF added.error # 0 THEN added ELSE operation_remove(added.doc, from)

operation_move(d, from, ptr) ==
    LET there == get_checked(d, from)
        removed == operation_remove(d, from)
    IN  IF ~there.ok THEN Made(d, there.error)
        ELSE IF removed.error # 0 THEN removed
        ELSE operation_add(removed.doc, ptr, there.val)

operation_copy(d, from, ptr) ==
    LET there == get_checked(d, from)
    IN  IF ~there.ok THEN Made(d, there.error) ELSE operation_add(d, ptr, there.val)

(* Only what at() throws as an out_of_range is caught.                      *)
IsOutOfRange(id) == id \in 401..410

operation_test(d, ptr, val) ==
    LET there == get_checked(d, ptr)
    IN  IF there.ok /\ Equal(there.val, val) THEN Made(d, 0)
        ELSE IF there.ok \/ IsOutOfRange(there.error) THEN Made(d, 501)
        ELSE Made(d, there.error)

(* get_value: a member of an operation.                                     *)
get_value(r, member, string_type) ==
    IF member \notin DOMAIN r \/ (string_type /\ r[member][1] # "string") THEN Thrown(105)
    ELSE Returned(r[member])

(* A pointer that a member holds as text.                                   *)
PointerIn(r, member) ==
    LET text == get_value(r, member, TRUE) IN IF text.ok THEN split(text.val[2]) ELSE text

-----------------------------------------------------------------------------
(* merge_patch *)

(* The mutant control: members that are null are left alone.                *)
KeepNulls(members, patch) == members

(* The members without those that the patch has as null.                    *)
WithoutNulls(members, patch) ==
    Restrict(members, {k \in DOMAIN members : k \notin DOMAIN patch \/ patch[k] # Null})

RECURSIVE merge_patch(_, _)
merge_patch(v, apply_patch) ==
    IF apply_patch[1] # "object" THEN apply_patch
    ELSE LET members == IF v[1] = "object" THEN v[2] ELSE <<>>
             set == {k \in DOMAIN apply_patch[2] : apply_patch[2][k] # Null}
         IN  <<"object", [k \in set |-> merge_patch(Member(<<"object", members>>, k), apply_patch[2][k])]
                            @@ WithoutNulls(members, apply_patch[2])>>

-----------------------------------------------------------------------------
(* The calls *)

Init ==
    /\ call \in Calls
    /\ doc = IF call.fn = "unflatten" THEN Null ELSE call.val
    /\ rest = CASE call.fn = "patch" /\ call.arg[1] = "array" -> call.arg[2]
                [] call.fn = "unflatten" /\ call.val[1] = "object" -> KeysInOrder(call.val[2])
                [] OTHER -> <<>>
    /\ answer = <<>> /\ error = 0 /\ status = "running"

Running(fn) == status = "running" /\ call.fn = fn

Ends(made) ==
    /\ doc' = made.doc
    /\ error' = made.error
    /\ status' = IF made.error = 0 THEN "returned" ELSE IF made.error = Failed THEN "assertion"
                 ELSE "thrown"

(* One operation of the patch: what it makes of doc.                        *)
Applies(made) ==
    /\ IF made.error = 0 THEN doc' = made.doc /\ UNCHANGED <<error, status>> ELSE Ends(made)
    /\ rest' = Tail(rest)
    /\ UNCHANGED <<call, answer>>

Members == Head(rest)[2]
IsOperation == rest # <<>> /\ Head(rest)[1] = "object"
Op == get_value(Members, "op", TRUE)
Path == PointerIn(Members, "path")
Given == get_value(Members, "value", FALSE)
From == PointerIn(Members, "from")

(* The members every operation has are there, and it is called op.          *)
Applying(op) == Running("patch") /\ IsOperation /\ Op.ok /\ Path.ok /\ Op.val[2] = op

PatchAdd ==
    /\ Applying("add")
    /\ Applies(IF Given.ok THEN operation_add(doc, Path.val, Given.val) ELSE Made(doc, Given.error))

PatchRemove ==
    /\ Applying("remove")
    /\ Applies(operation_remove(doc, Path.val))

PatchReplace ==
    /\ Applying("replace")
    /\ Applies(IF Given.ok THEN operation_replace(doc, Path.val, Given.val) ELSE Made(doc, Given.error))

PatchMove ==
    /\ Applying("move")
    /\ Applies(IF From.ok THEN operation_move(doc, From.val, Path.val) ELSE Made(doc, From.error))

PatchCopy ==
    /\ Applying("copy")
    /\ Applies(IF From.ok THEN operation_copy(doc, From.val, Path.val) ELSE Made(doc, From.error))

(* Neither operand of the comparison comes first.                           *)
PatchTest ==
    /\ Applying("test")
    /\ \/ Given.ok /\ Applies(operation_test(doc, Path.val, Given.val))
       \/ ~Given.ok /\ Applies(Made(doc, Given.error))
       \/ ~Given.ok /\ ~get_checked(doc, Path.val).ok /\ Applies(operation_test(doc, Path.val, Null))

(* An element that is no operation, or has not its members, or an op that   *)
(* there is not; or no array of operations.                                 *)
RefuseOperation ==
    /\ Running("patch")
    /\ \/ call.arg[1] # "array" /\ Ends(Made(doc, 104)) /\ UNCHANGED rest
       \/ rest # <<>> /\ ~IsOperation /\ Applies(Made(doc, 104))
       \/ IsOperation /\ ~Op.ok /\ Applies(Made(doc, Op.error))
       \/ IsOperation /\ Op.ok /\ ~Path.ok /\ Applies(Made(doc, Path.error))
       \/ /\ IsOperation /\ Op.ok /\ Path.ok
          /\ Op.val[2] \notin {"add", "remove", "replace", "move", "copy", "test"}
          /\ Applies(Made(doc, 105))
    /\ UNCHANGED <<call, answer>>

(* patch and unflatten return after the last operation or member.           *)
Return ==
    /\ status = "running" /\ rest = <<>>
    /\ \/ call.fn = "patch" /\ call.arg[1] = "array"
       \/ call.fn = "unflatten" /\ call.val[1] = "object"
    /\ status' = "returned"
    /\ UNCHANGED <<call, doc, rest, answer, error>>

(* diff; the patch is then applied to the source.                           *)
Diff ==
    /\ Running("diff")
    /\ \E patch \in {diff(call.val, call.arg, <<>>)} :
            /\ call' = [call EXCEPT !.fn = "patch", !.arg = <<"array", patch>>]
            /\ rest' = patch
    /\ answer' = <<call.arg>>
    /\ UNCHANGED <<doc, error, status>>

MergePatch ==
    /\ Running("merge_patch")
    /\ Ends(Made(merge_patch(doc, call.arg), 0))
    /\ UNCHANGED <<call, rest, answer>>

(* flatten; the members are then unflattened.                               *)
Flatten ==
    /\ Running("flatten")
    /\ \E members \in {flatten(<<>>, call.val)} :
            /\ call' = [call EXCEPT !.fn = "unflatten", !.val = <<"object", members>>]
            /\ rest' = KeysInOrder(members)
    /\ answer' = <<call.val>>
    /\ doc' = Null
    /\ UNCHANGED <<error, status>>

IsPrimitive(v) == v[1] \notin {"array", "object"}

UnflattenElement ==
    /\ Running("unflatten") /\ call.val[1] = "object" /\ rest # <<>>
    /\ LET val == call.val[2][Head(rest)]
           ptr == split(Head(rest))
           made == get_and_create(doc, ptr.val)
       IN  Applies(IF ~IsPrimitive(val) THEN Made(doc, 315)
                   ELSE IF ~ptr.ok THEN Made(doc, ptr.error)
                   ELSE IF made.error # 0 THEN Made(doc, made.error)
                   ELSE Made(Changed(made.doc, ptr.val, val), 0))

RefuseUnflatten ==
    /\ Running("unflatten") /\ call.val[1] # "object"
    /\ Ends(Made(doc, 314))
    /\ UNCHANGED <<call, rest, answer>>

(* contains, at and operator[] with the pointer that the text arg makes.    *)
AskContains ==
    /\ Running("contains")
    /\ LET ptr == split(call.arg)
           r == IF ptr.ok THEN contains(doc, ptr.val) ELSE ptr
       IN  /\ Ends(Made(doc, r.error))
           /\ answer' = IF r.ok THEN <<r.val>> ELSE <<>>
    /\ UNCHANGED <<call, rest>>

At ==
    /\ Running("at")
    /\ LET ptr == split(call.arg)
           r == IF ptr.ok THEN get_checked(doc, ptr.val) ELSE ptr
       IN  /\ Ends(Made(doc, r.error))
           /\ answer' = IF r.ok THEN <<r.val>> ELSE <<>>
    /\ UNCHANGED <<call, rest>>

Access ==
    /\ Running("operator[]")
    /\ LET ptr == split(call.arg)
       IN  Ends(IF ptr.ok THEN get_unchecked(doc, ptr.val) ELSE Made(doc, ptr.error))
    /\ UNCHANGED <<call, rest, answer>>

Next ==
    \/ PatchAdd \/ PatchRemove \/ PatchReplace \/ PatchMove \/ PatchCopy \/ PatchTest
    \/ RefuseOperation \/ Return
    \/ Diff \/ MergePatch \/ Flatten \/ UnflattenElement \/ RefuseUnflatten
    \/ AskContains \/ At \/ Access

Spec == Init /\ [][Next]_vars

-----------------------------------------------------------------------------
(* Properties *)

Patching == call.fn = "patch" /\ answer # <<>>
Target == answer[1]

(* The patch that diff makes applies to the source, and turns it into the   *)
(* target: the removals from arrays, the escaped keys and the paths of      *)
(* nested values fit the document at the moment their turn comes.           *)
DiffTurnsSourceIntoTarget ==
    Patching => /\ status \in {"running", "returned"}
                /\ status = "returned" => Equal(doc, Target)

Applied(op) == Applying(op) /\ status' = "running"

(* Where an added value is found: "-" is the end of the array.              *)
Place(d, ptr) ==
    LET parent == get_checked(d, Front(ptr)).val
    IN  IF Last(ptr) = Dash /\ parent[1] = "array"
        THEN Append(Front(ptr), IndexText(Len(parent[2]))) ELSE ptr

(* Adding at ptr replaces nothing and turns no null into an object.         *)
IsNewPlace(d, ptr) ==
    ptr # <<>> /\ LET parent == get_checked(d, Front(ptr)).val
                  IN  parent[1] = "array" \/ (parent[1] = "object" /\ Last(ptr) \notin DOMAIN parent[2])

WithoutFrom == operation_remove(doc, From.val).doc

(* Every operation that takes or makes a place is undone by the operation   *)
(* of the opposite kind, also where the elements of an array were shifted   *)
(* by the removal half of a move.                                           *)
OperationsAreUndone ==
    [][/\ Applied("add") /\ IsNewPlace(doc, Path.val) =>
            operation_remove(doc', Place(doc, Path.val)) = Made(doc, 0)
       /\ Applied("remove") /\ get_checked(doc, Path.val).ok =>
            operation_add(doc', Path.val, get_checked(doc, Path.val).val) = Made(doc, 0)
       /\ Applied("move") /\ IsNewPlace(WithoutFrom, Path.val) =>
            operation_move(doc', Place(WithoutFrom, Path.val), From.val) = Made(doc, 0)]_vars

Tokens(text) == split(text).val

(* Neither an index nor anything that contains refuses before array_index.  *)
NoSize(t) ==
    \/ t = <<>>
    \/ /\ \A i \in DOMAIN t : IsDigit(t[i])
       /\ t[1] = 48 => Len(t) = 1
       /\ FoldLeft(LAMBDA n, d : 10 * n + d - 48, 0, t) >= MaxIndex

(* contains tells whether at finds a value, though it checks the tokens by  *)
(* a code of its own: for an index that is no number or begins with a zero  *)
(* it returns false, where its comment promises parse_error 109 and 106.    *)
(* It throws exactly when it meets, in an array, an empty token or a number *)
(* that is no size.                                                         *)
ContainsMeansAt ==
    LET tokens == Tokens(call.arg)
        met(i) == get_checked(doc, SubSeq(tokens, 1, i - 1))
    IN  call.fn = "contains" /\ split(call.arg).ok /\ status # "running" =>
            IF \E i \in DOMAIN tokens : met(i).ok /\ met(i).val[1] = "array" /\ NoSize(tokens[i])
            THEN status = "thrown"
            ELSE status = "returned" /\ answer[1] = get_checked(doc, tokens).ok

Leaves(v) == LET f == flatten(<<>>, v) IN {<<k, f[k]>> : k \in {m \in DOMAIN f : f[m] # Null}}

(* operator[] makes the place it is asked for and loses no value, neither   *)
(* when it succeeds nor when it throws half way.                            *)
AccessOnlyMakes ==
    call.fn = "operator[]" /\ status # "running" =>
        /\ Leaves(call.val) \subseteq Leaves(doc)
        /\ status = "returned" /\ Dash \notin ToSet(Tokens(call.arg)) =>
                get_checked(doc, Tokens(call.arg)).ok

RECURSIVE HasKey(_, _)
HasKey(v, key) ==
    \/ v[1] = "object" /\ key \in DOMAIN v[2]
    \/ v[1] \in {"array", "object"} /\ \E i \in DOMAIN v[2] : HasKey(v[2][i], key)

RECURSIVE Hollow(_)
Hollow(v) ==
    IF v \in {EmptyArray, EmptyObject} THEN Null
    ELSE IF IsPrimitive(v) THEN v
    ELSE <<v[1], [i \in DOMAIN v[2] |-> Hollow(v[2][i])]>>

Unflattening == call.fn = "unflatten" /\ answer # <<>>

(* unflatten restores what was flattened, with null for an empty container, *)
(* in whatever order the paths sort, unless an object has the key "0".      *)
UnflattenRestores ==
    Unflattening /\ ~HasKey(answer[1], Zero) =>
        /\ status \in {"running", "returned"}
        /\ status = "returned" => doc = Hollow(answer[1])

(* The places within objects, and what is there.                            *)
RECURSIVE Nodes(_)
Nodes(v) ==
    IF v[1] # "object" THEN {<<<<>>, v>>}
    ELSE {<<<<>>, EmptyObject>>}
            \cup UNION {{<<<<k>> \o n[1], n[2]>> : n \in Nodes(v[2][k])} : k \in DOMAIN v[2]}

(* The result of merge_patch has the members of the patch that are not null *)
(* and those of the value that no member of the patch stands in for.        *)
MergedAsMeant ==
    call.fn = "merge_patch" /\ status = "returned" =>
        LET patch == Nodes(call.arg)
            untouched(n) == \A m \in patch : IsPrefix(m[1], n[1]) => m[1] # n[1] /\ m[2] = EmptyObject
        IN  Nodes(doc) = {n \in patch : n[2] # Null \/ n[1] = <<>>}
                            \cup {n \in Nodes(call.val) : untouched(n)}
=============================================================================
