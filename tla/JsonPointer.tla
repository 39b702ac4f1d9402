----------------------------- MODULE JsonPointer -----------------------------
(* json_pointer: the reference tokens of a text, and the ways a value is    *)
(* reached by them.  A text, a token and a key are sequences of bytes;      *)
(* values are those of BinaryData, with numbers in place of the eight bytes *)
(* of an integer.                                                           *)
EXTENDS BinaryData

CONSTANT
    \* the largest value of size_type
    MaxIndex

Slash == 47
Tilde == 126
Dash == <<45>>
Zero == <<48>>
IsDigit(c) == c \in 48..57

Null == <<"null">>
EmptyArray == <<"array", <<>>>>
EmptyObject == <<"object", <<>>>>

(* What a function returns: a value, or the id of what it throws.           *)
Returned(v) == [ok |-> TRUE, val |-> v, error |-> 0]
Thrown(id) == [ok |-> FALSE, val |-> Null, error |-> id]

-----------------------------------------------------------------------------
(* Texts *)

(* Every occurrence of f in s, from the left, becomes t.                    *)
RECURSIVE replace_substring(_, _, _)
replace_substring(s, f, t) ==
    IF Len(s) < Len(f) THEN s
    ELSE IF IsPrefix(f, s) THEN t \o replace_substring(SubSeq(s, Len(f) + 1, Len(s)), f, t)
    ELSE <<Head(s)>> \o replace_substring(Tail(s), f, t)

escape(s) ==
    replace_substring(replace_substring(s, <<Tilde>>, <<Tilde, 48>>), <<Slash>>, <<Tilde, 49>>)

unescape(s) ==
    replace_substring(replace_substring(s, <<Tilde, 49>>, <<Slash>>), <<Tilde, 48>>, <<Tilde>>)

(* The mutant control: a key is put into a path as it is.                   *)
StepUnescaped(path, token) == path \o <<Slash>> \o token

Step(path, token) == path \o <<Slash>> \o escape(token)

to_string(tokens) == FoldLeft(Step, <<>>, tokens)

ProperlyEscaped(token) ==
    \A i \in DOMAIN token :
        token[i] = Tilde => i < Len(token) /\ token[i + 1] \in {48, 49}

split(s) ==
    IF s = <<>> THEN Returned(<<>>)
    ELSE IF s[1] # Slash THEN Thrown(107)
    ELSE LET slashes == SetToSortSeq({i \in DOMAIN s : s[i] = Slash}, <)
             ends == Append(Tail(slashes), Len(s) + 1)
             parts == [i \in DOMAIN slashes |-> SubSeq(s, slashes[i] + 1, ends[i] - 1)]
         IN  IF \A i \in DOMAIN parts : ProperlyEscaped(parts[i])
             THEN Returned([i \in DOMAIN parts |-> unescape(parts[i])])
             ELSE Thrown(108)

(* std::to_string of an index.                                              *)
RECURSIVE IndexText(_)
IndexText(n) == IF n < 10 THEN <<48 + n>> ELSE IndexText(n \div 10) \o <<48 + (n % 10)>>

(* strtoull, and what is refused before and after it.                       *)
array_index(s) ==
    IF Len(s) > 1 /\ s[1] = 48 THEN Thrown(106)
    ELSE IF Len(s) > 1 /\ ~IsDigit(s[1]) THEN Thrown(109)
    ELSE IF s = <<>> \/ \E i \in DOMAIN s : ~IsDigit(s[i]) THEN Thrown(404)
    ELSE LET n == FoldLeft(LAMBDA a, d : 10 * a + d - 48, 0, s)
         IN  IF n > MaxIndex THEN Thrown(404) ELSE IF n = MaxIndex THEN Thrown(410)
             ELSE Returned(n)

-----------------------------------------------------------------------------
(* Access *)

(* at(ptr).                                                                 *)
RECURSIVE get_checked(_, _)
get_checked(v, tokens) ==
    IF tokens = <<>> THEN Returned(v)
    ELSE LET t == Head(tokens)
             idx == array_index(t)
         IN  CASE v[1] = "object" ->
                    IF t \in DOMAIN v[2] THEN get_checked(v[2][t], Tail(tokens)) ELSE Thrown(403)
               [] v[1] = "array" ->
                    IF t = Dash THEN Thrown(402)
                    ELSE IF ~idx.ok THEN idx
                    ELSE IF idx.val < Len(v[2]) THEN get_checked(v[2][idx.val + 1], Tail(tokens))
                    ELSE Thrown(401)
               [] OTHER -> Thrown(404)

(* The mutant control: a leading zero is left to array_index.               *)
NotDigits(t) == \E i \in DOMAIN t : ~IsDigit(t[i])

(* The tokens that contains tells to be no index before it calls array_index.*)
NoIndex(t) == (\E i \in DOMAIN t : ~IsDigit(t[i])) \/ (Len(t) > 1 /\ t[1] = 48)

RECURSIVE contains(_, _)
contains(v, tokens) ==
    IF tokens = <<>> THEN Returned(TRUE)
    ELSE LET t == Head(tokens)
             idx == array_index(t)
         IN  CASE v[1] = "object" ->
                    IF t \in DOMAIN v[2] THEN contains(v[2][t], Tail(tokens)) ELSE Returned(FALSE)
               [] v[1] = "array" ->
                    IF NoIndex(t) THEN Returned(FALSE)
                    ELSE IF ~idx.ok THEN idx
                    ELSE IF idx.val >= Len(v[2]) THEN Returned(FALSE)
                    ELSE contains(v[2][idx.val + 1], Tail(tokens))
               [] OTHER -> Returned(FALSE)

(* v with w in the place of the value that tokens lead to.                  *)
RECURSIVE Changed(_, _, _)
Changed(v, tokens, w) ==
    IF tokens = <<>> THEN w
    ELSE IF v[1] = "object"
    THEN <<"object", [v[2] EXCEPT ![Head(tokens)] = Changed(@, Tail(tokens), w)]>>
    ELSE <<"array", [v[2] EXCEPT ![array_index(Head(tokens)).val + 1] = Changed(@, Tail(tokens), w)]>>

(* operator[]: the member, or a null; and the element, after as many nulls  *)
(* as are missing.                                                          *)
Member(v, key) == IF key \in DOMAIN v[2] THEN v[2][key] ELSE Null
WithMember(v, key, w) == <<"object", (key :> w) @@ v[2]>>

(* The mutant control: the array is made anew.                              *)
FilledAnew(v, n) == Repeat(Null, n + 1)

Filled(v, n) == v[2] \o Repeat(Null, Max({0, n + 1 - Len(v[2])}))
WithElement(v, n, w) == <<"array", [Filled(v, n) EXCEPT ![n + 1] = w]>>

(* A value and the id of what was thrown, 0 when nothing was.               *)
Made(v, id) == [doc |-> v, error |-> id]

(* operator[](ptr): get_unchecked turns a null into what the token needs.   *)
RECURSIVE get_unchecked(_, _)
get_unchecked(v, tokens) ==
    IF tokens = <<>> THEN Made(v, 0)
    ELSE LET t == Head(tokens)
             w == IF v # Null THEN v
                  ELSE IF t = Dash \/ \A i \in DOMAIN t : IsDigit(t[i]) THEN EmptyArray
                  ELSE EmptyObject
         IN  CASE w[1] = "object" ->
                    LET r == get_unchecked(Member(w, t), Tail(tokens))
                    IN  Made(WithMember(w, t, r.doc), r.error)
               [] w[1] = "array" ->
                    LET idx == IF t = Dash THEN Returned(Len(w[2])) ELSE array_index(t)
                        r == get_unchecked(Filled(w, idx.val)[idx.val + 1], Tail(tokens))
                    IN  IF idx.ok THEN Made(WithElement(w, idx.val, r.doc), r.error)
                        ELSE Made(w, idx.error)
               [] OTHER -> Made(v, 404)

(* unflatten: get_and_create starts an array only with the token "0".       *)
RECURSIVE get_and_create(_, _)
get_and_create(v, tokens) ==
    IF tokens = <<>> THEN Made(v, 0)
    ELSE LET t == Head(tokens)
             w == IF v # Null THEN v ELSE IF t = Zero THEN EmptyArray ELSE EmptyObject
         IN  CASE w[1] = "object" ->
                    LET r == get_and_create(Member(w, t), Tail(tokens))
                    IN  Made(WithMember(w, t, r.doc), r.error)
               [] w[1] = "array" ->
                    LET idx == array_index(t)
                        r == get_and_create(Filled(w, idx.val)[idx.val + 1], Tail(tokens))
                    IN  IF idx.ok THEN Made(WithElement(w, idx.val, r.doc), r.error)
                        ELSE Made(w, idx.error)
               [] OTHER -> Made(v, 313)

-----------------------------------------------------------------------------
(* flatten *)

Union(fs) == FoldLeft(LAMBDA f, g : g @@ f, <<>>, fs)

(* The members of the flattened value.                                      *)
RECURSIVE flatten(_, _)
flatten(reference_string, v) ==
    CASE v \in {EmptyArray, EmptyObject} -> reference_string :> Null
      [] v[1] = "array" /\ v # EmptyArray ->
            Union([i \in DOMAIN v[2] |->
                        flatten(reference_string \o <<Slash>> \o IndexText(i - 1), v[2][i])])
      [] v[1] = "object" /\ v # EmptyObject ->
            LET keys == KeysInOrder(v[2])
            IN  Union([i \in DOMAIN keys |-> flatten(Step(reference_string, keys[i]), v[2][keys[i]])])
      [] OTHER -> reference_string :> v
=============================================================================
