---------------------------- MODULE JsonGrammar ----------------------------
(***************************************************************************)
(* What the parser of JsonParser must do, stated without its stacks: the   *)
(* grammar of JSON by recursive descent over the finished token sequence,  *)
(* the value it denotes, and the part of it the callback keeps.            *)
(***************************************************************************)
EXTENDS JsonParser

\* What a builder's memory holds: the value at address p.
RECURSIVE Built(_, _)
Built(s, p) ==
    LET cell == s.cells[p] IN
    CASE cell[1] = "array" -> <<"array", [i \in DOMAIN cell[2] |-> Built(s, cell[2][i])]>>
      [] cell[1] = "object" -> <<"object", [k \in DOMAIN cell[2] |-> Built(s, cell[2][k])]>>
      [] OTHER -> cell

-----------------------------------------------------------------------------
(* The grammar.  A parse of the tokens from i on is <<v, j>>: the value v  *)
(* ends before token j.  j = 0 if there is none.                           *)

NoParse == <<NullValue, 0>>
At(i, t) == i \in DOMAIN input /\ input[i] = <<t>>
Kept(i, v) == IF keeps[i] THEN v ELSE DiscardedValue

\* The members so far, with v at key k: discarded if the key or the value is.
With(members, k, keepKey, v) ==
    IF ~keepKey THEN members
    ELSE (k :> v) @@ members

Present(members) == [k \in {l \in DOMAIN members : members[l] # DiscardedValue} |-> members[k]]

RECURSIVE RefValue(_), RefElements(_, _), RefMembers(_, _)
RefValue(i) ==
    CASE i \notin DOMAIN input -> NoParse
      [] input[i][1] \in {"literal", "string"} -> <<Kept(i, Leaf(input[i])), i + 1>>
      [] At(i, "[") ->
            LET r == IF At(i + 1, "]") THEN <<<<"array", <<>>>>, i + 2>>
                     ELSE RefElements(i + 1, <<>>)
            IN  IF r[2] = 0 THEN NoParse ELSE <<Kept(i, Kept(r[2] - 1, r[1])), r[2]>>
      [] At(i, "{") ->
            LET r == IF At(i + 1, "}") THEN <<EmptyObject, i + 2>>
                     ELSE RefMembers(i + 1, [k \in {} |-> NullValue])
            IN  IF r[2] = 0 THEN NoParse ELSE <<Kept(i, Kept(r[2] - 1, r[1])), r[2]>>
      [] OTHER -> NoParse

RefElements(i, before) ==
    LET r == RefValue(i)
        elements == IF r[1] = DiscardedValue THEN before ELSE Append(before, r[1])
    IN  CASE r[2] = 0 -> NoParse
          [] At(r[2], "]") -> <<<<"array", elements>>, r[2] + 1>>
          [] At(r[2], ",") /\ At(r[2] + 1, "]") /\ options.ignore_trailing_commas ->
                <<<<"array", elements>>, r[2] + 2>>
          [] At(r[2], ",") -> RefElements(r[2] + 1, elements)
          [] OTHER -> NoParse

RefMembers(i, before) ==
    LET r == RefValue(i + 2)
        members == With(before, input[i][2], keeps[i], r[1])
    IN  CASE \/ i \notin DOMAIN input \/ ~IsString(input[i])
             \/ ~At(i + 1, ":") \/ r[2] = 0 -> NoParse
          [] At(r[2], "}") -> <<<<"object", Present(members)>>, r[2] + 1>>
          [] At(r[2], ",") /\ At(r[2] + 1, "}") /\ options.ignore_trailing_commas ->
                <<<<"object", Present(members)>>, r[2] + 2>>
          [] At(r[2], ",") -> RefMembers(r[2] + 1, members)
          [] OTHER -> NoParse

\* The text is a value, followed in strict mode by its end.
WellFormed ==
    LET end == RefValue(1)[2]
    IN  end # 0 /\ (options.strict => At(end, "end"))

\* A value without the discarded members of its objects.
RECURSIVE Stripped(_)
Stripped(v) ==
    CASE v[1] = "array" -> <<"array", [i \in DOMAIN v[2] |-> Stripped(v[2][i])]>>
      [] v[1] = "object" -> LET m == Present(v[2])
                            IN <<"object", [k \in DOMAIN m |-> Stripped(m[k])]>>
      [] OTHER -> v

-----------------------------------------------------------------------------
(* Properties *)

\* The loop of sax_parse_internal accepts exactly the texts of the grammar:
\* its vector<bool> and its jumps to the state evaluation lose no context.
AcceptsTheGrammar == Done => (outcome = "value" <=> WellFormed)

\* parse leaves the value the text denotes (the last value of a repeated
\* key, elements in order, each in the container it was read in), or what
\* the callback kept of it, apart from discarded members that objects still
\* hold; and never half of a value: after an error it is discarded.
BuildsTheValue ==
    Done /\ options.consumer # "acceptor" =>
        /\ outcome = "failed" => sax.cells[Root] = DiscardedValue
        /\ outcome = "value" /\ options.consumer = "dom" => Built(sax, Root) = RefValue(1)[1]
        /\ outcome = "value" /\ options.consumer = "callback" =>
              LET kept == RefValue(1)[1]
              IN  Stripped(Built(sax, Root)) = IF kept = DiscardedValue THEN NullValue ELSE kept

\* Every call returns: each step reads a token, and a text has an end.
CallReturns == <>Done
=============================================================================
