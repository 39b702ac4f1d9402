---------------------------- MODULE MCJsonParser ----------------------------
(* Calls of the parser and shapes of texts over two keys, for TLC. *)
EXTENDS JsonGrammar

Keys == <<"a", "b">>
Call(c, s, e, t) ==
    [consumer |-> c, strict |-> s, allow_exceptions |-> e, ignore_trailing_commas |-> t]

\* json::parse(line) as the node calls it, and the other ways to call it.
PlainCalls ==
    {Call("dom", TRUE, TRUE, FALSE), Call("dom", TRUE, FALSE, FALSE),
     Call("dom", FALSE, FALSE, TRUE), Call("acceptor", TRUE, TRUE, FALSE),
     Call("acceptor", FALSE, TRUE, TRUE)}

CallbackCalls == {Call("callback", TRUE, FALSE, FALSE)}
AllCalls == PlainCalls \cup CallbackCalls

\* Every text of up to seven tokens.
ShortTexts == [i \in 1..7 |-> Token]

T(t) == {<<t>>}
AnyKey == StringTokens
InObjects == AnyKey \cup T("literal") \cup T("{") \cup T("}") \cup T(",") \cup T(":")

\* Objects of up to two members, of one key or two, and objects in them.
Members == <<T("{"), {<<"string", "a">>}, T(":")>> \o [i \in 1..6 |-> InObjects]

\* An object with a member of its own, as the first of two members.
Nested ==
    <<T("{"), {<<"string", "a">>}, T(":"), T("{"), AnyKey, T(":"), T("literal") \cup T("["),
      T("}") \cup T("]"), T(",") \cup T("}"), AnyKey \cup T(","), T(":") \cup AnyKey,
      T("literal") \cup T(":"), T("}") \cup T("literal"), T("}")>>

AllShapes == {ShortTexts, Members, Nested}
=============================================================================
