----------------------------- MODULE JsonParser -----------------------------
(***************************************************************************)
(* class parser of ext/nlohmann/json.hpp: the loop of sax_parse_internal,  *)
(* which reads tokens one at a time and tells a SAX consumer what they     *)
(* mean, and the entry points parse, accept and sax_parse around it.       *)
(*                                                                         *)
(* A step is the code between two calls of get_token.  The tokens are      *)
(* chosen as they are read: every text is a behaviour.  All literals and   *)
(* finite numbers are one token, "literal": the loop hands them over the   *)
(* same way.  "infinite" is a number too large for a double, "error" what  *)
(* the lexer returns for bytes that are no token.                          *)
(***************************************************************************)
EXTENDS JsonDom

CONSTANTS
    Strings,    \* the strings of a text, in the order of a map's keys
    Options,    \* how parse, accept or sax_parse may be called
    Shapes      \* bound: the tokens that texts may have, at each position

StringTokens == {<<"string", Strings[i]>> : i \in DOMAIN Strings}
Token ==
    StringTokens \cup
    {<<t>> : t \in {"{", "}", "[", "]", ",", ":", "literal", "infinite", "error", "end"}}

ASSUME ParserAssumption ==
    /\ Strings \in Seq(STRING)
    /\ Options \subseteq [consumer : {"dom", "callback", "acceptor"}, strict : BOOLEAN,
                          allow_exceptions : BOOLEAN, ignore_trailing_commas : BOOLEAN]
    /\ \A shape \in Shapes : shape \in Seq(SUBSET Token)

VARIABLES
    form,       \* the shape of the text
    options,    \* the arguments of the call
    pc,         \* where the loop waits for the next token
    states,     \* the containers that are open: TRUE for an array
    sax,        \* the consumer
    input,      \* the tokens read so far
    keeps,      \* what the callback returned, per token
    outcome     \* what the call returned or threw

vars == <<form, options, pc, states, sax, input, keeps, outcome>>

IsString(token) == token[1] = "string"

Init ==
    /\ form \in Shapes
    /\ options \in Options
    /\ pc = "value"
    /\ states = <<>>
    /\ sax = NewConsumer
    /\ input = <<>>
    /\ keeps = <<>>
    /\ outcome = "none"

\* get_token.  Past its end a text stays at its end.
NextTokens ==
    IF Len(input) >= Len(form) \/ (input # <<>> /\ Last(input) = <<"end">>) THEN {<<"end">>}
    ELSE form[Len(input) + 1] \cup {<<"end">>}

-----------------------------------------------------------------------------
(* The consumer's events *)

Value(s, v, keep) ==
    CASE options.consumer = "dom" -> DomValue(s, v)
      [] options.consumer = "callback" -> CallbackValue(s, v, keep)
      [] OTHER -> s

StartContainer(s, empty, keep) ==
    CASE options.consumer = "dom" -> DomStart(s, empty)
      [] options.consumer = "callback" -> CallbackStart(s, empty, keep)
      [] OTHER -> s

Key(s, key, keep) ==
    CASE options.consumer = "dom" -> DomKey(s, key)
      [] options.consumer = "callback" -> CallbackKey(s, key, keep)
      [] OTHER -> s

EndArray(s, keep) ==
    CASE options.consumer = "dom" -> DomEnd(s)
      [] options.consumer = "callback" -> CallbackEndArray(s, keep)
      [] OTHER -> s

EndObject(s, keep) ==
    CASE options.consumer = "dom" -> DomEnd(s)
      [] options.consumer = "callback" -> CallbackEndObject(s, keep, Strings)
      [] OTHER -> s

-----------------------------------------------------------------------------
(* sax_parse_internal *)

\* The state evaluation after a value: done, or on to a comma or a bracket.
AfterValue(open) ==
    /\ states' = open
    /\ pc' = IF open = <<>> THEN "strict" ELSE "comma"

\* The acceptor's parse_error does not throw.
Throws == options.allow_exceptions /\ options.consumer # "acceptor"

\* parse_error: thrown to the caller, or the loop returns false.
Fail ==
    /\ sax' = ConsumerError(sax)
    /\ IF Throws
       THEN pc' = "done" /\ outcome' = "thrown"
       ELSE pc' = "failed" /\ outcome' = outcome
    /\ UNCHANGED states

ReadLeaf(token, keep, open) ==
    /\ token[1] \in {"literal", "string"}
    /\ sax' = Value(sax, Leaf(token), keep)
    /\ AfterValue(open)
    /\ UNCHANGED outcome

OpenObject(token, keep, open) ==
    /\ token = <<"{">>
    /\ sax' = StartContainer(sax, EmptyObject, keep)
    /\ pc' = "first key"
    /\ states' = open
    /\ UNCHANGED outcome

OpenArray(token, keep, open) ==
    /\ token = <<"[">>
    /\ sax' = StartContainer(sax, EmptyArray, keep)
    /\ pc' = "first element"
    /\ states' = open
    /\ UNCHANGED outcome

\* The switch over last_token.  A non-finite number, the end of the input,
\* an invalid token and punctuation are errors.
ReadValue(token, keep, open) ==
    \/ ReadLeaf(token, keep, open)
    \/ OpenObject(token, keep, open)
    \/ OpenArray(token, keep, open)
    \/ /\ token[1] \notin {"literal", "string", "{", "["}
       /\ Fail

ReadKey(token, keep, colon) ==
    /\ sax' = Key(sax, token[2], keep)
    /\ pc' = colon
    /\ UNCHANGED <<states, outcome>>

CloseArray(keep, open) ==
    /\ sax' = EndArray(sax, keep)
    /\ AfterValue(open)
    /\ UNCHANGED outcome

CloseObject(keep, open) ==
    /\ sax' = EndObject(sax, keep)
    /\ AfterValue(open)
    /\ UNCHANGED outcome

\* After "[": the empty array, or its first element.
FirstElement(token, keep) ==
    /\ pc = "first element"
    /\ IF token = <<"]">> THEN CloseArray(keep, states)
       ELSE ReadValue(token, keep, Append(states, TRUE))

\* After "{": the empty object, or its first key.
FirstKey(token, keep) ==
    /\ pc = "first key"
    /\ IF token = <<"}">> THEN CloseObject(keep, states)
       ELSE IF IsString(token) THEN ReadKey(token, keep, "first colon")
       ELSE Fail

\* After a key.  The object is open once its first colon has been read.
Colon(token) ==
    /\ pc \in {"first colon", "colon"}
    /\ IF token = <<":">>
       THEN /\ pc' = "value"
            /\ states' = IF pc = "first colon" THEN Append(states, FALSE) ELSE states
            /\ UNCHANGED <<sax, outcome>>
       ELSE Fail

\* A value that neither opens an array nor follows a trailing comma.
PlainValue(token, keep) ==
    /\ pc = "value"
    /\ ReadValue(token, keep, states)

\* A mutant: the bracket is not compared with the container it closes.
AnyBracket(token, keep) ==
    /\ pc = "comma"
    /\ CASE token = <<",">> ->
              /\ pc' = IF Last(states) THEN "next element" ELSE "next key"
              /\ UNCHANGED <<states, sax, outcome>>
         [] token \in {<<"]">>, <<"}">>} ->
              IF Last(states) THEN CloseArray(keep, Front(states))
              ELSE CloseObject(keep, Front(states))
         [] OTHER -> Fail

\* After an element: a comma, or the bracket of the innermost container.
Comma(token, keep) ==
    /\ pc = "comma"
    /\ CASE token = <<",">> ->
              /\ pc' = IF Last(states) THEN "next element" ELSE "next key"
              /\ UNCHANGED <<states, sax, outcome>>
         [] Last(states) /\ token = <<"]">> -> CloseArray(keep, Front(states))
         [] ~Last(states) /\ token = <<"}">> -> CloseObject(keep, Front(states))
         [] OTHER -> Fail

\* After a comma: the container may end here if trailing commas are ignored.
NextElement(token, keep) ==
    /\ pc = "next element"
    /\ IF options.ignore_trailing_commas /\ token = <<"]">>
       THEN CloseArray(keep, Front(states))
       ELSE ReadValue(token, keep, states)

\* A mutant: after a comma nothing but a key is handled.
KeyOnly(token, keep) ==
    /\ pc = "next key"
    /\ IsString(token)
    /\ ReadKey(token, keep, "colon")

NextKey(token, keep) ==
    /\ pc = "next key"
    /\ IF options.ignore_trailing_commas /\ token = <<"}">>
       THEN CloseObject(keep, Front(states))
       ELSE IF IsString(token) THEN ReadKey(token, keep, "colon")
       ELSE Fail

-----------------------------------------------------------------------------
(* parse and sax_parse *)

\* What parse leaves in result: discarded after an error, null if the
\* callback discarded all of it.
Result(s) ==
    IF s.errored THEN Assign(s, Root, DiscardedValue)
    ELSE IF s.cells[Root] = DiscardedValue THEN Assign(s, Root, NullValue)
    ELSE s

\* The call returns, or throws the error found after the value.
Return(bad) ==
    LET left == IF bad THEN ConsumerError(sax) ELSE sax IN
    /\ sax' = IF options.consumer = "acceptor" THEN left ELSE Result(left)
    /\ outcome' = IF ~bad THEN "value"
                  ELSE IF pc = "strict" /\ Throws THEN "thrown"
                  ELSE "failed"
    /\ pc' = "done"
    /\ UNCHANGED states

\* In strict mode one more token is read: by parse even after an error that
\* was not thrown, by sax_parse only after a value.
ChecksEnd == options.strict /\ (pc = "strict" \/ options.consumer # "acceptor")

StrictCheck(token) ==
    /\ pc \in {"strict", "failed"}
    /\ ChecksEnd
    /\ Return(pc = "failed" \/ token # <<"end">>)

ReturnUnchecked ==
    /\ pc \in {"strict", "failed"}
    /\ ~ChecksEnd
    /\ Return(pc = "failed")
    /\ UNCHANGED <<form, options, input, keeps>>

Step(token, keep) ==
    \/ PlainValue(token, keep)
    \/ FirstElement(token, keep)
    \/ FirstKey(token, keep)
    \/ Colon(token)
    \/ Comma(token, keep)
    \/ NextElement(token, keep)
    \/ NextKey(token, keep)
    \/ StrictCheck(token)

\* The callback's answers, for the tokens that may lead to a call of it.
Answers(token) ==
    IF options.consumer = "callback" /\ token[1] \in {"literal", "string", "{", "[", "]", "}"}
    THEN BOOLEAN ELSE {TRUE}

ReadToken ==
    \E token \in NextTokens : \E keep \in Answers(token) :
        /\ Step(token, keep)
        /\ input' = Append(input, token)
        /\ keeps' = Append(keeps, keep)
        /\ UNCHANGED <<form, options>>

Next == ReadToken \/ ReturnUnchecked

Spec == Init /\ [][Next]_vars /\ WF_vars(Next)

-----------------------------------------------------------------------------
(* Properties (those that need a reference are in JsonGrammar) *)

Done == pc = "done"

\* The addresses of the elements of an array, of the members of an object.
Children(v) ==
    IF v[1] \in {"array", "object"} THEN {v[2][i] : i \in DOMAIN v[2]} ELSE {}

Owns(cells, p, q) == p \in DOMAIN cells /\ q \in Children(cells[p])

\* A value is read next that the builder will assign to object_element.
AwaitsMember ==
    /\ pc \in {"first colon", "colon"} \/ (pc = "value" /\ states # <<>>)
    /\ Last(sax.ref_stack) # NullPtr
    /\ options.consumer = "callback" => Last(sax.key_keep_stack)

\* The pointers a builder will follow point into the value, although
\* emplace_back moves elements and frees their storage, and an assignment
\* destroys what was there: each open container is a container and part of
\* the one around it, up to the root, and the element of a key whose value
\* is awaited is part of the innermost one.
PointersStayValid ==
    options.consumer # "acceptor" /\ ~Done =>
        /\ \A i \in DOMAIN sax.ref_stack :
              LET p == sax.ref_stack[i] IN
              p # NullPtr =>
                 /\ IF i = 1 THEN p = Root ELSE Owns(sax.cells, sax.ref_stack[i - 1], p)
                 /\ p \in DOMAIN sax.cells
                 /\ IsArrayCell(sax, p) \/ IsObjectCell(sax, p)
        /\ options.consumer = "dom" => \A i \in DOMAIN sax.ref_stack : sax.ref_stack[i] # NullPtr
        /\ AwaitsMember => /\ Owns(sax.cells, Last(sax.ref_stack), sax.object_element)
                           /\ sax.object_element \in DOMAIN sax.cells
=============================================================================
