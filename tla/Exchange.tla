------------------------------ MODULE Exchange ------------------------------
(***************************************************************************)
(* One request and its response, as JSON documents between two programs    *)
(* built from the Message class: a peer sends a document, the node parses  *)
(* it and makes the response, the peer parses the response.                *)
(***************************************************************************)
EXTENDS Message

CONSTANT Documents      \* the lines the peer may send

\* A JSON value that can stand for an id: an integer, a text, or anything
\* else that is neither.
IsId(j) ==
    /\ j = Json(type_of(j), get(j))
    /\ type_of(j) = "number_unsigned" => get(j) \in Word
    /\ type_of(j) = "number_integer" => get(j) \in -(Power256[WordBytes] \div 2) .. 0
    /\ type_of(j) = "string" => get(j) \in Seq(Byte)

ASSUME DocumentsAssumption ==
    \A doc \in Documents :
        RequiredFieldsPresent(doc) /\ contains(field(doc, "body"), "msg_id")
            => IsId(field(field(doc, "body"), "msg_id"))

VARIABLES
    request,    \* the document sent
    message,    \* what Message::parse made of it
    reply,      \* the response's document
    received    \* what Message::parse made of that

vars == <<request, message, reply, received>>

None == Json("none", <<>>)

Init ==
    /\ request = None
    /\ message = NullOpt
    /\ reply = None
    /\ received = NullOpt

Send(doc) ==
    /\ request = None
    /\ request' = doc
    /\ UNCHANGED <<message, reply, received>>

Parse ==
    /\ request # None
    /\ message = NullOpt
    /\ message' = parse(request)
    /\ UNCHANGED <<request, reply, received>>

Respond(seed) ==
    /\ message.outcome = "value"
    /\ reply = None
    /\ message.value.type \in DOMAIN response_type
    /\ reply' = as_json(create_response(message.value, seed))
    /\ UNCHANGED <<request, message, received>>

ParseReply ==
    /\ reply # None
    /\ received = NullOpt
    /\ received' = parse(reply)
    /\ UNCHANGED <<request, message, reply>>

Next ==
    \/ \E doc \in Documents : Send(doc)
    \/ Parse
    \/ \E seed \in random_device : Respond(seed)
    \/ ParseReply

Spec == Init /\ [][Next]_vars

-----------------------------------------------------------------------------
(* Properties *)

\* The program reads its own responses: parse accepts them, with the type
\* that answers the request, the addresses exchanged and the id that
\* generate_64 drew, also when that id is zero and was left out.
OwnRepliesParse ==
    reply # None =>
        LET r == parse(reply) IN
        /\ r.outcome = "value"
        /\ r.value.type = response_type[message.value.type]
        /\ r.value.from = message.value.to
        /\ r.value.to = message.value.from
        /\ \E seed \in random_device : r.value.id = generate_64(seed)

\* The msg_id of the request, absent or not.
RequestId == field(field(request, "body"), "msg_id")
HasRequestId == contains(field(request, "body"), "msg_id")

\* The ids for which a client must get its msg_id back: the numbers from 1
\* on, and what Snowflake::as_json writes for a valid id.
Echoable(j) ==
    \/ type_of(j) = "number_unsigned" /\ get(j) \in Word \ {0}
    \/ /\ type_of(j) = "string"
       /\ \E seed \in random_device :
             is_valid(generate(seed)) /\ j = as_json_id(generate(seed))

\* A response carries the request's msg_id in in_reply_to, in the form in
\* which the client sent it: from_json and as_json are inverse on the ids
\* clients and this program use.
ReplyNamesRequest ==
    reply # None /\ HasRequestId /\ Echoable(RequestId) =>
        /\ contains(field(reply, "body"), "in_reply_to")
        /\ field(field(reply, "body"), "in_reply_to") = RequestId

\* The id that a JSON value denotes by definition, not by from_json: a
\* number is the first word; a text is the Base64 of the bytes of both
\* words, or the Base64 of that text.
IdBytes(t) ==
    IF Len(RefDecode(t)) = 2 * WordBytes THEN RefDecode(t) ELSE RefDecode(RefDecode(t))

DenotesId(j) ==
    \/ type_of(j) = "number_unsigned" /\ get(j) \in Word
    \/ /\ type_of(j) = "string" /\ IsText(get(j))
       /\ Len(RefDecode(get(j))) # 2 * WordBytes => IsText(RefDecode(get(j)))
       /\ Len(IdBytes(get(j))) = 2 * WordBytes

IdMeant(j) ==
    IF type_of(j) = "string" THEN BytesToSnowflake(IdBytes(get(j))) ELSE MakeSnowflake(get(j), 0)

\* A response names only the id of its request, though it may write it in
\* another form: what is no usable id (zero, an array, a float, a text that
\* is not an id) names no request at all.  The exception is a negative
\* number, which comes back as another number, the one its bits make when
\* they are read as unsigned.
NoFalseCorrelation ==
    reply # None /\ contains(field(reply, "body"), "in_reply_to") =>
        LET r == field(field(reply, "body"), "in_reply_to")
            j == RequestId
        IN  /\ HasRequestId
            /\ DenotesId(r) /\ IdMeant(r) # invalid_snowflake
            /\ \/ DenotesId(j) /\ IdMeant(r) = IdMeant(j)
               \/ /\ type_of(j) = "number_integer" /\ get(j) < 0
                  /\ IdMeant(r) = MakeSnowflake(get(j) + Power256[WordBytes], 0)
=============================================================================
