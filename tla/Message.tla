------------------------------ MODULE Message ------------------------------
(***************************************************************************)
(* src/common/message.h and message.cpp: the types of messages, how a      *)
(* line of input becomes a Message, and how a response is made and turned  *)
(* into JSON again.                                                        *)
(*                                                                         *)
(* A JSON object is Json("object", f), f being a function whose domain is  *)
(* the set of the object's keys.  The text of a line is either such a      *)
(* value or Discarded, the result of json::parse for malformed text.       *)
(***************************************************************************)
EXTENDS Snowflake

MessageType == {"INVALID", "INIT_REQ", "INIT_RES", "ECHO_REQ", "ECHO_RES",
                "GENERATE_REQ", "GENERATE_RES"}

message_type_to_string ==
    [INIT_REQ |-> "init", INIT_RES |-> "init_ok", ECHO_REQ |-> "echo",
     ECHO_RES |-> "echo_ok", GENERATE_REQ |-> "generate",
     GENERATE_RES |-> "generate_ok", INVALID |-> ""]

\* A mutant: the conversion table has no entries for responses.
RequestTypeFromString(raw) ==
    CASE raw = "init" -> "INIT_REQ" [] raw = "echo" -> "ECHO_REQ"
      [] raw = "generate" -> "GENERATE_REQ" [] OTHER -> "INVALID"

\* The conversion table of the code, which has no entry for INVALID.
message_type_from_string(raw) ==
    LET matches == {t \in MessageType \ {"INVALID"} : message_type_to_string[t] = raw}
    IN  IF matches = {} THEN "INVALID" ELSE CHOOSE t \in matches : TRUE

-----------------------------------------------------------------------------
(* nlohmann::json, of which a value is its type and its content *)

Discarded == Json("discarded", <<>>)
String(s) == Json("string", s)
Object(f) == Json("object", f)
is_string(j) == type_of(j) = "string"
is_object(j) == type_of(j) = "object"
contains(j, key) == is_object(j) /\ key \in DOMAIN get(j)
field(j, key) == get(j)[key]
set_field(j, key, v) ==
    Object([k \in DOMAIN get(j) \cup {key} |-> IF k = key THEN v ELSE get(j)[k]])

-----------------------------------------------------------------------------

\* The body is null until the first field is written to it.
BodyOf(fields) == IF DOMAIN fields = {} THEN Json("null", <<>>) ELSE Object(fields)

\* The fields the constructor writes to the body: the type and the ids that
\* are valid.
BodyFields(type, id, reply_id) ==
    LET value == [type |-> String(message_type_to_string[type]), msg_id |-> as_json_id(id),
                  in_reply_to |-> as_json_id(reply_id)]
        present == [type |-> type # "INVALID", msg_id |-> is_valid(id),
                    in_reply_to |-> is_valid(reply_id)]
    IN  [key \in {k \in DOMAIN present : present[k]} |-> value[key]]

\* The constructor with ids and addresses, body included.
MakeMessage(type, id, reply_id, from, to) ==
    [type |-> type, id |-> id, reply_id |-> reply_id, from |-> from, to |-> to,
     body |-> BodyOf(BodyFields(type, id, reply_id))]

\* The default constructor: handlers return it to say "no response".
NoMessage == [type |-> "INVALID", id |-> invalid_snowflake, reply_id |-> invalid_snowflake,
              from |-> "", to |-> "", body |-> Json("null", <<>>)]

\* A required field is missing or has another JSON type.
RequiredFieldsPresent(j) ==
    /\ contains(j, "src") /\ is_string(field(j, "src"))
    /\ contains(j, "dest") /\ is_string(field(j, "dest"))
    /\ contains(j, "body") /\ is_object(field(j, "body"))
    /\ contains(field(j, "body"), "type") /\ is_string(field(field(j, "body"), "type"))

\* Snowflake::from_json(body[key]).value_or(invalid()), or invalid() for an
\* absent key.
ValueOrInvalid(id) == IF id.outcome = "nullopt" THEN Some(invalid_snowflake) ELSE id

IdField(body, key) ==
    IF contains(body, key) THEN ValueOrInvalid(from_json_id(field(body, key)))
    ELSE Some(invalid_snowflake)

\* The message of a document whose type and ids have been converted; its
\* body is the document's.
FromFields(j, type, id, reply_id) ==
    IF Aborted \in {id, reply_id} THEN Aborted
    ELSE IF type = "INVALID" THEN NullOpt
    ELSE Some([type |-> type, id |-> id.value, reply_id |-> reply_id.value,
               from |-> get(field(j, "src")), to |-> get(field(j, "dest")),
               body |-> field(j, "body")])

\* msg_id and the reply id are converted before the type is looked at.  The
\* reply id is read from the key "is_reply_to".
from_json(j) ==
    IF ~RequiredFieldsPresent(j) THEN NullOpt
    ELSE FromFields(j, message_type_from_string(get(field(field(j, "body"), "type"))),
                    IdField(field(j, "body"), "msg_id"),
                    IdField(field(j, "body"), "is_reply_to"))

parse(raw) == IF type_of(raw) = "discarded" THEN NullOpt ELSE from_json(raw)

response_type == [INIT_REQ |-> "INIT_RES", ECHO_REQ |-> "ECHO_RES",
                  GENERATE_REQ |-> "GENERATE_RES"]

\* A mutant: the response keeps the direction of the request.
UnswappedResponse(msg, seed) ==
    IF msg.type \notin DOMAIN response_type THEN NoMessage
    ELSE MakeMessage(response_type[msg.type], generate_64(seed), msg.id, msg.from, msg.to)

\* seed is what std::random_device gives to generate_64.
create_response(msg, seed) ==
    IF msg.type \notin DOMAIN response_type THEN NoMessage
    ELSE MakeMessage(response_type[msg.type], generate_64(seed), msg.id, msg.to, msg.from)

as_json(msg) ==
    Object([src |-> String(msg.from), dest |-> String(msg.to), body |-> msg.body])
=============================================================================
