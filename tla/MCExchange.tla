----------------------------- MODULE MCExchange -----------------------------
(***************************************************************************)
(* Documents for TLC: every kind of msg_id with every request type, and    *)
(* documents with a required field absent or of another JSON type.         *)
(***************************************************************************)
EXTENDS Exchange

Seeds == {1, 2, 3, 4}
\* A generator that also gives zero words.
Generator == <<<<258, 772>>, <<0, 772>>, <<65535, 0>>, <<0, 0>>>>

Num(n) == Json("number_unsigned", n)
Text(id) == encode_base64url(SnowflakeToBytes(id)).value

MsgIds ==
    {Num(n) : n \in {0, 1, 2, 255, 256, 65535}}
    \cup {Json("number_integer", n) : n \in {-1, -32768}}
    \cup {as_json_id(generate(s)) : s \in Seeds}
    \cup {Json("string", encode_base64url(Text(generate(s))).value) : s \in Seeds}
    \cup {Json("string", t) : t \in {<<>>, <<65>>, <<61, 61>>, <<65, 66, 67, 68, 69, 70>>,
                                     <<65, 66, 67, 68, 69, 95>>}}
    \cup {Json("array", a) : a \in {<<>>, <<Num(1)>>, <<Num(1), Num(2)>>,
                                    <<String(""), String("")>>}}
    \cup {Json(t, <<>>) : t \in {"null", "number_float", "boolean"}}

Types == {"init", "echo", "generate", "init_ok", "echo_ok", "generate_ok", "other"}

Doc(body) == Object([src |-> String("c1"), dest |-> String("n1"), body |-> body])
WithId(t, j) == Doc(Object([type |-> String(t), msg_id |-> j]))
WithReplyId(t, j) == Doc(Object([type |-> String(t), msg_id |-> Num(1), is_reply_to |-> j]))

SampleDocuments ==
    {WithId(t, j) : t \in Types, j \in MsgIds}
    \cup {WithReplyId("echo", j) : j \in MsgIds}
    \cup {Doc(Object([type |-> String(t)])) : t \in Types}
    \cup {Discarded, Json("array", <<>>), Doc(Json("null", <<>>)),
          Doc(Object([msg_id |-> Num(1)])), Doc(Object([type |-> Num(1)])),
          Object([src |-> Num(1), dest |-> String("n1"),
                  body |-> Object([type |-> String("echo")])]),
          Object([src |-> String("c1"), body |-> Object([type |-> String("echo")])]),
          Object([src |-> String("c1"), dest |-> String("n1")])}
=============================================================================
