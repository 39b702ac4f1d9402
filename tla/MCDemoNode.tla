----------------------------- MODULE MCDemoNode -----------------------------
(* The lines of the run of DemoNode. *)
EXTENDS DemoNode

Body(type, id) == [type |-> <<"string", type>>, msg_id |-> <<"number", id>>, echo |-> <<"string", "hi">>]
MessageLine(src, body) ==
    <<"object", [src |-> <<"string", src>>, dest |-> <<"string", "n1">>, body |-> <<"object", body>>]>>

InitBody == [type |-> <<"string", "init">>, msg_id |-> <<"number", 1>>, node_id |-> <<"string", "n1">>,
             node_ids |-> <<"array", << <<"string", "n1">>, <<"string", "n2">> >> >>]

Lines == {
    MessageLine("c1", InitBody),
    MessageLine("c1", [InitBody EXCEPT !.node_ids = <<"string", "n1">>]),
    MessageLine("c1", [InitBody EXCEPT !.node_id = <<"number", 7>>]),
    MessageLine("c1", Body("echo", 1)),
    MessageLine("c2", Body("echo", 2)),
    MessageLine("c1", [type |-> <<"string", "echo">>]),
    MessageLine("c2", [type |-> <<"string", "echo">>, in_reply_to |-> <<"number", 5>>]),
    MessageLine("c1", Body("read", 3)),
    MessageLine("c1", [Body("echo", 1) EXCEPT !.msg_id = <<"string", "one">>]),
    <<"object", [src |-> <<"string", "c1">>, body |-> <<"object", Body("echo", 1)>>]>>,
    NoObject, EmptyLine}

(* Up to three lines of any kind, or the init of a client and three more.   *)
LineInputs ==
    UNION {[1..k -> Lines] : k \in 0..3}
        \cup {<<MessageLine("c1", InitBody)>> \o more : more \in [1..3 -> Lines]}
=============================================================================
