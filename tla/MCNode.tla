------------------------------- MODULE MCNode -------------------------------
(***************************************************************************)
(* Instances of Node for TLC: the lines the runs feed to the node.         *)
(***************************************************************************)
EXTENDS Node

Num(n) == Json("number_unsigned", n)
Names(s) == Json("array", [i \in DOMAIN s |-> String(s[i])])

Line(src, body) == Object([src |-> String(src), dest |-> String("n1"), body |-> Object(body)])

\* test/sample-init.txt, sample-echo.txt and sample-generate.txt.
InitLine == Line("c0", [type |-> String("init"), msg_id |-> Num(1),
                        node_id |-> String("n1"), node_ids |-> Names(<<"n1">>)])
EchoLine == Line("c1", [type |-> String("echo"), msg_id |-> Num(2), echo |-> String("x")])
GenerateLine == Line("c2", [type |-> String("generate"), msg_id |-> Num(3)])

\* Another identity, in a longer list.
OtherInitLine == Line("c0", [type |-> String("init"), msg_id |-> Num(4),
                             node_id |-> String("n2"),
                             node_ids |-> Names(<<"n1", "n2">>)])
NamelessInitLine == Line("c0", [type |-> String("init")])
ForeignInitLine == Line("c0", [type |-> String("init"), msg_id |-> Num(5),
                               node_id |-> String("n3"), node_ids |-> Names(<<"n1">>)])
EmptyIdInitLine == Line("c0", [type |-> String("init"), node_id |-> String(""),
                               node_ids |-> Names(<<"">>)])
ListlessInitLine == Line("c0", [type |-> String("init"), node_id |-> String("n1")])
EmptyEchoLine == Line("c1", [type |-> String("echo"), msg_id |-> Num(0)])
ReplyLine == Line("c1", [type |-> String("echo_ok"), msg_id |-> Num(6)])
ArrayIdLine == Line("c1", [type |-> String("echo"),
                           msg_id |-> Json("array", <<String(""), String("")>>)])

Inits == {InitLine, OtherInitLine}
\* Two identities and a request.
WorkloadLines == Inits \cup {EchoLine}
\* Requests, and lines that are dropped, answered in another way, or abort the process.
OddLines == Inits \cup {EchoLine, GenerateLine, ForeignInitLine, EmptyIdInitLine, NamelessInitLine,
                       ListlessInitLine, EmptyEchoLine, ReplyLine, ArrayIdLine, Discarded}

Seeds == {1}
Generator == [s \in Seeds |-> <<7, 9>>]
=============================================================================
