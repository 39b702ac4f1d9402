------------------------------ MODULE DemoNode ------------------------------
(***************************************************************************)
(* The C++ demo node of demo/c++: main registers the echo handler, run()   *)
(* reads a line at a time, and a handler runs in a thread of std::async    *)
(* that the destructor of the returned future waits for.                   *)
(*                                                                         *)
(* A line is EmptyLine, NoObject (anything that is no JSON object) or      *)
(* <<"object", members>>.  A member is <<"string", s>>, <<"number", n>>,   *)
(* <<"array", items>> or again <<"object", members>>.                      *)
(***************************************************************************)
EXTENDS Integers, Sequences, FiniteSets

CONSTANTS
    \* the sequences of lines that stdin may hold
    Inputs,
    \* the largest int; as_int64 goes further
    IntMax

ASSUME DemoAssumption ==
    /\ IntMax \in Nat
    /\ \A lines \in Inputs : Len(lines) \in Nat /\ DOMAIN lines = 1..Len(lines)

VARIABLES
    input,      \* the lines of stdin
    next,       \* the line that is read next
    handlers,   \* _messageHandlers
    nodeId,     \* _nodeId: <<>> or <<id>>
    peerIds,
    request,    \* the Message that run() has on its stack
    handler,    \* the thread of std::async: "none", "running", "finished"
    pc,         \* main: "start", "reading", "dispatching", "waiting", "returned", "exited", "terminated"
    out         \* the messages written to stdout

vars == <<input, next, handlers, nodeId, peerIds, request, handler, pc, out>>

EmptyLine == <<"empty">>
NoObject == <<"other">>
NoMessage == [src |-> "", dest |-> "", type |-> "", body |-> <<>>, msgId |-> <<>>, inReplyTo |-> <<>>]

-----------------------------------------------------------------------------
(* Message *)

(* The conversion from int64 to int.                                        *)
Narrowed(n) == ((n + IntMax + 1) % (2 * (IntMax + 1))) - (IntMax + 1)

Holds(members, key, type) == key \in DOMAIN members /\ members[key][1] = type

(* An optional id of a body: <<>> when it is not there.                     *)
IdIn(body, key) == IF key \in DOMAIN body THEN <<Narrowed(body[key][2])>> ELSE <<>>

BodyOf(line) == line[2]["body"][2]

(* The constructor from a line throws unless this holds.                    *)
Parses(line) ==
    /\ line[1] = "object"
    /\ Holds(line[2], "src", "string") /\ Holds(line[2], "dest", "string")
    /\ Holds(line[2], "body", "object")
    /\ LET body == BodyOf(line)
       IN  /\ Holds(body, "type", "string")
           /\ \A key \in {"msg_id", "in_reply_to"} \cap DOMAIN body : body[key][1] = "number"

Parsed(line) ==
    LET body == BodyOf(line)
    IN  [src |-> line[2]["src"][2], dest |-> line[2]["dest"][2], type |-> body["type"][2], body |-> body,
         msgId |-> IdIn(body, "msg_id"), inReplyTo |-> IdIn(body, "in_reply_to")]

With(body, key, v) == [k \in DOMAIN body \cup {key} |-> IF k = key THEN v ELSE body[k]]
Without(body, key) == [k \in DOMAIN body \ {key} |-> body[k]]

(* The mutant control: the msg_id of the echoed body stays.                 *)
ReplyKeepingId(r, type, body) ==
    LET typed == With(body, "type", <<"string", type>>)
    IN  [src |-> r.dest, dest |-> r.src,
         body |-> IF r.msgId = <<>> THEN typed
                  ELSE With(typed, "in_reply_to", <<"number", r.msgId[1]>>)]

(* The message that a handler answers r with, from msgId = none and         *)
(* inReplyTo = r.getMsgId().                                                *)
Reply(r, type, body) ==
    LET typed == With(body, "type", <<"string", type>>)
    IN  [src |-> r.dest, dest |-> r.src,
         body |-> IF r.msgId = <<>> THEN typed
                  ELSE Without(With(typed, "in_reply_to", <<"number", r.msgId[1]>>), "msg_id")]

-----------------------------------------------------------------------------
(* Node *)

Init ==
    /\ input \in Inputs /\ next = 1
    /\ handlers = {} /\ nodeId = <<>> /\ peerIds = <<>>
    /\ request = NoMessage /\ handler = "none"
    /\ pc = "start" /\ out = <<>>

registerMessageHandler ==
    /\ pc = "start"
    /\ handlers' = handlers \cup {"echo"}
    /\ pc' = "reading"
    /\ UNCHANGED <<input, next, nodeId, peerIds, request, handler, out>>

(* getline: an empty line, as it also leaves at the end of the input.       *)
Line == IF next <= Len(input) THEN input[next] ELSE EmptyLine

run ==
    /\ pc = "reading"
    /\ next' = next + 1
    /\ \/ /\ Line[1] = "empty"
          /\ pc' = "returned" /\ UNCHANGED request
       \/ /\ Line[1] # "empty" /\ ~Parses(Line)
          /\ pc' = "terminated" /\ UNCHANGED request
       \/ /\ Parses(Line)
          /\ request' = Parsed(Line) /\ pc' = "dispatching"
    /\ UNCHANGED <<input, handlers, nodeId, peerIds, handler, out>>

Strings(items) == \A i \in DOMAIN items : items[i][1] = "string"

(* _nodeId is set before node_ids is read, which may throw.                 *)
_init ==
    /\ pc = "dispatching" /\ request.type = "init"
    /\ LET body == request.body
           named == nodeId = <<>> /\ Holds(body, "node_id", "string")
           complete == named /\ Holds(body, "node_ids", "array") /\ Strings(body["node_ids"][2])
       IN  /\ nodeId' = IF named THEN <<body["node_id"][2]>> ELSE nodeId
           /\ peerIds' = IF complete
                         THEN [i \in DOMAIN body["node_ids"][2] |-> body["node_ids"][2][i][2]]
                         ELSE peerIds
           /\ out' = IF complete THEN Append(out, Reply(request, "init_ok", <<>>)) ELSE out
           /\ pc' = IF complete THEN "reading" ELSE "terminated"
    /\ UNCHANGED <<input, next, handlers, request, handler>>

(* The mutant control: std::launch::deferred, and nobody calls get().       *)
Deferred ==
    /\ handler' = "none"
    /\ pc' = "reading"

(* The future is a temporary: its destructor waits for the thread.          *)
Launched ==
    /\ handler' = "running"
    /\ pc' = "waiting"

handleMessage ==
    /\ pc = "dispatching" /\ request.type # "init"
    /\ IF request.type \in handlers THEN Launched ELSE pc' = "terminated" /\ UNCHANGED handler
    /\ UNCHANGED <<input, next, handlers, nodeId, peerIds, request, out>>

(* EchoMessageHandler::handle, with the request by reference.               *)
handle ==
    /\ handler = "running"
    /\ out' = Append(out, Reply(request, "echo_ok", request.body))
    /\ handler' = "finished"
    /\ UNCHANGED <<input, next, handlers, nodeId, peerIds, request, pc>>

Joined ==
    /\ pc = "waiting" /\ handler = "finished"
    /\ handler' = "none"
    /\ pc' = "reading"
    /\ UNCHANGED <<input, next, handlers, nodeId, peerIds, request, out>>

(* The return of main.                                                      *)
Exit ==
    /\ pc = "returned"
    /\ pc' = "exited"
    /\ UNCHANGED <<input, next, handlers, nodeId, peerIds, request, handler, out>>

MainThread == registerMessageHandler \/ run \/ _init \/ handleMessage \/ Joined \/ Exit

Next == MainThread \/ handle

Fairness == WF_vars(MainThread) /\ WF_vars(handle)

Spec == Init /\ [][Next]_vars /\ Fairness

-----------------------------------------------------------------------------
(* Properties *)

(* The lines that parse as messages, and those that run() has begun.        *)
Requests == {k \in DOMAIN input : Parses(input[k])}
Begun == {k \in Requests : k < next}

Answers(k, reply) ==
    LET body == BodyOf(input[k])
        type == body["type"][2]
    IN  /\ reply.dest = input[k][2]["src"][2] /\ reply.src = input[k][2]["dest"][2]
        /\ <<type, reply.body["type"][2]>> \in {<<"init", "init_ok">>, <<"echo", "echo_ok">>}
        /\ "msg_id" \in DOMAIN body =>
                /\ Holds(reply.body, "in_reply_to", "number")
                /\ reply.body["in_reply_to"][2] = body["msg_id"][2]
                /\ "msg_id" \notin DOMAIN reply.body
        /\ type = "echo" /\ "echo" \in DOMAIN body => reply.body["echo"] = body["echo"]

(* The replies answer the requests one to one in the order of the lines,    *)
(* although each echo is written by another thread that holds a reference   *)
(* to main's request; main never begins a line before the last is answered. *)
RepliesInOrder ==
    LET kth(k) == Cardinality({i \in Requests : i <= k})
    IN  /\ Len(out) <= Cardinality(Begun)
        /\ \A k \in Begun : kth(k) <= Len(out) => Answers(k, out[kth(k)])
        /\ pc \in {"reading", "returned", "exited"} => Len(out) = Cardinality(Begun)

(* An init first, then only echo requests.                                  *)
Orderly ==
    \A k \in DOMAIN input :
        /\ Parses(input[k])
        /\ LET body == BodyOf(input[k])
           IN  IF k > 1 THEN body["type"][2] = "echo"
               ELSE /\ body["type"][2] = "init" /\ Holds(body, "node_id", "string")
                    /\ Holds(body, "node_ids", "array") /\ Strings(body["node_ids"][2])

(* Every request of a well-behaved client is answered and main returns.     *)
AnswersAll == Orderly ~> (pc = "exited" /\ Len(out) = Len(input))
=============================================================================
