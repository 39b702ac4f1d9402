---------------------------- MODULE DemoNodeProof ----------------------------
(***************************************************************************)
(* The replies of the demo node answer its requests one to one and in the  *)
(* order of the lines, for every input, although another thread writes     *)
(* them.                                                                   *)
(***************************************************************************)
EXTENDS DemoNode, FiniteSetTheorems, TLAPS

-----------------------------------------------------------------------------
(* Ids *)

\* The ids of the input are ints: a larger one comes back narrowed.
IdsFit ==
    \A lines \in Inputs : \A k \in DOMAIN lines :
        Parses(lines[k]) /\ "msg_id" \in DOMAIN BodyOf(lines[k]) =>
            BodyOf(lines[k])["msg_id"][2] \in -(IntMax + 1)..IntMax

\* What is smaller than the divisor is its own remainder.
LEMMA SmallRemainder ==
    ASSUME NEW x \in Nat, NEW y \in Nat, x < y
    PROVE  x % y = x
    BY SMT

\* The conversion to int keeps an int.
LEMMA NarrowedKeepsInts ==
    ASSUME NEW n \in -(IntMax + 1)..IntMax
    PROVE  Narrowed(n) = n
    <1> DEFINE x == n + IntMax + 1
               y == 2 * (IntMax + 1)
    <1>1. IntMax \in Nat BY DemoAssumption
    <1>2. x \in Nat /\ y \in Nat /\ x < y /\ x - (IntMax + 1) = n BY <1>1
    <1>3. Narrowed(n) = (x % y) - (IntMax + 1) BY DEF Narrowed
    <1> HIDE DEF x, y
    <1>4. x % y = x BY <1>2, SmallRemainder
    <1> QED BY <1>2, <1>3, <1>4

-----------------------------------------------------------------------------
(* Replies *)

\* The replies that the handlers make to the line k.
InitReply(k) == Reply(Parsed(input[k]), "init_ok", <<>>)
EchoReply(k) == Reply(Parsed(input[k]), "echo_ok", Parsed(input[k]).body)

\* The id of a request.
LEMMA ParsedId ==
    ASSUME IdsFit, input \in Inputs, NEW k \in Requests
    PROVE  LET body == BodyOf(input[k])
           IN  IF "msg_id" \in DOMAIN body
               THEN Parsed(input[k]).msgId = <<body["msg_id"][2]>>
               ELSE Parsed(input[k]).msgId = <<>>
    <1> DEFINE body == BodyOf(input[k])
    <1>1. k \in DOMAIN input /\ Parses(input[k]) BY DEF Requests
    <1>2. Parsed(input[k]).msgId = IdIn(body, "msg_id") BY DEF Parsed
    <1>3. CASE "msg_id" \in DOMAIN body
        <2>1. body["msg_id"][2] \in -(IntMax + 1)..IntMax BY <1>1, <1>3 DEF IdsFit
        <2>2. Narrowed(body["msg_id"][2]) = body["msg_id"][2] BY <2>1, NarrowedKeepsInts
        <2> QED BY <1>2, <1>3, <2>2 DEF IdIn
    <1>4. CASE "msg_id" \notin DOMAIN body BY <1>2, <1>4 DEF IdIn
    <1> QED BY <1>3, <1>4

\* What Reply makes of a body.
LEMMA ReplyFacts ==
    ASSUME NEW r, NEW type, NEW body
    PROVE  LET reply == Reply(r, type, body)
           IN  /\ reply.src = r.dest /\ reply.dest = r.src
               /\ "type" \in DOMAIN reply.body
               /\ reply.body["type"] = <<"string", type>>
               /\ "echo" \in DOMAIN body => reply.body["echo"] = body["echo"]
               /\ r.msgId # <<>> =>
                    /\ "in_reply_to" \in DOMAIN reply.body
                    /\ reply.body["in_reply_to"] = <<"number", r.msgId[1]>>
                    /\ "msg_id" \notin DOMAIN reply.body
    <1> DEFINE typed == With(body, "type", <<"string", type>>)
               named == With(typed, "in_reply_to", <<"number", r.msgId[1]>>)
               bare == Without(named, "msg_id")
    <1>1. /\ DOMAIN typed = DOMAIN body \cup {"type"}
          /\ typed["type"] = <<"string", type>>
          /\ "echo" \in DOMAIN body => typed["echo"] = body["echo"]
        BY DEF With
    <1>2. Reply(r, type, body) = [src |-> r.dest, dest |-> r.src,
                                  body |-> IF r.msgId = <<>> THEN typed ELSE bare]
        BY DEF Reply
    <1> HIDE DEF typed
    <1>3. /\ DOMAIN named = DOMAIN typed \cup {"in_reply_to"}
          /\ named["in_reply_to"] = <<"number", r.msgId[1]>>
          /\ named["type"] = typed["type"]
          /\ "echo" \in DOMAIN typed => named["echo"] = typed["echo"]
        BY <1>1 DEF With
    <1> HIDE DEF named
    <1>4. /\ DOMAIN bare = DOMAIN named \ {"msg_id"}
          /\ \A key \in DOMAIN bare : bare[key] = named[key]
        BY DEF Without
    <1> HIDE DEF bare
    <1>5. /\ "in_reply_to" \in DOMAIN bare /\ "type" \in DOMAIN bare
          /\ "msg_id" \notin DOMAIN bare
          /\ "echo" \in DOMAIN body => "echo" \in DOMAIN bare
        BY <1>1, <1>3, <1>4
    <1>6. /\ bare["in_reply_to"] = <<"number", r.msgId[1]>>
          /\ bare["type"] = <<"string", type>>
          /\ "echo" \in DOMAIN body => bare["echo"] = body["echo"]
        BY <1>1, <1>3, <1>4, <1>5
    <1>7. CASE r.msgId = <<>> BY <1>1, <1>2, <1>7
    <1>8. CASE r.msgId # <<>> BY <1>2, <1>5, <1>6, <1>8
    <1> QED BY <1>7, <1>8

\* A reply of the handler for the request's type is its answer.
LEMMA HandlersAnswerTheRequest ==
    ASSUME IdsFit, input \in Inputs, NEW k \in Requests
    PROVE  /\ Parsed(input[k]).type = "init" => Answers(k, InitReply(k))
           /\ Parsed(input[k]).type = "echo" => Answers(k, EchoReply(k))
    <1> DEFINE r == Parsed(input[k])
               body == BodyOf(input[k])
    <1>1. /\ r.src = input[k][2]["src"][2] /\ r.dest = input[k][2]["dest"][2]
          /\ r.type = body["type"][2] /\ r.body = body
        BY DEF Parsed
    <1>2. "msg_id" \in DOMAIN body => r.msgId # <<>> /\ r.msgId[1] = body["msg_id"][2]
        BY ParsedId
    <1> HIDE DEF r, body
    <1>3. ASSUME NEW type, NEW given, <<r.type, type>> \in {<<"init", "init_ok">>, <<"echo", "echo_ok">>},
                 r.type = "echo" => given = body
          PROVE  Answers(k, Reply(r, type, given))
        <2> DEFINE reply == Reply(r, type, given)
        <2>1. reply.src = r.dest /\ reply.dest = r.src /\ reply.body["type"] = <<"string", type>>
            BY ReplyFacts
        <2>2. "msg_id" \in DOMAIN body =>
                /\ "in_reply_to" \in DOMAIN reply.body
                /\ reply.body["in_reply_to"] = <<"number", body["msg_id"][2]>>
                /\ "msg_id" \notin DOMAIN reply.body
            BY <1>2, ReplyFacts
        <2>3. "echo" \in DOMAIN given => reply.body["echo"] = given["echo"]
            BY ReplyFacts
        <2>4. reply.body["type"][2] = type BY <2>1
        <2>5. "msg_id" \in DOMAIN body =>
                /\ Holds(reply.body, "in_reply_to", "number")
                /\ reply.body["in_reply_to"][2] = body["msg_id"][2]
                /\ "msg_id" \notin DOMAIN reply.body
            BY <2>2 DEF Holds
        <2> HIDE DEF reply
        <2> QED
            BY <1>1, <1>3, <2>1, <2>3, <2>4, <2>5 DEF Answers, body, reply
    <1>4. r.type = "init" => Answers(k, Reply(r, "init_ok", <<>>)) BY <1>3
    <1>5. r.type = "echo" => Answers(k, Reply(r, "echo_ok", r.body)) BY <1>1, <1>3
    <1> QED BY <1>4, <1>5 DEF InitReply, EchoReply, r

-----------------------------------------------------------------------------
(* The invariant *)

\* The place of the line k among the requests.
Place(k) == Cardinality({i \in Requests : i <= k})

\* Main has begun the line before next and nobody has answered it yet.
Unanswered == pc = "dispatching" \/ handler = "running"

\* The replies so far answer the requests of their places.
InOrder == \A k \in Begun : Place(k) <= Len(out) => Answers(k, out[Place(k)])

Replies == {InitReply(k) : k \in Requests} \cup {EchoReply(k) : k \in Requests}

\* While the request is unanswered, main's stack holds that of the line just
\* read, and the handler's thread runs only while main waits for it.
DemoInv ==
    /\ input \in Inputs /\ next \in Nat \ {0} /\ out \in Seq(Replies)
    /\ handlers \subseteq {"echo"}
    /\ handler \in {"none", "running", "finished"}
    /\ pc = "waiting" <=> handler # "none"
    /\ Unanswered =>
          /\ next - 1 \in Requests /\ request = Parsed(input[next - 1])
          /\ Len(out) + 1 = Cardinality(Begun)
    /\ handler = "running" => request.type = "echo"
    /\ ~Unanswered /\ pc # "terminated" => Len(out) = Cardinality(Begun)
    /\ Len(out) <= Cardinality(Begun)
    /\ InOrder

\* Places are numbers, and those of the begun requests fit their count.
LEMMA Places ==
    ASSUME input \in Inputs, next \in Nat \ {0}
    PROVE  /\ IsFiniteSet(Begun) /\ Cardinality(Begun) \in Nat
           /\ \A k \in Begun : Place(k) \in Nat \ {0} /\ Place(k) <= Cardinality(Begun)
           /\ \A k \in Begun : next - 1 \in Requests /\ Place(k) = Cardinality(Begun) => k = next - 1
    <1>1. Len(input) \in Nat /\ DOMAIN input = 1..Len(input) BY DemoAssumption
    <1>2. IsFiniteSet(1..Len(input)) BY <1>1, FS_Interval
    <1>3. Begun \in SUBSET (1..Len(input)) BY <1>1 DEF Begun, Requests
    <1>4. IsFiniteSet(Begun) BY <1>2, <1>3, FS_Subset
    <1>5. Cardinality(Begun) \in Nat BY <1>4, FS_CardinalityType
    <1>6. ASSUME NEW k \in Begun
          PROVE  /\ Place(k) \in Nat \ {0} /\ Place(k) <= Cardinality(Begun)
                 /\ next - 1 \in Requests /\ Place(k) = Cardinality(Begun) => k = next - 1
        <2> DEFINE upto == {i \in Requests : i <= k}
        <2>1. k \in Nat /\ k < next /\ k \in Requests BY <1>3, <1>6 DEF Begun
        <2>2. upto \in SUBSET Begun
            <3> SUFFICES ASSUME NEW i \in upto PROVE i < next BY DEF Begun
            <3>1. i \in Int BY <1>1 DEF Requests
            <3> QED BY <2>1, <3>1
        <2>3. k \in upto BY <2>1
        <2>4. Place(k) = Cardinality(upto) BY DEF Place
        <2> HIDE DEF upto
        <2>5. IsFiniteSet(upto) /\ Cardinality(upto) <= Cardinality(Begun)
              /\ (Cardinality(Begun) = Cardinality(upto) => Begun = upto)
            BY <1>4, <2>2, FS_Subset
        <2>6. Cardinality(upto) \in Nat /\ Cardinality(upto) # 0
            BY <2>3, <2>5, FS_CardinalityType, FS_EmptySet
        <2>7. ASSUME next - 1 \in Requests, Place(k) = Cardinality(Begun)
              PROVE  k = next - 1
            <3>1. next - 1 \in Begun BY <2>7 DEF Begun
            <3>2. next - 1 \in upto BY <2>4, <2>5, <2>7, <3>1
            <3>3. next - 1 <= k BY <3>2 DEF upto
            <3> QED BY <2>1, <3>3
        <2> QED BY <2>4, <2>5, <2>6, <2>7
    <1> QED BY <1>4, <1>5, <1>6

\* The answer to the request that was read last keeps the replies in order.
LEMMA AnswerInOrder ==
    ASSUME DemoInv, Unanswered, NEW reply \in Replies, Answers(next - 1, reply),
           UNCHANGED <<input, next>>, out' = Append(out, reply)
    PROVE  /\ out' \in Seq(Replies') /\ Len(out') = Cardinality(Begun')
           /\ InOrder'
    <1>1. Requests' = Requests /\ Begun' = Begun /\ Replies' = Replies
        BY DEF Requests, Begun, Replies, InitReply, EchoReply
    <1>2. \A k : Place(k)' = Place(k) BY <1>1 DEF Place
    <1>3. \A k, r : Answers(k, r)' <=> Answers(k, r) BY DEF Answers
    <1>4. out \in Seq(Replies) /\ Len(out) \in Nat BY DEF DemoInv
    <1>5. out' \in Seq(Replies) /\ Len(out') = Len(out) + 1 BY <1>4
    <1>6. out'[Len(out) + 1] = reply /\ \A i \in 1..Len(out) : out'[i] = out[i] BY <1>4
    <1>7. Len(out) + 1 = Cardinality(Begun) /\ next - 1 \in Requests BY DEF DemoInv
    <1>8. ASSUME NEW k \in Begun
          PROVE  Answers(k, out'[Place(k)])
        <2>1. Place(k) \in Nat \ {0} /\ Place(k) <= Len(out) + 1
            BY <1>7, Places DEF DemoInv
        <2>2. CASE Place(k) <= Len(out)
            <3>1. out'[Place(k)] = out[Place(k)] BY <1>6, <2>1, <2>2
            <3> QED BY <2>2, <3>1 DEF DemoInv, InOrder
        <2>3. CASE Place(k) = Len(out) + 1
            <3>1. k = next - 1 BY <1>7, <2>3, Places DEF DemoInv
            <3> QED BY <1>6, <2>3, <3>1
        <2> QED BY <1>4, <2>1, <2>2, <2>3
    <1> QED BY <1>1, <1>2, <1>3, <1>5, <1>7, <1>8 DEF InOrder

\* A step that reads no line and writes nothing leaves the order alone.
LEMMA OrderStays ==
    ASSUME DemoInv, UNCHANGED <<input, next, out>>
    PROVE  /\ Begun' = Begun /\ Requests' = Requests
           /\ out' \in Seq(Replies')
           /\ InOrder'
    <1>1. Requests' = Requests /\ Begun' = Begun /\ Replies' = Replies
        BY DEF Requests, Begun, Replies, InitReply, EchoReply
    <1>2. \A k : Place(k)' = Place(k) BY <1>1 DEF Place
    <1>3. \A k, r : Answers(k, r)' <=> Answers(k, r) BY DEF Answers
    <1> QED BY <1>1, <1>2, <1>3 DEF DemoInv, InOrder

\* Reading a line begins its request if it parses as one, with the place
\* behind all others.
LEMMA ReadInOrder ==
    ASSUME DemoInv, UNCHANGED <<input, out>>, next' = next + 1, Len(out) = Cardinality(Begun)
    PROVE  /\ Parses(Line) => /\ next \in Requests /\ Line = input[next]
                              /\ Cardinality(Begun') = Cardinality(Begun) + 1
           /\ ~Parses(Line) => Begun' = Begun
           /\ Requests' = Requests /\ out' \in Seq(Replies')
           /\ InOrder'
    <1>1. Requests' = Requests /\ Replies' = Replies
        BY DEF Requests, Replies, InitReply, EchoReply
    <1>2. \A k : Place(k)' = Place(k) BY <1>1 DEF Place
    <1>3. \A k, r : Answers(k, r)' <=> Answers(k, r) BY DEF Answers
    <1>4. /\ Len(input) \in Nat /\ DOMAIN input = 1..Len(input)
          /\ next \in Nat \ {0} /\ input \in Inputs /\ Len(out) \in Nat
        BY DemoAssumption DEF DemoInv
    <1>5. Requests \subseteq Nat BY <1>4 DEF Requests
    <1>6. Begun' = Begun \cup (Requests \cap {next})
        <2>1. \A k \in Nat : k < next + 1 <=> k < next \/ k = next BY <1>4
        <2>2. \A k \in Requests : k < next' <=> k < next \/ k = next BY <1>5, <2>1
        <2> QED BY <1>1, <2>2 DEF Begun
    <1>7. Parses(Line) <=> next \in Requests
        <2>1. CASE next <= Len(input) BY <1>4, <2>1 DEF Line, Requests
        <2>2. CASE ~(next <= Len(input))
            <3>1. Line = <<"empty">> /\ next \notin Requests BY <1>4, <2>2 DEF Line, EmptyLine, Requests
            <3>2. Line[1] # "object" BY <3>1
            <3> QED BY <3>1, <3>2 DEF Parses
        <2> QED BY <2>1, <2>2
    <1>8. next \in Requests => Line = input[next]
        BY <1>4 DEF Line, Requests
    <1>9. next \notin Begun /\ IsFiniteSet(Begun) BY <1>4, Places DEF Begun
    <1>10. next \in Requests => Begun' = Begun \cup {next} BY <1>6
    <1>11. next \in Requests => Cardinality(Begun') = Cardinality(Begun) + 1
        BY <1>9, <1>10, FS_AddElement
    <1>12. ASSUME NEW k \in Begun', Place(k) <= Len(out)
           PROVE  Answers(k, out[Place(k)])
        <2>1. CASE k \in Begun BY <1>12, <2>1 DEF DemoInv, InOrder
        <2>2. CASE k \notin Begun
            <3>1. k = next /\ next \in Requests BY <1>6, <2>2
            <3>2. {i \in Requests : i <= k} = Begun \cup {next}
                <4>1. \A i \in Nat : i <= next <=> i < next \/ i = next BY <1>4
                <4>2. \A i \in Requests : i <= k <=> i < next \/ i = next BY <1>5, <3>1, <4>1
                <4> QED BY <3>1, <4>2 DEF Begun
            <3>3. Place(k) = Len(out) + 1 BY <1>9, <3>2, FS_AddElement DEF Place
            <3> QED BY <1>4, <1>12, <3>3
        <2> QED BY <2>1, <2>2
    <1>13. out' \in Seq(Replies') BY <1>1 DEF DemoInv
    <1>14. InOrder'
        BY <1>2, <1>3, <1>12 DEF InOrder
    <1> QED BY <1>1, <1>6, <1>7, <1>8, <1>11, <1>13, <1>14

-----------------------------------------------------------------------------
(* The steps *)

\* init: answered when it is complete, else the process ends.
LEMMA InitKeepsOrder ==
    ASSUME IdsFit, DemoInv, _init
    PROVE  DemoInv'
    <1>1. /\ Unanswered /\ pc = "dispatching" /\ handler = "none" /\ request.type = "init"
          /\ UNCHANGED <<input, next, handlers, request, handler>>
        BY DEF _init, DemoInv, Unanswered
    <1>2. next - 1 \in Requests /\ request = Parsed(input[next - 1]) /\ input \in Inputs
        BY <1>1 DEF DemoInv
    <1>3. Requests' = Requests BY <1>1 DEF Requests
    <1>4. CASE pc' = "reading"
        <2>1. out' = Append(out, Reply(request, "init_ok", <<>>)) BY <1>4 DEF _init
        <2>2. out' = Append(out, InitReply(next - 1)) BY <1>2, <2>1 DEF InitReply
        <2>3. InitReply(next - 1) \in Replies BY <1>2 DEF Replies
        <2>4. Answers(next - 1, InitReply(next - 1))
            BY <1>1, <1>2, HandlersAnswerTheRequest
        <2>5. out' \in Seq(Replies') /\ Len(out') = Cardinality(Begun') /\ InOrder'
            BY <1>1, <2>2, <2>3, <2>4, AnswerInOrder
        <2>6. Len(out') \in Nat BY <2>5
        <2> QED BY <1>1, <1>4, <2>5, <2>6 DEF DemoInv, Unanswered
    <1>5. CASE pc' = "terminated"
        <2>1. out' = out BY <1>5 DEF _init
        <2>2. Begun' = Begun /\ out' \in Seq(Replies') /\ InOrder'
            BY <1>1, <2>1, OrderStays
        <2> QED BY <1>1, <1>5, <2>1, <2>2 DEF DemoInv, Unanswered
    <1> QED BY <1>4, <1>5 DEF _init

\* The handler's thread: main still holds the request it answers.
LEMMA HandleKeepsOrder ==
    ASSUME IdsFit, DemoInv, handle
    PROVE  DemoInv'
    <1>1. /\ Unanswered /\ pc = "waiting" /\ handler = "running" /\ request.type = "echo"
          /\ UNCHANGED <<input, next, handlers, request, pc>> /\ handler' = "finished"
        BY DEF handle, DemoInv, Unanswered
    <1>2. next - 1 \in Requests /\ request = Parsed(input[next - 1]) /\ input \in Inputs
        BY <1>1 DEF DemoInv
    <1>3. out' = Append(out, EchoReply(next - 1)) BY <1>2 DEF EchoReply, handle
    <1>4. EchoReply(next - 1) \in Replies BY <1>2 DEF Replies
    <1>5. Answers(next - 1, EchoReply(next - 1))
        BY <1>1, <1>2, HandlersAnswerTheRequest
    <1>6. out' \in Seq(Replies') /\ Len(out') = Cardinality(Begun') /\ InOrder'
        BY <1>1, <1>3, <1>4, <1>5, AnswerInOrder
    <1>7. Len(out') \in Nat BY <1>6
    <1> QED BY <1>1, <1>6, <1>7 DEF DemoInv, Unanswered

\* A line is read only when all the requests before it are answered.
LEMMA RunKeepsOrder ==
    ASSUME DemoInv, run
    PROVE  DemoInv'
    <1>1. /\ pc = "reading" /\ handler = "none" /\ next' = next + 1
          /\ UNCHANGED <<input, handlers, nodeId, peerIds, handler, out>>
        BY DEF run, DemoInv
    <1>2. Len(out) = Cardinality(Begun) /\ next \in Nat \ {0} /\ Len(out) \in Nat
        BY <1>1 DEF DemoInv, Unanswered
    <1>3. /\ Parses(Line) => /\ next \in Requests /\ Line = input[next]
                             /\ Cardinality(Begun') = Cardinality(Begun) + 1
          /\ ~Parses(Line) => Begun' = Begun
          /\ Requests' = Requests /\ out' \in Seq(Replies') /\ InOrder'
        BY <1>1, <1>2, ReadInOrder
    <1>4. next' \in Nat \ {0} /\ next' - 1 = next BY <1>1, <1>2
    <1>5. CASE Parses(Line) /\ pc' = "dispatching" /\ request' = Parsed(Line)
        <2>1. next' - 1 \in Requests' /\ request' = Parsed(input'[next' - 1])
            BY <1>1, <1>3, <1>4, <1>5
        <2>2. Len(out') + 1 = Cardinality(Begun') /\ Len(out') <= Cardinality(Begun')
            BY <1>1, <1>2, <1>3, <1>5
        <2>3. (Parsed(input[next - 1]))' = Parsed(input'[next' - 1])
            BY DEF Parsed, BodyOf, IdIn, Narrowed
        <2> QED BY <1>1, <1>3, <1>4, <1>5, <2>1, <2>2, <2>3 DEF DemoInv, Unanswered
    <1>6. CASE ~Parses(Line) /\ pc' \in {"returned", "terminated"}
        BY <1>1, <1>2, <1>3, <1>4, <1>6 DEF DemoInv, Unanswered
    <1>7. Line[1] = "empty" => ~Parses(Line) BY DEF Parses
    <1> QED BY <1>5, <1>6, <1>7 DEF run

\* The other steps neither read nor write.
LEMMA OtherStepsKeepOrder ==
    ASSUME DemoInv, registerMessageHandler \/ handleMessage \/ Joined \/ Exit \/ UNCHANGED vars
    PROVE  DemoInv'
    <1>1. UNCHANGED <<input, next, out, request>>
        BY DEF registerMessageHandler, handleMessage, Joined, Exit, vars
    <1>2. Begun' = Begun /\ Requests' = Requests /\ out' \in Seq(Replies') /\ InOrder'
        BY <1>1, OrderStays
    <1>3. CASE registerMessageHandler
        BY <1>1, <1>2, <1>3 DEF DemoInv, Unanswered, registerMessageHandler
    <1>4. CASE handleMessage
        <2>1. CASE request.type \in handlers
            <3>1. request.type = "echo" BY <2>1 DEF DemoInv
            <3> QED BY <1>1, <1>2, <1>4, <2>1, <3>1 DEF DemoInv, Unanswered, handleMessage, Launched
        <2>2. CASE request.type \notin handlers
            BY <1>1, <1>2, <1>4, <2>2 DEF DemoInv, Unanswered, handleMessage
        <2> QED BY <2>1, <2>2
    <1>5. CASE Joined BY <1>1, <1>2, <1>5 DEF DemoInv, Unanswered, Joined
    <1>6. CASE Exit BY <1>1, <1>2, <1>6 DEF DemoInv, Unanswered, Exit
    <1>7. CASE UNCHANGED vars BY <1>1, <1>2, <1>7 DEF DemoInv, Unanswered, vars
    <1> QED BY <1>3, <1>4, <1>5, <1>6, <1>7

\* In every state of the demo node an unanswered request is the one main
\* holds, its handler runs only while main waits, and all requests before it
\* are answered.
THEOREM DemoInvariant ==
    ASSUME IdsFit
    PROVE  Spec => []DemoInv
    <1>1. Init => DemoInv
        <2> SUFFICES ASSUME Init PROVE DemoInv OBVIOUS
        <2>1. Len(input) \in Nat /\ DOMAIN input = 1..Len(input) /\ input \in Inputs /\ next = 1
            BY DemoAssumption DEF Init
        <2>2. Begun = {} BY <2>1 DEF Begun, Requests
        <2>3. Cardinality(Begun) = 0 BY <2>2, FS_EmptySet
        <2>4. out \in Seq(Replies) /\ Len(out) = 0 BY DEF Init
        <2> QED BY <2>1, <2>2, <2>3, <2>4 DEF Init, DemoInv, InOrder, Unanswered
    <1>2. DemoInv /\ [Next]_vars => DemoInv'
        BY InitKeepsOrder, HandleKeepsOrder, RunKeepsOrder, OtherStepsKeepOrder DEF Next, MainThread
    <1> QED BY <1>1, <1>2, PTL DEF Spec

\* The replies answer the requests one to one and in the order of the lines,
\* whatever the lines are, as long as every msg_id is an int.
THEOREM DemoRepliesInOrder ==
    ASSUME IdsFit
    PROVE  Spec => []RepliesInOrder
    <1>1. DemoInv => RepliesInOrder
        BY DEF DemoInv, InOrder, Place, RepliesInOrder, Unanswered
    <1> QED BY <1>1, DemoInvariant, PTL
=============================================================================
