-------------------------------- MODULE Node --------------------------------
(***************************************************************************)
(* src/common/node.h, node.cpp and src/main.cpp: the node process.  The    *)
(* main thread reads lines from stdin, parses them and puts the accepted   *)
(* ones on task_queue; worker_count threads take tasks from the queue, run *)
(* the handler registered for the type and write the response to stdout;   *)
(* an empty line (or the end of the input) shuts the node down.  Any other *)
(* thread may call stop().                                                 *)
(*                                                                         *)
(* A step is a stretch of code of one thread that no other thread can see  *)
(* in an intermediate state: an access to the atomic `state`, to a         *)
(* variable that is written without a lock (self_node_id, all_node_ids),   *)
(* or a critical section that only touches what its mutex protects.        *)
(*                                                                         *)
(* A task is named by the serial number of the line it was made from; its  *)
(* message and its handler are functions of that line.                     *)
(***************************************************************************)
EXTENDS Message

CONSTANTS
    worker_count,   \* size of the pool: 16 in main.cpp
    Lines,          \* the lines stdin may deliver, as parsed JSON
    MaxLines,       \* bound: non-empty lines delivered before the last one
    InitsInFlight,  \* bound: unfinished init requests the senders allow
    MaxSpurious,    \* bound: spurious wakeups of the condition variable
    CallsStop       \* whether another thread may call stop()

ASSUME NodeAssumption ==
    /\ worker_count \in Nat \ {0}
    /\ MaxLines \in Nat
    /\ InitsInFlight \in Nat
    /\ MaxSpurious \in Nat
    /\ CallsStop \in BOOLEAN

Workers == 1..worker_count
Free == 0       \* a mutex nobody holds; otherwise it is the worker holding it

VARIABLES
    main,                   \* where the main thread is
    state,                  \* Node::state
    join_count,             \* run(): workers joined
    worker,                 \* where each worker thread is
    task,                   \* worker_loop(): the task a worker holds, 0 if none
    response,               \* worker_loop(): the response it is about to write
    task_queue,             \* Node::task_queue, serial numbers of lines
    mutex_thread_tasks,
    mutex_write_response,
    self_node_id,           \* the view: the buffer it points into, the text
    all_node_ids,           \* the vector: its buffer (the init line), the ids
    stdout,                 \* what was written: payloads and newlines
    crashed,                \* the process has aborted
    stopper,                \* where the thread that may call stop() is
    spurious,               \* spurious wakeups so far
    input,                  \* history: the lines read
    fate                    \* history: what became of each line

mainVars == <<main, state, join_count>>
queueVars == <<task, task_queue, mutex_thread_tasks>>
idVars == <<self_node_id, all_node_ids>>
outVars == <<response, mutex_write_response, stdout>>
historyVars == <<input, fate>>
dataVars == <<idVars, outVars, historyVars>>
processVars == <<crashed, stopper, spurious>>
\* What no handler touches.
handlerFrame == <<mainVars, task_queue, mutex_thread_tasks, mutex_write_response, stdout,
                  input, processVars>>
vars == <<mainVars, worker, queueVars, dataVars, processVars>>

NodeState == {"STARTING", "RUNNING", "SHUTDOWN"}
MainPc == {"spawn", "loop", "getline", "dispatch", "enqueue", "notify_one",
           "notify_all", "join", "done"}
WorkerPc == {"unborn", "lock", "wait", "block", "waiting", "check", "invoke",
             "init_test", "init_ids", "init_self", "write", "endl", "exited"}

\* What can become of a line.  An accepted one is on its way to a response.
Fate == {"read", "unparsed", "ignored", "unhandled", "accepted", "silent", "answered"}

-----------------------------------------------------------------------------
(* The registered handlers: the constructor's, then main()'s *)

\* A type that has a handler keeps it.
register_handler(map, type, handler) ==
    IF type \in DOMAIN map THEN map
    ELSE [t \in DOMAIN map \cup {type} |-> IF t = type THEN handler ELSE map[t]]

handler_map ==
    register_handler(
        register_handler(
            register_handler([t \in {} |-> ""], "INIT_REQ", "handle_init"),
            "ECHO_REQ", "echo"),
        "GENERATE_REQ", "generate")

\* Message::parse, for every line.
Parsing == [line \in Lines |-> parse(line)]

\* The message line n was parsed to.
MessageOf(n) == Parsing[input[n]].value
HandlerOf(n) == handler_map[MessageOf(n).type]

\* The lambdas of main().  The const operator[] of an absent key asserts.
EchoResponse(msg, seed) ==
    LET r == create_response(msg, seed) IN
    [r EXCEPT !.body = set_field(@, "echo", field(msg.body, "echo"))]

GenerateResponse(msg, seed, seed2) ==
    LET r == create_response(msg, seed) IN
    [r EXCEPT !.body = set_field(@, "id", as_json_id(generate(seed2)))]

-----------------------------------------------------------------------------

Init ==
    /\ main = "spawn"
    /\ state = "STARTING"
    /\ join_count = 0
    /\ worker = [w \in Workers |-> "unborn"]
    /\ task = [w \in Workers |-> 0]
    /\ response = [w \in Workers |-> NoMessage]
    /\ task_queue = <<>>
    /\ mutex_thread_tasks = Free
    /\ mutex_write_response = Free
    /\ self_node_id = [buffer |-> 0, text |-> ""]
    /\ all_node_ids = [buffer |-> 0, ids |-> <<>>]
    /\ stdout = <<>>
    /\ crashed = FALSE
    /\ stopper = IF CallsStop THEN "ready" ELSE "absent"
    /\ spurious = 0
    /\ input = <<>>
    /\ fate = <<>>

\* std::abort(): nothing runs afterwards.
Crash ==
    /\ crashed' = TRUE
    /\ UNCHANGED <<mainVars, worker, queueVars, dataVars, stopper, spurious>>

-----------------------------------------------------------------------------
(* The main thread: run() and dispatch_message() *)

\* The threads of worker_pool are created in order and run at once.
SpawnWorker(w) ==
    /\ main = "spawn"
    /\ worker[w] = "unborn"
    /\ \A v \in 1..(w - 1) : worker[v] # "unborn"
    /\ worker' = [worker EXCEPT ![w] = "lock"]
    /\ UNCHANGED <<mainVars, queueVars, dataVars, processVars>>

\* state = RUNNING, once every thread exists.
StartRunning ==
    /\ main = "spawn"
    /\ \A w \in Workers : worker[w] # "unborn"
    /\ state' = "RUNNING"
    /\ main' = "loop"
    /\ UNCHANGED <<join_count, worker, queueVars, dataVars, processVars>>

\* while (RUNNING == state)
TestRunning ==
    /\ main = "loop"
    /\ main' = IF state = "RUNNING" THEN "getline" ELSE "notify_all"
    /\ UNCHANGED <<state, join_count, worker, queueVars, dataVars, processVars>>

IsInit(line) == Parsing[line].outcome = "value" /\ Parsing[line].value.type = "INIT_REQ"

\* The init requests read and not finished: what the senders of init count.
PendingInits ==
    {n \in DOMAIN input : fate[n] \in {"read", "accepted"} /\ IsInit(input[n])}

\* std::getline delivers a non-empty line.
GetLine(line) ==
    /\ main = "getline"
    /\ Len(input) < MaxLines
    /\ IsInit(line) => Cardinality(PendingInits) < InitsInFlight
    /\ input' = Append(input, line)
    /\ fate' = Append(fate, "read")
    /\ main' = "dispatch"
    /\ UNCHANGED <<state, join_count, worker, queueVars, idVars, outVars, processVars>>

\* An empty line or the end of the input.  `state` is written without
\* holding mutex_thread_tasks.
GetEmptyLine ==
    /\ main = "getline"
    /\ state' = "SHUTDOWN"
    /\ main' = "notify_all"
    /\ UNCHANGED <<join_count, worker, queueVars, dataVars, processVars>>

\* Where dispatch_message() leaves a parsed message.  self_node_id is read
\* while a worker may be writing it.
Disposition(parsed) ==
    IF parsed.outcome = "nullopt" THEN "unparsed"
    ELSE IF parsed.value.type # "INIT_REQ" /\ self_node_id.text = "" THEN "ignored"
    ELSE IF parsed.value.type \notin DOMAIN handler_map THEN "unhandled"
    ELSE "accepted"

\* dispatch_message() up to the lock.
Dispatch ==
    LET parsed == Parsing[input[Len(input)]] IN
    /\ main = "dispatch"
    /\ parsed.outcome # "abort"
    /\ fate' = [fate EXCEPT ![Len(input)] = Disposition(parsed)]
    /\ main' = IF Disposition(parsed) = "accepted" THEN "enqueue" ELSE "loop"
    /\ UNCHANGED <<state, join_count, worker, queueVars, idVars, outVars, input, processVars>>

\* Message::parse() aborted.
DispatchAborts ==
    /\ main = "dispatch"
    /\ Parsing[input[Len(input)]].outcome = "abort"
    /\ Crash

\* A mutant: the queue is used without the lock.
WithoutQueueLock == TRUE

\* std::unique_lock lock(mutex_thread_tasks) does not have to wait.
QueueLockFree == mutex_thread_tasks = Free

\* A mutant: the task overtakes the ones in the queue.
PushedInFront == <<Len(input)>> \o task_queue

\* task_queue.emplace(new_task)
Pushed == Append(task_queue, Len(input))

\* The critical section of dispatch_message().
Enqueue ==
    /\ main = "enqueue"
    /\ QueueLockFree
    /\ task_queue' = Pushed
    /\ main' = "notify_one"
    /\ UNCHANGED <<state, join_count, worker, task, mutex_thread_tasks, dataVars, processVars>>

\* A mutant: the notification is left out.
NobodyNotified == {}

\* The threads that notify_one() may wake.
Waiting == {w \in Workers : worker[w] = "waiting"}

\* notify_one() wakes one waiting thread, if there is one.
NotifyOne ==
    /\ main = "notify_one"
    /\ main' = "loop"
    /\ \/ Waiting = {} /\ UNCHANGED worker
       \/ \E w \in Waiting : worker' = [worker EXCEPT ![w] = "lock"]
    /\ UNCHANGED <<state, join_count, queueVars, dataVars, processVars>>

\* What notify_all() does to the workers.
WakeAll == [w \in Workers |-> IF worker[w] = "waiting" THEN "lock" ELSE worker[w]]

NotifyAll ==
    /\ main = "notify_all"
    /\ main' = "join"
    /\ worker' = WakeAll
    /\ UNCHANGED <<state, join_count, queueVars, dataVars, processVars>>

\* worker.join(), in the order of worker_pool.
Join ==
    /\ main = "join"
    /\ join_count # worker_count
    /\ worker[join_count + 1] = "exited"
    /\ join_count' = join_count + 1
    /\ UNCHANGED <<main, state, worker, queueVars, dataVars, processVars>>

\* run() returns and so does main().
Return ==
    /\ main = "join"
    /\ join_count = worker_count
    /\ main' = "done"
    /\ UNCHANGED <<state, join_count, worker, queueVars, dataVars, processVars>>

-----------------------------------------------------------------------------
(* A worker thread: worker_loop() *)

\* Constructing queue_lock, or taking it again inside wait().
Lock(w) ==
    /\ worker[w] = "lock"
    /\ QueueLockFree
    /\ mutex_thread_tasks' = w
    /\ worker' = [worker EXCEPT ![w] = "wait"]
    /\ UNCHANGED <<mainVars, task, task_queue, dataVars, processVars>>

\* A mutant: the predicate forgets the shutdown.
WaitsForTasksOnly == task_queue # <<>>

\* The predicate of wait().
WaitIsOver == state = "SHUTDOWN" \/ task_queue # <<>>

\* The predicate is evaluated with the lock held.
TestPredicate(w) ==
    /\ worker[w] = "wait"
    /\ worker' = [worker EXCEPT ![w] = IF WaitIsOver THEN "check" ELSE "block"]
    /\ UNCHANGED <<mainVars, queueVars, dataVars, processVars>>

\* wait() releases the lock and blocks, atomically.
Block(w) ==
    /\ worker[w] = "block"
    /\ mutex_thread_tasks' = Free
    /\ worker' = [worker EXCEPT ![w] = "waiting"]
    /\ UNCHANGED <<mainVars, task, task_queue, dataVars, processVars>>

\* The condition variable may wake a thread nobody notified.
SpuriousWakeup(w) ==
    /\ worker[w] = "waiting"
    /\ spurious < MaxSpurious
    /\ spurious' = spurious + 1
    /\ worker' = [worker EXCEPT ![w] = "lock"]
    /\ UNCHANGED <<mainVars, queueVars, dataVars, crashed, stopper>>

\* A mutant: the shutdown does not wait for the queue to drain.
ExitsAtOnce == state = "SHUTDOWN"

\* state is read again after the predicate held.
MayExit == state = "SHUTDOWN" /\ task_queue = <<>>

\* The thread returns; queue_lock's destructor releases the lock.
Exit(w) ==
    /\ worker[w] = "check"
    /\ MayExit
    /\ mutex_thread_tasks' = Free
    /\ worker' = [worker EXCEPT ![w] = "exited"]
    /\ UNCHANGED <<mainVars, task, task_queue, dataVars, processVars>>

\* task_queue.pop()
Popped == Tail(task_queue)

\* The front of the queue is moved out and popped, then the lock released.
TakeTask(w) ==
    /\ worker[w] = "check"
    /\ ~MayExit
    /\ task_queue # <<>>
    /\ task' = [task EXCEPT ![w] = Head(task_queue)]
    /\ task_queue' = Popped
    /\ mutex_thread_tasks' = Free
    /\ worker' = [worker EXCEPT ![w] = "invoke"]
    /\ UNCHANGED <<mainVars, dataVars, processVars>>

\* front() of an empty queue: undefined, the invocation of what it returns
\* ends the process.
TakeFromEmpty(w) ==
    /\ worker[w] = "check"
    /\ ~MayExit
    /\ task_queue = <<>>
    /\ Crash

\* A mutant: the worker writes the request back.
RequestAsResponse(w, r) == MessageOf(task[w])

\* Message response = task.invoke(*task.message)
Returned(w, r) == r

\* The handler returned r; a response of type INVALID is not written.
HandlerReturns(w, r) ==
    /\ response' = [response EXCEPT ![w] = Returned(w, r)]
    /\ IF r.type # "INVALID"
       THEN /\ worker' = [worker EXCEPT ![w] = "write"]
            /\ UNCHANGED <<task, fate>>
       ELSE /\ worker' = [worker EXCEPT ![w] = "lock"]
            /\ task' = [task EXCEPT ![w] = 0]
            /\ fate' = [fate EXCEPT ![task[w]] = "silent"]

\* The echo handler of main().
InvokeEcho(w) ==
    /\ worker[w] = "invoke"
    /\ HandlerOf(task[w]) = "echo"
    /\ contains(MessageOf(task[w]).body, "echo")
    /\ \E seed \in random_device :
          HandlerReturns(w, EchoResponse(MessageOf(task[w]), seed))
    /\ UNCHANGED <<handlerFrame, idVars>>

\* The generate handler of main().
InvokeGenerate(w) ==
    /\ worker[w] = "invoke"
    /\ HandlerOf(task[w]) = "generate"
    /\ \E seed, seed2 \in random_device :
          HandlerReturns(w, GenerateResponse(MessageOf(task[w]), seed, seed2))
    /\ UNCHANGED <<handlerFrame, idVars>>

-----------------------------------------------------------------------------
(* handle_init() and init() *)

HasNodeId(body) == contains(body, "node_id") /\ is_string(field(body, "node_id"))

\* The conversion to std::vector<std::string> succeeds.
HasNodeIds(body) ==
    /\ contains(body, "node_ids")
    /\ type_of(field(body, "node_ids")) = "array"
    /\ \A i \in DOMAIN get(field(body, "node_ids")) :
          is_string(get(field(body, "node_ids"))[i])

NodeId(body) == get(field(body, "node_id"))
NodeIds(body) == [i \in DOMAIN get(field(body, "node_ids")) |->
                     get(get(field(body, "node_ids"))[i])]

\* A JSON array holds a sequence of elements.
ASSUME ArrayAssumption ==
    \A line \in Lines :
        LET body == Parsing[line].value.body IN
        IsInit(line) /\ HasNodeIds(body) =>
            /\ Len(get(field(body, "node_ids"))) \in Nat
            /\ DOMAIN get(field(body, "node_ids")) = 1..Len(get(field(body, "node_ids")))

\* The first position of the node's own id, or one past the end.
SelfIndex(body) ==
    LET ids == NodeIds(body)
        found == {i \in DOMAIN ids : ids[i] = NodeId(body)}
    IN  IF found = {} THEN Len(ids) + 1 ELSE Min(found)

\* handle_init() up to the call of init(): without a node_id it answers at
\* once, with one that is not in node_ids it does not answer.
InvokeInit(w) ==
    LET body == MessageOf(task[w]).body
        Reply == \E seed \in random_device :
                     HandlerReturns(w, create_response(MessageOf(task[w]), seed))
    IN
    /\ worker[w] = "invoke"
    /\ HandlerOf(task[w]) = "handle_init"
    /\ \/ ~HasNodeId(body) /\ Reply
       \/ /\ HasNodeId(body) /\ HasNodeIds(body)
          /\ SelfIndex(body) > Len(NodeIds(body))
          /\ HandlerReturns(w, NoMessage)
       \/ /\ HasNodeId(body) /\ HasNodeIds(body)
          /\ SelfIndex(body) <= Len(NodeIds(body))
          /\ worker' = [worker EXCEPT ![w] = "init_test"]
          /\ UNCHANGED <<task, response, fate>>
    /\ UNCHANGED <<handlerFrame, idVars>>

\* The field that a handler reads is absent, or has the wrong JSON type: an
\* exception leaves the handler, or an assertion fails, and the process ends.
EchoAborts(w) ==
    /\ worker[w] = "invoke"
    /\ HandlerOf(task[w]) = "echo"
    /\ ~contains(MessageOf(task[w]).body, "echo")
    /\ Crash

InitAborts(w) ==
    LET body == MessageOf(task[w]).body IN
    /\ worker[w] = "invoke"
    /\ HandlerOf(task[w]) = "handle_init"
    /\ HasNodeId(body) /\ ~HasNodeIds(body)
    /\ Crash

InvokeAborts(w) == EchoAborts(w) \/ InitAborts(w)

\* A mutant: init() forgets its test.
NeverInitialized == FALSE

\* init() was called for an initialized node.
AlreadyInitialized == all_node_ids.ids # <<>> \/ self_node_id.text # ""

\* init(): the test, which holds no lock.  An initialized node answers.
InitTest(w) ==
    /\ worker[w] = "init_test"
    /\ IF AlreadyInitialized
       THEN \E seed \in random_device :
               HandlerReturns(w, create_response(MessageOf(task[w]), seed))
       ELSE /\ worker' = [worker EXCEPT ![w] = "init_ids"]
            /\ UNCHANGED <<task, response, fate>>
    /\ UNCHANGED <<handlerFrame, idVars>>

\* all_node_ids = std::move(all_nodes): the vector takes over the buffer.
InitIds(w) ==
    /\ worker[w] = "init_ids"
    /\ all_node_ids' = [buffer |-> task[w], ids |-> NodeIds(MessageOf(task[w]).body)]
    /\ worker' = [worker EXCEPT ![w] = "init_self"]
    /\ UNCHANGED <<mainVars, queueVars, self_node_id, outVars, historyVars, processVars>>

\* A mutant: the view keeps its old value.
OldView(idx) == self_node_id

\* A view of all_node_ids.at(self_index).
ViewOf(idx) == [buffer |-> all_node_ids.buffer, text |-> all_node_ids.ids[idx]]

\* self_node_id = all_node_ids.at(self_index), then the response.
InitSelf(w) ==
    LET idx == SelfIndex(MessageOf(task[w]).body) IN
    /\ worker[w] = "init_self"
    /\ idx <= Len(all_node_ids.ids)
    /\ self_node_id' = ViewOf(idx)
    /\ \E seed \in random_device :
          HandlerReturns(w, create_response(MessageOf(task[w]), seed))
    /\ UNCHANGED <<handlerFrame, all_node_ids>>

\* Two workers inside init(): at() finds the other's shorter vector and
\* throws, or one assigns the vector while the other assigns or reads it.
InitRace(w) ==
    /\ \/ /\ worker[w] = "init_self"
          /\ SelfIndex(MessageOf(task[w]).body) > Len(all_node_ids.ids)
       \/ /\ worker[w] = "init_ids"
          /\ \E v \in Workers \ {w} : worker[v] \in {"init_ids", "init_self"}
    /\ Crash

-----------------------------------------------------------------------------
(* Writing the response, under mutex_write_response *)

Payload(w) == [part |-> "payload", line |-> task[w], json |-> as_json(response[w])]
Newline(w) == [part |-> "newline", line |-> task[w]]

\* A mutant: responses are written without the lock.
WithoutWriteLock == TRUE

\* std::unique_lock lock(mutex_write_response) does not have to wait.
WriteLockFree == mutex_write_response = Free

\* std::cout << response.as_json()
WritePayload(w) ==
    /\ worker[w] = "write"
    /\ WriteLockFree
    /\ mutex_write_response' = w
    /\ stdout' = Append(stdout, Payload(w))
    /\ worker' = [worker EXCEPT ![w] = "endl"]
    /\ UNCHANGED <<mainVars, queueVars, idVars, response, historyVars, processVars>>

\* << std::endl; the lock is released and the loop starts again.
WriteNewline(w) ==
    /\ worker[w] = "endl"
    /\ stdout' = Append(stdout, Newline(w))
    /\ mutex_write_response' = Free
    /\ worker' = [worker EXCEPT ![w] = "lock"]
    /\ task' = [task EXCEPT ![w] = 0]
    /\ fate' = [fate EXCEPT ![task[w]] = "answered"]
    /\ UNCHANGED <<mainVars, task_queue, mutex_thread_tasks, idVars, response, input, processVars>>

-----------------------------------------------------------------------------
(* Another thread calls stop() *)

StopStore ==
    /\ stopper = "ready"
    /\ main # "done"
    /\ state' = "SHUTDOWN"
    /\ stopper' = "notify"
    /\ UNCHANGED <<main, join_count, worker, queueVars, dataVars, crashed, spurious>>

StopNotify ==
    /\ stopper = "notify"
    /\ stopper' = "absent"
    /\ worker' = WakeAll
    /\ UNCHANGED <<mainVars, queueVars, dataVars, crashed, spurious>>

-----------------------------------------------------------------------------

ReadsInput == GetEmptyLine \/ \E line \in Lines : GetLine(line)

MainStep ==
    /\ ~crashed
    /\ \/ \E w \in Workers : SpawnWorker(w)
       \/ StartRunning \/ TestRunning
       \/ Dispatch \/ DispatchAborts \/ Enqueue \/ NotifyOne
       \/ NotifyAll \/ Join \/ Return

WorkerStep(w) ==
    /\ ~crashed
    /\ \/ Lock(w) \/ TestPredicate(w) \/ Block(w)
       \/ Exit(w) \/ TakeTask(w) \/ TakeFromEmpty(w)
       \/ InvokeEcho(w) \/ InvokeGenerate(w) \/ InvokeInit(w) \/ InvokeAborts(w)
       \/ InitTest(w) \/ InitIds(w) \/ InitSelf(w) \/ InitRace(w)
       \/ WritePayload(w) \/ WriteNewline(w)

Environment ==
    /\ ~crashed
    /\ \/ ReadsInput
       \/ \E w \in Workers : SpuriousWakeup(w)
       \/ StopStore \/ StopNotify

\* The process is gone: run() returned, or it aborted.
Terminated == (crashed \/ main = "done") /\ UNCHANGED vars

Next ==
    \/ MainStep
    \/ \E w \in Workers : WorkerStep(w)
    \/ Environment
    \/ Terminated

Spec == Init /\ [][Next]_vars

\* Every thread that can run eventually does; input, spurious wakeups and
\* calls of stop() need never come.
FairSpec ==
    /\ Spec
    /\ WF_vars(MainStep)
    /\ \A w \in Workers : WF_vars(WorkerStep(w))
    /\ WF_vars(~crashed /\ StopNotify)

-----------------------------------------------------------------------------
(* Properties *)

Parsed == {Parsing[l].value : l \in {k \in Lines : Parsing[k].outcome = "value"}}
Responses ==
    {NoMessage} \cup {create_response(m, s) : m \in Parsed, s \in random_device}
    \cup {EchoResponse(m, s) : m \in {p \in Parsed : contains(p.body, "echo")},
                               s \in random_device}
    \cup {GenerateResponse(m, s, t) : m \in Parsed, s \in random_device,
                                      t \in random_device}

\* What is written to stdout, piece by piece.
Written ==
    [part : {"payload"}, line : Nat, json : {as_json(r) : r \in Responses}]
    \cup [part : {"newline"}, line : Nat]

\* The values the variables take: a task is a line that was read, a mutex
\* is free or held by a worker, the histories have the same length.
TypeOK ==
    /\ main \in MainPc
    /\ state \in NodeState
    /\ join_count \in 0..worker_count
    /\ worker \in [Workers -> WorkerPc]
    /\ task \in [Workers -> Nat]
    /\ response \in [Workers -> Responses]
    /\ task_queue \in Seq(Nat)
    /\ mutex_thread_tasks \in Workers \cup {Free}
    /\ mutex_write_response \in Workers \cup {Free}
    /\ stdout \in Seq(Written)
    /\ crashed \in BOOLEAN
    /\ stopper \in {"absent", "ready", "notify"}
    /\ spurious \in 0..MaxSpurious
    /\ input \in Seq(Lines)
    /\ Len(input) <= MaxLines
    /\ fate \in Seq(Fate)
    /\ Len(fate) = Len(input)

HasTask == {"invoke", "init_test", "init_ids", "init_self", "write", "endl"}

\* Where the task of line n is: with the main thread between the test and
\* the queue, in the queue, with a worker.
WithMain(n) == main = "enqueue" /\ n = Len(input)
Queued(n) == \E i \in DOMAIN task_queue : task_queue[i] = n
WithWorker(n) == \E w \in Workers : worker[w] \in HasTask /\ task[w] = n

\* No request is lost and none is handled twice: a line that dispatch_message
\* accepted and worker_loop has not finished is in exactly one place, and
\* nothing else is.  The queue is first-in first-out: what is still queued
\* was read after everything a worker holds.
TasksAccountedFor ==
    /\ \A n \in DOMAIN input :
          fate[n] = "accepted" <=> WithMain(n) \/ Queued(n) \/ WithWorker(n)
    /\ \A i, j \in DOMAIN task_queue : i < j => task_queue[i] < task_queue[j]
    /\ \A w \in Workers : worker[w] \in HasTask =>
          /\ \A i \in DOMAIN task_queue : task[w] < task_queue[i]
          /\ \A v \in Workers \ {w} : worker[v] \in HasTask => task[v] # task[w]
    /\ main = "enqueue" => ~Queued(Len(input)) /\ ~WithWorker(Len(input))

\* No worker calls front() or pop() on an empty queue: between the predicate
\* that let it through and the pop, no other worker took the task.
PopsAreSafe ==
    \A w \in Workers : worker[w] = "check" => state = "SHUTDOWN" \/ task_queue # <<>>

\* When run() logs "clean node shutdown finished" every accepted request
\* has been handled: the workers leave the loop only with the queue drained.
CleanShutdown == main = "done" => \A n \in DOMAIN fate : fate[n] # "accepted"

\* run() leaves requests unhandled only when another thread has called stop(),
\* which lets the workers go while the main thread still reads: otherwise none,
\* whatever the lines were.  What is left is the end of the accepted requests:
\* none that was read later has been handled.
OnlyStopLeavesRequests ==
    main = "done" =>
        \A n \in DOMAIN fate : fate[n] = "accepted" =>
            /\ stopper # "ready"
            /\ \A m \in (n + 1)..Len(fate) : fate[m] \notin {"silent", "answered"}

\* A worker that leaves worker_loop leaves nothing behind that could still
\* need it: the main thread has stopped reading and the queue is empty.
ExitsAreFinal ==
    (\E w \in Workers : worker[w] = "exited") =>
        state = "SHUTDOWN" /\ task_queue = <<>> /\ main \in {"notify_all", "join", "done"}

\* The responses of concurrent workers do not mix: stdout is a sequence of
\* payloads each followed by its own newline (mutex_write_response).
WholeLines ==
    \A i \in DOMAIN stdout :
        /\ stdout[i].part = (IF i % 2 = 1 THEN "payload" ELSE "newline")
        /\ i % 2 = 0 => stdout[i].line = stdout[i - 1].line

\* The payloads written for line n.
PayloadsFor(n) == {i \in DOMAIN stdout : stdout[i].part = "payload" /\ stdout[i].line = n}

Answers(doc, msg) ==
    LET body == field(doc, "body") IN
    /\ get(field(doc, "src")) = msg.to
    /\ get(field(doc, "dest")) = msg.from
    /\ get(field(body, "type")) = message_type_to_string[response_type[msg.type]]
    /\ contains(body, "in_reply_to") <=> is_valid(msg.id)
    /\ is_valid(msg.id) => field(body, "in_reply_to") = as_json_id(msg.id)

\* A request is answered at most once, by a response of its own type, sent
\* back to its sender under its own id, and a line counts as answered when
\* and only when that response is on stdout.
RepliesMatchRequests ==
    \A n \in DOMAIN input :
        /\ Cardinality(PayloadsFor(n)) <= 1
        /\ \A i \in PayloadsFor(n) : Answers(stdout[i].json, MessageOf(n))
        /\ fate[n] = "answered" <=>
              \E i \in DOMAIN stdout : stdout[i].part = "newline" /\ stdout[i].line = n

\* A node that has an identity keeps it ("received 'init' message after
\* node already initialized").
IdentityIsFinal == [][self_node_id.text # "" => UNCHANGED idVars]_vars

\* An init request that named the node has been answered.
InitConfirmed ==
    \E i \in DOMAIN stdout :
        LET msg == MessageOf(stdout[i].line) IN
        /\ stdout[i].part = "newline"
        /\ msg.type = "INIT_REQ"
        /\ HasNodeId(msg.body) /\ NodeId(msg.body) # ""

\* Once a client can have seen init_ok, dispatch_message ignores no request
\* as coming "before node has been initialized".
NothingIgnoredAfterInitOk ==
    [][InitConfirmed => \A n \in DOMAIN fate' :
          fate'[n] = "ignored" => n \in DOMAIN fate /\ fate[n] = "ignored"]_vars

\* Every accepted request is eventually handled, unless the process aborts:
\* the notification that follows the enqueueing is never missed.
RequestsAreHandled ==
    \A n \in 1..MaxLines :
        (n \in DOMAIN fate /\ fate[n] = "accepted") ~>
            (crashed \/ (n \in DOMAIN fate /\ fate[n] \in {"silent", "answered"}))

\* run() returns once every worker that did not miss the notification has
\* been woken: with no worker in wait() when it starts to join, it joins
\* them all.
JoinCompletes ==
    (main = "join" /\ \A w \in Workers : worker[w] \notin {"block", "waiting"}) ~>
        (crashed \/ main = "done")

\* The service as its clients see it.
ServicePhase ==
    IF crashed THEN "crashed"
    ELSE IF main = "done" THEN "closed"
    ELSE IF main \in {"notify_all", "join"} THEN "closing"
    ELSE "open"

Lined(fates) == {n \in DOMAIN fate : fate[n] \in fates}

Service == INSTANCE RequestService WITH
    Requests <- 1..MaxLines,
    phase <- ServicePhase,
    pending <- Lined({"accepted"}),
    done <- Lined({"silent", "answered"})

\* The pool of workers, its queue and its locks implement RequestService:
\* requests are accepted only while the node is open, finished once, and
\* run() returns with none of them left.
ImplementsService == Service!Spec

\* A shutdown that began ends: run() joins all workers and returns.
ShutdownCompletes == state = "SHUTDOWN" ~> (crashed \/ main = "done")
=============================================================================
