----------------------------- MODULE NodeProofs -----------------------------
(***************************************************************************)
(* Theorems about Node, for every number of workers, every set of lines    *)
(* and every bound.                                                        *)
(***************************************************************************)
EXTENDS Node, FiniteSetTheorems, WellFoundedInduction, TLAPS

-----------------------------------------------------------------------------
(* The inductive invariant *)

\* What TasksAccountedFor needs to be inductive: a task is the number of a
\* line that was read, accepted and parsed, and the line the main thread is
\* dispatching has no fate yet.
LinesTracked ==
    /\ main \in {"dispatch", "enqueue"} => Len(input) > 0
    /\ main = "dispatch" => fate[Len(input)] = "read"
    /\ \A i \in DOMAIN task_queue : task_queue[i] \in DOMAIN input
    /\ \A w \in Workers : worker[w] \in HasTask => task[w] \in DOMAIN input
    /\ \A n \in DOMAIN input : fate[n] = "accepted" => Parsing[input[n]].outcome = "value"

TaskInv == TypeOK /\ LinesTracked /\ TasksAccountedFor

-----------------------------------------------------------------------------
(* Sequences *)

\* What emplace() does to a queue and getline to the input.
LEMMA AppendFacts ==
    ASSUME NEW S, NEW s \in Seq(S), NEW e \in S
    PROVE  /\ Append(s, e) \in Seq(S)
           /\ Len(Append(s, e)) = Len(s) + 1
           /\ DOMAIN Append(s, e) = 1..(Len(s) + 1)
           /\ \A i \in 1..Len(s) : Append(s, e)[i] = s[i]
           /\ Append(s, e)[Len(s) + 1] = e
    OBVIOUS

\* What front() and pop() do to a queue.
LEMMA TailFacts ==
    ASSUME NEW S, NEW s \in Seq(S), s # <<>>
    PROVE  /\ Len(s) > 0
           /\ Head(s) = s[1]
           /\ Head(s) \in S
           /\ Tail(s) \in Seq(S)
           /\ Len(Tail(s)) = Len(s) - 1
           /\ DOMAIN Tail(s) = 1..(Len(s) - 1)
           /\ \A i \in 1..(Len(s) - 1) : Tail(s)[i] = s[i + 1]
    OBVIOUS

\* What recording a fate does to the history.
LEMMA ExceptFacts ==
    ASSUME NEW S, NEW s \in Seq(S), NEW k \in 1..Len(s), NEW e \in S
    PROVE  /\ [s EXCEPT ![k] = e] \in Seq(S)
           /\ Len([s EXCEPT ![k] = e]) = Len(s)
           /\ DOMAIN [s EXCEPT ![k] = e] = 1..Len(s)
           /\ [s EXCEPT ![k] = e][k] = e
           /\ \A i \in 1..Len(s) : i # k => [s EXCEPT ![k] = e][i] = s[i]
    OBVIOUS

-----------------------------------------------------------------------------
(* Types *)

\* A message that was accepted is one of the messages the lines parse to.
LEMMA MessageFacts ==
    ASSUME TypeOK, LinesTracked, TasksAccountedFor,
           NEW w \in Workers, worker[w] \in HasTask
    PROVE  /\ task[w] \in 1..Len(fate)
           /\ fate[task[w]] = "accepted"
           /\ MessageOf(task[w]) \in Parsed
    <1>1. task[w] \in DOMAIN input /\ DOMAIN input = 1..Len(input)
        BY DEF LinesTracked, TypeOK
    <1>2. fate[task[w]] = "accepted"
        BY <1>1 DEF TasksAccountedFor, WithWorker
    <1>3. input[task[w]] \in Lines
        BY <1>1 DEF TypeOK
    <1>4. Parsing[input[task[w]]].outcome = "value"
        BY <1>1, <1>2 DEF LinesTracked
    <1> QED BY <1>1, <1>2, <1>3, <1>4 DEF TypeOK, Parsed, MessageOf

\* What the return of a handler does to the variables' types.
LEMMA HandlerTypes ==
    ASSUME TypeOK, LinesTracked, TasksAccountedFor,
           NEW w \in Workers, worker[w] \in HasTask,
           NEW r \in Responses, HandlerReturns(w, r)
    PROVE  /\ worker' \in [Workers -> WorkerPc]
           /\ task' \in [Workers -> Nat]
           /\ response' \in [Workers -> Responses]
           /\ fate' \in Seq(Fate)
           /\ Len(fate') = Len(fate)
    <1>1. task[w] \in 1..Len(fate) /\ fate \in Seq(Fate)
        BY MessageFacts DEF TypeOK
    <1>2. /\ [fate EXCEPT ![task[w]] = "silent"] \in Seq(Fate)
          /\ Len([fate EXCEPT ![task[w]] = "silent"]) = Len(fate)
        BY <1>1, ExceptFacts DEF Fate
    <1>3. response' \in [Workers -> Responses]
        BY DEF HandlerReturns, Returned, TypeOK
    <1>4. CASE r.type # "INVALID"
        <2>1. UNCHANGED <<task, fate>>
            BY <1>4 DEF HandlerReturns
        <2>2. worker' \in [Workers -> WorkerPc]
            BY <1>4 DEF HandlerReturns, TypeOK, WorkerPc
        <2>3. task' \in [Workers -> Nat]
            BY <2>1 DEF TypeOK
        <2> QED BY <1>1, <1>3, <2>1, <2>2, <2>3
    <1>5. CASE r.type = "INVALID"
        <2>1. fate' = [fate EXCEPT ![task[w]] = "silent"]
            BY <1>5 DEF HandlerReturns
        <2>2. worker' \in [Workers -> WorkerPc]
            BY <1>5 DEF HandlerReturns, TypeOK, WorkerPc
        <2>3. task' = [task EXCEPT ![w] = 0] /\ task \in [Workers -> Nat]
            BY <1>5 DEF HandlerReturns, TypeOK
        <2> QED BY <1>2, <1>3, <2>1, <2>2, <2>3
    <1> QED BY <1>4, <1>5

\* The responses handlers make.
LEMMA ResponseFacts ==
    ASSUME NEW m \in Parsed, NEW s \in random_device, NEW t \in random_device
    PROVE  /\ NoMessage \in Responses
           /\ create_response(m, s) \in Responses
           /\ contains(m.body, "echo") => EchoResponse(m, s) \in Responses
           /\ GenerateResponse(m, s, t) \in Responses
    BY DEF Responses

LEMMA TypeStep ==
    ASSUME TypeOK, LinesTracked, TasksAccountedFor, [Next]_vars
    PROVE  TypeOK'
    <1> USE DEF mainVars, queueVars, idVars, outVars, historyVars, dataVars, processVars,
                handlerFrame
    <1>1. CASE UNCHANGED vars
        BY <1>1 DEF TypeOK, vars
    <1>2. ASSUME NEW w \in Workers, SpawnWorker(w) PROVE TypeOK'
        BY <1>2 DEF SpawnWorker, TypeOK, WorkerPc
    <1>3. CASE StartRunning
        BY <1>3 DEF StartRunning, TypeOK, MainPc, NodeState
    <1>4. CASE TestRunning
        BY <1>4 DEF TestRunning, TypeOK, MainPc
    <1>5. CASE Dispatch
        <2>1. Len(input) \in 1..Len(fate)
            BY <1>5 DEF Dispatch, TypeOK, LinesTracked
        <2>2. Disposition(Parsing[input[Len(input)]]) \in Fate
            BY DEF Disposition, Fate
        <2>3. fate' \in Seq(Fate) /\ Len(fate') = Len(fate)
            BY <1>5, <2>1, <2>2, ExceptFacts DEF Dispatch, TypeOK
        <2> QED BY <1>5, <2>3 DEF Dispatch, TypeOK, MainPc
    <1>6. CASE Crash
        BY <1>6 DEF Crash, TypeOK
    <1>7. CASE Enqueue
        <2>1. task_queue' \in Seq(Nat)
            BY <1>7, AppendFacts DEF Enqueue, Pushed, TypeOK
        <2> QED BY <1>7, <2>1 DEF Enqueue, TypeOK, MainPc
    <1>8. CASE NotifyOne
        BY <1>8 DEF NotifyOne, Waiting, TypeOK, MainPc, WorkerPc
    <1>9. CASE NotifyAll
        BY <1>9 DEF NotifyAll, WakeAll, TypeOK, MainPc, WorkerPc
    <1>10. CASE Join
        BY <1>10, NodeAssumption DEF Join, TypeOK
    <1>11. CASE Return
        BY <1>11 DEF Return, TypeOK, MainPc
    <1>12. ASSUME NEW line \in Lines, GetLine(line) PROVE TypeOK'
        <2>1. /\ input' \in Seq(Lines) /\ Len(input') = Len(input) + 1
              /\ fate' \in Seq(Fate) /\ Len(fate') = Len(fate) + 1
            BY <1>12, AppendFacts DEF GetLine, TypeOK, Fate
        <2>2. Len(input') <= MaxLines
            BY <1>12, <2>1, NodeAssumption DEF GetLine, TypeOK
        <2> QED BY <1>12, <2>1, <2>2 DEF GetLine, TypeOK, MainPc
    <1>13. CASE GetEmptyLine
        BY <1>13 DEF GetEmptyLine, TypeOK, MainPc, NodeState
    <1>14. ASSUME NEW w \in Workers, SpuriousWakeup(w) PROVE TypeOK'
        BY <1>14, NodeAssumption DEF SpuriousWakeup, TypeOK, WorkerPc
    <1>15. CASE StopStore
        BY <1>15 DEF StopStore, TypeOK, NodeState
    <1>16. CASE StopNotify
        BY <1>16 DEF StopNotify, WakeAll, TypeOK, WorkerPc
    <1>17. ASSUME NEW w \in Workers, Lock(w) PROVE TypeOK'
        BY <1>17 DEF Lock, TypeOK, WorkerPc
    <1>18. ASSUME NEW w \in Workers, TestPredicate(w) PROVE TypeOK'
        BY <1>18 DEF TestPredicate, TypeOK, WorkerPc
    <1>19. ASSUME NEW w \in Workers, Block(w) PROVE TypeOK'
        BY <1>19 DEF Block, TypeOK, WorkerPc
    <1>20. ASSUME NEW w \in Workers, Exit(w) PROVE TypeOK'
        BY <1>20 DEF Exit, TypeOK, WorkerPc
    <1>21. ASSUME NEW w \in Workers, TakeTask(w) PROVE TypeOK'
        <2>1. Head(task_queue) \in Nat /\ task_queue' \in Seq(Nat)
            BY <1>21, TailFacts DEF TakeTask, Popped, TypeOK
        <2> QED BY <1>21, <2>1 DEF TakeTask, TypeOK, WorkerPc
    <1>22. ASSUME NEW w \in Workers,
                  \/ InvokeEcho(w) \/ InvokeGenerate(w) \/ InvokeInit(w)
                  \/ InitTest(w) \/ InitSelf(w)
           PROVE  TypeOK'
        <2>1. worker[w] \in HasTask
            BY <1>22 DEF InvokeEcho, InvokeGenerate, InvokeInit, InitTest, InitSelf, HasTask
        <2>2. MessageOf(task[w]) \in Parsed
            BY <2>1, MessageFacts
        <2>3. CASE \E r \in Responses : HandlerReturns(w, r)
            <3>1. PICK r \in Responses : HandlerReturns(w, r)
                BY <2>3
            <3>2. /\ worker' \in [Workers -> WorkerPc]
                  /\ task' \in [Workers -> Nat]
                  /\ response' \in [Workers -> Responses]
                  /\ fate' \in Seq(Fate)
                  /\ Len(fate') = Len(fate)
                BY <2>1, <3>1, HandlerTypes
            <3> QED BY <1>22, <3>2 DEF InvokeEcho, InvokeGenerate, InvokeInit, InitTest,
                                       InitSelf, TypeOK
        <2>4. CASE /\ \E pc \in WorkerPc : worker' = [worker EXCEPT ![w] = pc]
                   /\ UNCHANGED <<task, response, fate>>
            BY <1>22, <2>4 DEF InvokeEcho, InvokeGenerate, InvokeInit, InitTest, InitSelf,
                               TypeOK
        <2>5. InvokeEcho(w) => \E r \in Responses : HandlerReturns(w, r)
            BY <2>2, ResponseFacts DEF InvokeEcho
        <2>6. InvokeGenerate(w) => \E r \in Responses : HandlerReturns(w, r)
            BY <2>2, ResponseFacts DEF InvokeGenerate
        <2>7. NoMessage \in Responses
            BY DEF Responses
        <2>8. \A s \in random_device : create_response(MessageOf(task[w]), s) \in Responses
            BY <2>2, ResponseFacts
        <2> QED BY <1>22, <2>3, <2>4, <2>5, <2>6, <2>7, <2>8
                DEF InvokeInit, InitTest, InitSelf, WorkerPc
    <1>23. ASSUME NEW w \in Workers, InitIds(w) PROVE TypeOK'
        BY <1>23 DEF InitIds, TypeOK, WorkerPc
    <1>24. ASSUME NEW w \in Workers, WritePayload(w) PROVE TypeOK'
        <2>1. Payload(w) \in Written
            BY DEF Payload, Written, TypeOK
        <2>2. stdout' \in Seq(Written)
            BY <1>24, <2>1, AppendFacts DEF WritePayload, TypeOK
        <2> QED BY <1>24, <2>2 DEF WritePayload, TypeOK, WorkerPc
    <1>25. ASSUME NEW w \in Workers, WriteNewline(w) PROVE TypeOK'
        <2>1. task[w] \in 1..Len(fate)
            BY <1>25, MessageFacts DEF WriteNewline, HasTask
        <2>2. fate' \in Seq(Fate) /\ Len(fate') = Len(fate)
            BY <1>25, <2>1, ExceptFacts DEF WriteNewline, TypeOK, Fate
        <2>3. Newline(w) \in Written
            BY DEF Newline, Written, TypeOK
        <2>4. stdout' \in Seq(Written)
            BY <1>25, <2>3, AppendFacts DEF WriteNewline, TypeOK
        <2> QED BY <1>25, <2>2, <2>4 DEF WriteNewline, TypeOK, WorkerPc
    <1> QED
        BY <1>1, <1>2, <1>3, <1>4, <1>5, <1>6, <1>7, <1>8, <1>9, <1>10, <1>11, <1>12, <1>13,
           <1>14, <1>15, <1>16, <1>17, <1>18, <1>19, <1>20, <1>21, <1>22, <1>23, <1>24, <1>25
        DEF Next, MainStep, WorkerStep, Environment, ReadsInput, Terminated, DispatchAborts,
            TakeFromEmpty, InvokeAborts,
            EchoAborts, InitAborts, InitRace

-----------------------------------------------------------------------------
(* Where the tasks are *)

\* A step that moves no task: queue and histories stay, the main thread does
\* not enter or leave the dispatching of a line, each worker keeps its task.
LEMMA TasksStay ==
    ASSUME TypeOK, LinesTracked, TasksAccountedFor,
           UNCHANGED <<task_queue, input, fate>>,
           \/ main' = main
           \/ main \notin {"dispatch", "enqueue"} /\ main' \notin {"dispatch", "enqueue"},
           \A w \in Workers : worker'[w] \in HasTask <=> worker[w] \in HasTask,
           \A w \in Workers : worker'[w] \in HasTask => task'[w] = task[w]
    PROVE  LinesTracked' /\ TasksAccountedFor'
    <1>1. LinesTracked'
        BY DEF LinesTracked
    <1> USE DEF TasksAccountedFor, WithMain, Queued, WithWorker
    <1>2. (\A n \in DOMAIN input :
              fate[n] = "accepted" <=> WithMain(n) \/ Queued(n) \/ WithWorker(n))'
        BY DEF LinesTracked
    <1>3. (main = "enqueue" => ~Queued(Len(input)) /\ ~WithWorker(Len(input)))'
        OBVIOUS
    <1>4. (\A i, j \in DOMAIN task_queue : i < j => task_queue[i] < task_queue[j])'
        OBVIOUS
    <1>5. (\A w \in Workers : worker[w] \in HasTask =>
             /\ \A i \in DOMAIN task_queue : task[w] < task_queue[i]
             /\ \A v \in Workers \ {w} : worker[v] \in HasTask => task[v] # task[w])'
        OBVIOUS
    <1> QED BY <1>1, <1>2, <1>3, <1>4, <1>5

\* A worker is done with its task.
LEMMA TaskFinished ==
    ASSUME TypeOK, LinesTracked, TasksAccountedFor,
           NEW w \in Workers, worker[w] \in HasTask,
           NEW f \in Fate \ {"accepted"},
           worker' = [worker EXCEPT ![w] = "lock"],
           task' = [task EXCEPT ![w] = 0],
           fate' = [fate EXCEPT ![task[w]] = f],
           UNCHANGED <<main, task_queue, input>>
    PROVE  LinesTracked' /\ TasksAccountedFor'
    <1> DEFINE k == task[w]
    <1>1. /\ k \in DOMAIN input /\ k \in 1..Len(fate) /\ fate[k] = "accepted"
          /\ fate \in Seq(Fate) /\ DOMAIN input = 1..Len(fate)
          /\ Len(fate) = Len(input)
        BY MessageFacts DEF LinesTracked, TypeOK
    <1>2. /\ fate'[k] = f
          /\ \A n \in DOMAIN input : n # k => fate'[n] = fate[n]
        BY <1>1, ExceptFacts
    <1>3. \A v \in Workers : /\ v # w => worker'[v] = worker[v] /\ task'[v] = task[v]
                             /\ worker'[v] \in HasTask => v # w
        BY DEF TypeOK, HasTask
    <1>4. LinesTracked'
        <2>1. main = "dispatch" => Len(input) # k /\ Len(input) \in DOMAIN input
            BY <1>1 DEF LinesTracked
        <2> QED BY <1>1, <1>2, <1>3, <2>1 DEF LinesTracked
    <1> USE DEF TasksAccountedFor, WithMain, Queued, WithWorker
    <1>5. /\ main = "enqueue" => k # Len(input)
          /\ \A i \in DOMAIN task_queue : task_queue[i] # k
          /\ \A v \in Workers \ {w} : worker[v] \in HasTask => task[v] # k
        BY DEF TypeOK
    <1>6. (\A n \in DOMAIN input :
              fate[n] = "accepted" <=> WithMain(n) \/ Queued(n) \/ WithWorker(n))'
        <2> SUFFICES ASSUME NEW n \in DOMAIN input
                     PROVE  fate'[n] = "accepted" <=>
                                \/ main = "enqueue" /\ n = Len(input)
                                \/ \E i \in DOMAIN task_queue : task_queue[i] = n
                                \/ \E v \in Workers : worker'[v] \in HasTask /\ task'[v] = n
            OBVIOUS
        <2>1. CASE n = k
            BY <1>2, <1>3, <1>5, <2>1
        <2>2. CASE n # k
            BY <1>2, <1>3, <2>2
        <2> QED BY <2>1, <2>2
    <1>7. (main = "enqueue" => ~Queued(Len(input)) /\ ~WithWorker(Len(input)))'
        BY <1>3
    <1>8. (\A v \in Workers : worker[v] \in HasTask =>
             /\ \A i \in DOMAIN task_queue : task[v] < task_queue[i]
             /\ \A u \in Workers \ {v} : worker[u] \in HasTask => task[u] # task[v])'
        BY <1>3
    <1>9. (\A i, j \in DOMAIN task_queue : i < j => task_queue[i] < task_queue[j])'
        OBVIOUS
    <1> QED BY <1>4, <1>6, <1>7, <1>8, <1>9

\* A line is read: no task has its number.
LEMMA GetLineTasks ==
    ASSUME TypeOK, LinesTracked, TasksAccountedFor, NEW line \in Lines, GetLine(line)
    PROVE  LinesTracked' /\ TasksAccountedFor'
    <1> DEFINE k == Len(input) + 1
    <1>1. /\ Len(input) \in Nat /\ Len(input') = k /\ Len(fate) = Len(input)
          /\ DOMAIN input = 1..Len(input) /\ DOMAIN input' = 1..k
        BY AppendFacts DEF GetLine, TypeOK, Fate
    <1>2. /\ \A n \in DOMAIN input : input'[n] = input[n] /\ fate'[n] = fate[n]
          /\ fate'[k] = "read"
        BY <1>1, AppendFacts DEF GetLine, TypeOK, Fate
    <1>3. main = "getline" /\ main' = "dispatch" /\ UNCHANGED <<worker, task, task_queue>>
        BY DEF GetLine, queueVars
    <1>4. LinesTracked'
        BY <1>1, <1>2, <1>3 DEF LinesTracked
    <1> USE DEF TasksAccountedFor, WithMain, Queued, WithWorker
    <1>5. (\A n \in DOMAIN input :
              fate[n] = "accepted" <=> WithMain(n) \/ Queued(n) \/ WithWorker(n))'
        <2> SUFFICES ASSUME NEW n \in 1..k
                     PROVE  fate'[n] = "accepted" <=>
                                \/ \E i \in DOMAIN task_queue : task_queue[i] = n
                                \/ \E v \in Workers : worker[v] \in HasTask /\ task[v] = n
            BY <1>1, <1>3
        <2>1. CASE n = k
            BY <1>1, <1>2, <2>1 DEF LinesTracked
        <2>2. CASE n # k
            BY <1>1, <1>2, <1>3, <2>2
        <2> QED BY <2>1, <2>2
    <1> QED BY <1>3, <1>4, <1>5

\* What Message::parse returns.
LEMMA ParseOutcomes ==
    ASSUME NEW line \in Lines
    PROVE  Parsing[line].outcome \in {"value", "nullopt", "abort"}
    <1>1. from_json(line).outcome \in {"value", "nullopt", "abort"}
        BY DEF from_json, FromFields, Some, NullOpt, Aborted
    <1> QED BY <1>1 DEF Parsing, parse, NullOpt

\* dispatch_message() decides what becomes of the line.
LEMMA DispatchTasks ==
    ASSUME TypeOK, LinesTracked, TasksAccountedFor, Dispatch
    PROVE  LinesTracked' /\ TasksAccountedFor'
    <1> DEFINE k == Len(input)
               d == Disposition(Parsing[input[k]])
    <1>1. /\ k \in 1..Len(fate) /\ fate \in Seq(Fate) /\ fate[k] = "read"
          /\ k \in DOMAIN input /\ DOMAIN input = 1..Len(fate)
        BY DEF Dispatch, TypeOK, LinesTracked
    <1>2. d \in Fate /\ d # "read" /\ (d = "accepted" => Parsing[input[k]].outcome = "value")
        <2>1. input[k] \in Lines
            BY <1>1 DEF TypeOK
        <2> QED BY <2>1, ParseOutcomes DEF Dispatch, Disposition, Fate
    <1>3. /\ fate'[k] = d
          /\ \A n \in DOMAIN input : n # k => fate'[n] = fate[n]
        BY <1>1, <1>2, ExceptFacts DEF Dispatch
    <1>4. /\ main = "dispatch" /\ main' = IF d = "accepted" THEN "enqueue" ELSE "loop"
          /\ UNCHANGED <<worker, task, task_queue, input>>
        BY DEF Dispatch, queueVars
    <1>5. LinesTracked'
        BY <1>1, <1>2, <1>3, <1>4 DEF LinesTracked
    <1> HIDE DEF d
    <1> USE DEF TasksAccountedFor, WithMain, Queued, WithWorker
    <1>6. /\ ~\E i \in DOMAIN task_queue : task_queue[i] = k
          /\ ~\E v \in Workers : worker[v] \in HasTask /\ task[v] = k
        BY <1>1
    <1>7. (\A n \in DOMAIN input :
              fate[n] = "accepted" <=> WithMain(n) \/ Queued(n) \/ WithWorker(n))'
        <2> SUFFICES ASSUME NEW n \in DOMAIN input
                     PROVE  fate'[n] = "accepted" <=>
                                \/ main' = "enqueue" /\ n = k
                                \/ \E i \in DOMAIN task_queue : task_queue[i] = n
                                \/ \E v \in Workers : worker[v] \in HasTask /\ task[v] = n
            BY <1>4
        <2>1. CASE n = k
            BY <1>3, <1>4, <1>6, <2>1
        <2>2. CASE n # k
            BY <1>3, <1>4, <2>2
        <2> QED BY <2>1, <2>2
    <1>8. (main = "enqueue" => ~Queued(Len(input)) /\ ~WithWorker(Len(input)))'
        BY <1>4, <1>6
    <1> QED BY <1>4, <1>5, <1>7, <1>8

\* The critical section of dispatch_message(): the task goes behind all others.
LEMMA EnqueueTasks ==
    ASSUME TypeOK, LinesTracked, TasksAccountedFor, Enqueue
    PROVE  LinesTracked' /\ TasksAccountedFor'
    <1> DEFINE k == Len(input)
               q == Len(task_queue)
    <1>1. /\ k \in DOMAIN input /\ DOMAIN input = 1..k /\ k \in Nat
          /\ main = "enqueue" /\ main' = "notify_one"
          /\ UNCHANGED <<worker, task, input, fate>>
        BY DEF Enqueue, dataVars, historyVars, TypeOK, LinesTracked
    <1>2. /\ q \in Nat /\ DOMAIN task_queue = 1..q /\ DOMAIN task_queue' = 1..(q + 1)
          /\ \A i \in 1..q : task_queue'[i] = task_queue[i]
          /\ task_queue'[q + 1] = k
        BY AppendFacts DEF Enqueue, Pushed, TypeOK
    <1>3. LinesTracked'
        BY <1>1, <1>2 DEF LinesTracked
    <1> USE DEF TasksAccountedFor, WithMain, Queued, WithWorker
    <1>4. /\ \A i \in 1..q : task_queue[i] \in Nat /\ task_queue[i] < k
          /\ \A v \in Workers : worker[v] \in HasTask => task[v] \in Nat /\ task[v] < k
        <2>1. \A i \in 1..q : task_queue[i] \in 1..k /\ task_queue[i] # k
            BY <1>1, <1>2 DEF LinesTracked
        <2>2. \A v \in Workers : worker[v] \in HasTask => task[v] \in 1..k /\ task[v] # k
            BY <1>1 DEF LinesTracked
        <2> QED BY <1>1, <2>1, <2>2
    <1>5. (\A n \in DOMAIN input :
              fate[n] = "accepted" <=> WithMain(n) \/ Queued(n) \/ WithWorker(n))'
        <2> SUFFICES ASSUME NEW n \in DOMAIN input
                     PROVE  fate[n] = "accepted" <=>
                                \/ \E i \in DOMAIN task_queue' : task_queue'[i] = n
                                \/ \E v \in Workers : worker[v] \in HasTask /\ task[v] = n
            BY <1>1
        <2>1. (\E i \in DOMAIN task_queue' : task_queue'[i] = n) <=>
                n = k \/ \E i \in DOMAIN task_queue : task_queue[i] = n
            BY <1>2
        <2> QED BY <1>1, <2>1
    <1>6. (\A i, j \in DOMAIN task_queue : i < j => task_queue[i] < task_queue[j])'
        BY <1>2, <1>4
    <1>7. (\A v \in Workers : worker[v] \in HasTask =>
             /\ \A i \in DOMAIN task_queue : task[v] < task_queue[i]
             /\ \A u \in Workers \ {v} : worker[u] \in HasTask => task[u] # task[v])'
        <2>1. \A v \in Workers : worker[v] \in HasTask =>
                \A i \in 1..(q + 1) : task[v] < task_queue'[i]
            <3> SUFFICES ASSUME NEW v \in Workers, worker[v] \in HasTask, NEW i \in 1..(q + 1)
                         PROVE  task[v] < task_queue'[i]
                OBVIOUS
            <3>1. CASE i = q + 1
                BY <1>2, <1>4, <3>1
            <3>2. CASE i \in 1..q
                BY <1>2, <3>2
            <3> QED BY <1>2, <3>1, <3>2
        <2> QED BY <1>1, <1>2, <2>1
    <1> QED BY <1>1, <1>3, <1>5, <1>6, <1>7

\* A worker takes the front of the queue, which is older than the rest.
LEMMA TakeTaskTasks ==
    ASSUME TypeOK, LinesTracked, TasksAccountedFor, NEW w \in Workers, TakeTask(w)
    PROVE  LinesTracked' /\ TasksAccountedFor'
    <1> DEFINE q == Len(task_queue)
    <1>1. /\ q \in Nat \ {0} /\ DOMAIN task_queue = 1..q /\ DOMAIN task_queue' = 1..(q - 1)
          /\ \A i \in 1..(q - 1) : task_queue'[i] = task_queue[i + 1]
          /\ Head(task_queue) = task_queue[1]
        BY TailFacts DEF TakeTask, Popped, TypeOK
    <1>2. /\ worker' = [worker EXCEPT ![w] = "invoke"]
          /\ task' = [task EXCEPT ![w] = task_queue[1]]
          /\ worker[w] = "check"
          /\ UNCHANGED <<main, input, fate>>
        BY <1>1 DEF TakeTask, mainVars, dataVars, historyVars
    <1>3. /\ worker'[w] \in HasTask /\ worker[w] \notin HasTask /\ task'[w] = task_queue[1]
          /\ \A v \in Workers \ {w} : worker'[v] = worker[v] /\ task'[v] = task[v]
        BY <1>2 DEF TypeOK, HasTask
    <1>4. LinesTracked'
        BY <1>1, <1>2, <1>3 DEF LinesTracked
    <1> USE DEF TasksAccountedFor, WithMain, Queued, WithWorker
    <1>5. (\A n \in DOMAIN input :
              fate[n] = "accepted" <=> WithMain(n) \/ Queued(n) \/ WithWorker(n))'
        <2> SUFFICES ASSUME NEW n \in DOMAIN input
                     PROVE  fate[n] = "accepted" <=>
                                \/ main = "enqueue" /\ n = Len(input)
                                \/ \E i \in DOMAIN task_queue' : task_queue'[i] = n
                                \/ \E v \in Workers : worker'[v] \in HasTask /\ task'[v] = n
            BY <1>2
        <2>1. (\E i \in DOMAIN task_queue : task_queue[i] = n) <=>
                n = task_queue[1] \/ \E i \in DOMAIN task_queue' : task_queue'[i] = n
            <3>1. \A i \in 1..q : i = 1 \/ (i - 1 \in 1..(q - 1) /\ task_queue[i] = task_queue'[i - 1])
                BY <1>1
            <3>2. \A i \in 1..(q - 1) : i + 1 \in 1..q /\ task_queue[i + 1] = task_queue'[i]
                BY <1>1
            <3>3. 1 \in 1..q
                BY <1>1
            <3>4. ASSUME NEW i \in 1..q, task_queue[i] = n
                  PROVE  n = task_queue[1] \/ \E j \in 1..(q - 1) : task_queue'[j] = n
                BY <3>1, <3>4
            <3>5. ASSUME NEW j \in 1..(q - 1), task_queue'[j] = n
                  PROVE  \E i \in 1..q : task_queue[i] = n
                BY <3>2, <3>5
            <3> QED BY <1>1, <3>3, <3>4, <3>5
        <2>2. (\E v \in Workers : worker'[v] \in HasTask /\ task'[v] = n) <=>
                n = task_queue[1] \/ \E v \in Workers : worker[v] \in HasTask /\ task[v] = n
            BY <1>3
        <2> QED BY <2>1, <2>2
    <1>6. (\A i, j \in DOMAIN task_queue : i < j => task_queue[i] < task_queue[j])'
        <2> SUFFICES ASSUME NEW i \in 1..(q - 1), NEW j \in 1..(q - 1), i < j
                     PROVE  task_queue'[i] < task_queue'[j]
            BY <1>1
        <2>1. i + 1 \in 1..q /\ j + 1 \in 1..q /\ i + 1 < j + 1
            BY <1>1
        <2>2. task_queue[i + 1] < task_queue[j + 1]
            BY <1>1, <2>1
        <2> QED BY <1>1, <2>2
    <1>7. (\A v \in Workers : worker[v] \in HasTask =>
             /\ \A i \in DOMAIN task_queue : task[v] < task_queue[i]
             /\ \A u \in Workers \ {v} : worker[u] \in HasTask => task[u] # task[v])'
        <2>1. \A v \in Workers : worker[v] \in HasTask => task[v] < task_queue[1]
            BY <1>1
        <2>2. \A i \in 1..(q - 1) : task_queue[1] < task_queue'[i]
            BY <1>1
        <2>3. \A v \in Workers : worker[v] \in HasTask => task[v] # task_queue[1]
            BY <1>1, <2>1 DEF TypeOK
        <2>4. \A v \in Workers, i \in 1..(q - 1) : worker[v] \in HasTask => task[v] < task_queue'[i]
            BY <1>1
        <2> QED BY <1>1, <1>3, <2>2, <2>3, <2>4
    <1>8. (main = "enqueue" => ~Queued(Len(input)) /\ ~WithWorker(Len(input)))'
        <2> SUFFICES ASSUME main = "enqueue"
                     PROVE  /\ \A i \in DOMAIN task_queue' : task_queue'[i] # Len(input)
                            /\ \A v \in Workers : worker'[v] \in HasTask => task'[v] # Len(input)
            BY <1>2
        <2>1. \A i \in 1..q : task_queue[i] # Len(input)
            BY <1>1
        <2>2. \A i \in 1..(q - 1) : i + 1 \in 1..q
            BY <1>1
        <2>3. 1 \in 1..q
            BY <1>1
        <2> QED BY <1>1, <1>3, <2>1, <2>2, <2>3
    <1> QED BY <1>4, <1>5, <1>6, <1>7, <1>8

\* Every step keeps the account of the tasks.
LEMMA TasksStep ==
    ASSUME TypeOK, LinesTracked, TasksAccountedFor, [Next]_vars
    PROVE  LinesTracked' /\ TasksAccountedFor'
    <1> USE DEF mainVars, queueVars, idVars, outVars, historyVars, dataVars, processVars,
                handlerFrame
    <1>1. CASE UNCHANGED vars
        BY <1>1, TasksStay DEF vars
    <1>2. CASE Crash
        BY <1>2, TasksStay DEF Crash
    <1>3. ASSUME NEW w \in Workers, SpawnWorker(w) PROVE LinesTracked' /\ TasksAccountedFor'
        BY <1>3, TasksStay DEF SpawnWorker, HasTask, TypeOK
    <1>4. CASE StartRunning \/ TestRunning \/ NotifyOne \/ NotifyAll \/ Join \/ Return
                \/ GetEmptyLine \/ StopStore \/ StopNotify
        <2>1. \A w \in Workers : worker'[w] \in HasTask <=> worker[w] \in HasTask
            BY <1>4 DEF StartRunning, TestRunning, NotifyOne, Waiting, NotifyAll, WakeAll, Join,
                        Return, GetEmptyLine, StopStore, StopNotify, HasTask, TypeOK
        <2>2. /\ UNCHANGED <<task_queue, input, fate, task>>
              /\ \/ main' = main
                 \/ main \notin {"dispatch", "enqueue"} /\ main' \notin {"dispatch", "enqueue"}
            BY <1>4 DEF StartRunning, TestRunning, NotifyOne, NotifyAll, Join,
                        Return, GetEmptyLine, StopStore, StopNotify
        <2> QED BY <2>1, <2>2, TasksStay
    <1>5. CASE Dispatch
        BY <1>5, DispatchTasks
    <1>6. CASE Enqueue
        BY <1>6, EnqueueTasks
    <1>7. ASSUME NEW line \in Lines, GetLine(line) PROVE LinesTracked' /\ TasksAccountedFor'
        BY <1>7, GetLineTasks
    <1>8. ASSUME NEW w \in Workers,
                 \/ SpuriousWakeup(w) \/ Lock(w) \/ TestPredicate(w) \/ Block(w) \/ Exit(w)
                 \/ InitIds(w) \/ WritePayload(w)
          PROVE  LinesTracked' /\ TasksAccountedFor'
        <2>1. \A v \in Workers : worker'[v] \in HasTask <=> worker[v] \in HasTask
            BY <1>8 DEF SpuriousWakeup, Lock, TestPredicate, Block, Exit, InitIds, WritePayload,
                        HasTask, TypeOK
        <2>2. UNCHANGED <<main, task_queue, input, fate, task>>
            BY <1>8 DEF SpuriousWakeup, Lock, TestPredicate, Block, Exit, InitIds, WritePayload
        <2> QED BY <2>1, <2>2, TasksStay
    <1>9. ASSUME NEW w \in Workers, TakeTask(w) PROVE LinesTracked' /\ TasksAccountedFor'
        BY <1>9, TakeTaskTasks
    <1>10. ASSUME NEW w \in Workers,
                  \/ InvokeEcho(w) \/ InvokeGenerate(w) \/ InvokeInit(w)
                  \/ InitTest(w) \/ InitSelf(w)
           PROVE  LinesTracked' /\ TasksAccountedFor'
        <2>1. worker[w] \in HasTask /\ UNCHANGED <<main, task_queue, input>>
            BY <1>10 DEF InvokeEcho, InvokeGenerate, InvokeInit, InitTest, InitSelf, HasTask
        <2>2. ASSUME NEW r, HandlerReturns(w, r) PROVE LinesTracked' /\ TasksAccountedFor'
            <3>1. CASE r.type # "INVALID"
                BY <2>1, <2>2, <3>1, TasksStay DEF HandlerReturns, HasTask, TypeOK
            <3>2. CASE r.type = "INVALID"
                BY <2>1, <2>2, <3>2, TaskFinished DEF HandlerReturns, Fate
            <3> QED BY <3>1, <3>2
        <2>3. CASE /\ \E pc \in HasTask : worker' = [worker EXCEPT ![w] = pc]
                   /\ UNCHANGED <<task, response, fate>>
            BY <2>1, <2>3, TasksStay DEF TypeOK
        <2> QED BY <1>10, <2>2, <2>3
                DEF InvokeEcho, InvokeGenerate, InvokeInit, InitTest, InitSelf, HasTask
    <1>11. ASSUME NEW w \in Workers, WriteNewline(w) PROVE LinesTracked' /\ TasksAccountedFor'
        BY <1>11, TaskFinished DEF WriteNewline, HasTask, Fate
    <1> QED
        BY <1>1, <1>2, <1>3, <1>4, <1>5, <1>6, <1>7, <1>8, <1>9, <1>10, <1>11
        DEF Next, MainStep, WorkerStep, Environment, ReadsInput, Terminated, DispatchAborts,
            TakeFromEmpty, InvokeAborts,
            EchoAborts, InitAborts, InitRace

\* The initial state satisfies the invariant.
LEMMA TaskInit == Init => TaskInv
    <1> SUFFICES ASSUME Init PROVE TaskInv
        OBVIOUS
    <1>0. /\ task_queue = <<>> /\ stdout = <<>> /\ input = <<>> /\ fate = <<>>
          /\ main = "spawn" /\ state = "STARTING" /\ join_count = 0 /\ spurious = 0
          /\ crashed = FALSE /\ stopper \in {"absent", "ready"}
          /\ \A w \in Workers : worker[w] = "unborn"
        BY DEF Init
    <1>1. TypeOK
        <2>1. NoMessage \in Responses
            BY DEF Responses
        <2>2. /\ worker \in [Workers -> WorkerPc]
              /\ task \in [Workers -> Nat]
              /\ response \in [Workers -> Responses]
            BY <2>1 DEF Init, WorkerPc
        <2>3. /\ task_queue \in Seq(Nat) /\ stdout \in Seq(Written)
              /\ input \in Seq(Lines) /\ Len(input) <= MaxLines
              /\ fate \in Seq(Fate) /\ Len(fate) = Len(input)
            BY <1>0, NodeAssumption
        <2>4. /\ main \in MainPc /\ state \in NodeState
              /\ join_count \in 0..worker_count /\ spurious \in 0..MaxSpurious
              /\ stopper \in {"absent", "ready", "notify"}
            BY <1>0, NodeAssumption DEF MainPc, NodeState
        <2>5. crashed \in BOOLEAN
            BY <1>0
        <2> QED BY <2>2, <2>3, <2>4, <2>5 DEF Init, TypeOK
    <1>2. /\ DOMAIN input = {} /\ DOMAIN task_queue = {}
          /\ main = "spawn"
          /\ \A w \in Workers : worker[w] \notin HasTask
        BY <1>0 DEF HasTask
    <1>3. LinesTracked
        BY <1>2 DEF LinesTracked
    <1>4. TasksAccountedFor
        BY <1>2 DEF TasksAccountedFor
    <1> QED BY <1>1, <1>3, <1>4 DEF TaskInv

\* The invariant that carries the typing and the account of the tasks holds
\* in every reachable state, with and without calls of stop().
THEOREM TaskInvariant == Spec => []TaskInv
    <1>1. TaskInv /\ [Next]_vars => TaskInv'
        BY TypeStep, TasksStep DEF TaskInv
    <1> QED BY <1>1, TaskInit, PTL DEF Spec

\* The variables keep their types; in particular every response a worker is
\* about to write was made by a handler of main() or by handle_init().
THEOREM TypeCorrect == Spec => []TypeOK
    <1>1. TaskInv => TypeOK
        BY DEF TaskInv
    <1> QED BY <1>1, TaskInvariant, PTL

\* dispatch_message() and worker_loop() lose no request and run none twice,
\* and the queue hands them out in the order in which they were read.
THEOREM NoTaskLost == Spec => []TasksAccountedFor
    <1>1. TaskInv => TasksAccountedFor
        BY DEF TaskInv
    <1> QED BY <1>1, TaskInvariant, PTL

-----------------------------------------------------------------------------
(* The shutdown, when nobody calls stop() *)

\* main, state and the joined workers agree.
Phases ==
    /\ stopper = "absent"
    /\ main = "spawn" <=> state = "STARTING"
    /\ main \in {"notify_all", "join", "done"} <=> state = "SHUTDOWN"
    /\ main = "done" => join_count = worker_count
    /\ \A w \in Workers : w <= join_count => worker[w] = "exited"

\* A worker between its lock and its unlock holds mutex_thread_tasks.
QueueLockHeld ==
    \A w \in Workers : worker[w] \in {"wait", "block", "check"} => mutex_thread_tasks = w

ShutdownInv == Phases /\ QueueLockHeld /\ PopsAreSafe /\ ExitsAreFinal

LEMMA ShutdownStep ==
    ASSUME TypeOK, ShutdownInv, [Next]_vars
    PROVE  ShutdownInv'
    <1> USE DEF mainVars, queueVars, idVars, outVars, historyVars, dataVars, processVars,
                handlerFrame, ShutdownInv, Phases, QueueLockHeld, PopsAreSafe, ExitsAreFinal
    <1>0. 0 \notin Workers
        BY DEF Workers
    <1>1. CASE UNCHANGED vars
        BY <1>1 DEF vars
    <1>2. CASE Crash
        BY <1>2 DEF Crash
    <1>3. ASSUME NEW w \in Workers, SpawnWorker(w) PROVE ShutdownInv'
        BY <1>3 DEF SpawnWorker, TypeOK
    <1>4. CASE StartRunning
        BY <1>4 DEF StartRunning, TypeOK
    <1>5. CASE TestRunning
        BY <1>5 DEF TestRunning, TypeOK, NodeState
    <1>6. CASE Dispatch
        BY <1>6 DEF Dispatch, TypeOK
    <1>7. CASE Enqueue
        <2>1. Append(task_queue, Len(input)) # <<>>
            BY AppendFacts DEF TypeOK
        <2> QED BY <1>7, <2>1 DEF Enqueue, Pushed, TypeOK
    <1>8. CASE NotifyOne
        BY <1>8 DEF NotifyOne, Waiting, TypeOK
    <1>9. CASE NotifyAll
        BY <1>9 DEF NotifyAll, WakeAll, TypeOK
    <1>10. CASE Join
        <2>1. /\ join_count' = join_count + 1 /\ worker[join_count + 1] = "exited"
              /\ join_count \in Nat /\ main = "join"
              /\ UNCHANGED <<main, state, worker, task_queue, mutex_thread_tasks, stopper>>
            BY <1>10, NodeAssumption DEF Join, TypeOK
        <2>2. \A w \in Workers : w <= join_count + 1 => w <= join_count \/ w = join_count + 1
            BY <2>1 DEF Workers
        <2> QED BY <2>1, <2>2
    <1>11. CASE Return
        BY <1>11 DEF Return, TypeOK
    <1>12. ASSUME NEW line \in Lines, GetLine(line) PROVE ShutdownInv'
        BY <1>12 DEF GetLine, TypeOK
    <1>13. CASE GetEmptyLine
        BY <1>13 DEF GetEmptyLine, TypeOK
    <1>14. ASSUME NEW w \in Workers, SpuriousWakeup(w) PROVE ShutdownInv'
        BY <1>14 DEF SpuriousWakeup, TypeOK
    <1>15. ASSUME NEW w \in Workers, Lock(w) PROVE ShutdownInv'
        BY <1>0, <1>15 DEF Lock, QueueLockFree, Free, TypeOK
    <1>16. ASSUME NEW w \in Workers, TestPredicate(w) PROVE ShutdownInv'
        BY <1>16 DEF TestPredicate, WaitIsOver, TypeOK
    <1>17. ASSUME NEW w \in Workers, Block(w) PROVE ShutdownInv'
        BY <1>17 DEF Block, TypeOK
    <1>18. ASSUME NEW w \in Workers, Exit(w) PROVE ShutdownInv'
        BY <1>18 DEF Exit, MayExit, TypeOK
    <1>19. ASSUME NEW w \in Workers, TakeTask(w) PROVE ShutdownInv'
        <2>1. /\ worker[w] = "check" /\ task_queue # <<>> /\ mutex_thread_tasks = w
              /\ worker' = [worker EXCEPT ![w] = "invoke"]
              /\ UNCHANGED <<main, state, join_count, stopper>>
            BY <1>19 DEF TakeTask
        <2>2. \A v \in Workers : worker'[v] \notin {"wait", "block", "check"}
            BY <2>1 DEF TypeOK
        <2>3. \A v \in Workers : worker[v] # "exited" /\ worker'[v] # "exited"
            BY <2>1 DEF TypeOK
        <2> QED BY <2>1, <2>2, <2>3
    <1>20. ASSUME NEW w \in Workers, worker[w] \in HasTask,
                  \E pc \in HasTask \cup {"lock"} : worker' = [worker EXCEPT ![w] = pc],
                  UNCHANGED <<main, state, join_count, stopper, task_queue, mutex_thread_tasks>>
           PROVE  ShutdownInv'
        BY <1>20 DEF TypeOK, HasTask
    <1>21. ASSUME NEW w \in Workers,
                  \/ InvokeEcho(w) \/ InvokeGenerate(w) \/ InvokeInit(w) \/ InitTest(w)
                  \/ InitIds(w) \/ InitSelf(w) \/ WritePayload(w) \/ WriteNewline(w)
           PROVE  ShutdownInv'
        <2>1. worker[w] \in HasTask
            BY <1>21 DEF InvokeEcho, InvokeGenerate, InvokeInit, InitTest, InitIds, InitSelf,
                         WritePayload, WriteNewline, HasTask
        <2>2. UNCHANGED <<main, state, join_count, stopper, task_queue, mutex_thread_tasks>>
            BY <1>21 DEF InvokeEcho, InvokeGenerate, InvokeInit, InitTest, InitIds, InitSelf,
                         WritePayload, WriteNewline
        <2>3. \E pc \in HasTask \cup {"lock"} : worker' = [worker EXCEPT ![w] = pc]
            BY <1>21 DEF InvokeEcho, InvokeGenerate, InvokeInit, InitTest, InitIds, InitSelf,
                         WritePayload, WriteNewline, HandlerReturns, HasTask
        <2> QED BY <1>20, <2>1, <2>2, <2>3
    <1>22. ~StopStore /\ ~StopNotify
        BY DEF StopStore, StopNotify
    <1> QED
        BY <1>1, <1>2, <1>3, <1>4, <1>5, <1>6, <1>7, <1>8, <1>9, <1>10, <1>11, <1>12, <1>13,
           <1>14, <1>15, <1>16, <1>17, <1>18, <1>19, <1>21, <1>22
        DEF Next, MainStep, WorkerStep, Environment, ReadsInput, Terminated, DispatchAborts,
            TakeFromEmpty, InvokeAborts,
            EchoAborts, InitAborts, InitRace

\* With nobody calling stop(), the phases of the threads fit together.
THEOREM ShutdownInvariant ==
    ASSUME CallsStop = FALSE
    PROVE  Spec => []ShutdownInv
    <1>1. Init => ShutdownInv
        <2> SUFFICES ASSUME Init PROVE ShutdownInv
            OBVIOUS
        <2>1. /\ stopper = "absent" /\ main = "spawn" /\ state = "STARTING" /\ join_count = 0
              /\ \A w \in Workers : worker[w] = "unborn"
            BY DEF Init
        <2>2. \A w \in Workers : ~(w <= 0)
            BY NodeAssumption DEF Workers
        <2> QED BY <2>1, <2>2 DEF ShutdownInv, Phases, QueueLockHeld, PopsAreSafe, ExitsAreFinal
    <1>2. TypeOK /\ ShutdownInv /\ [Next]_vars => ShutdownInv'
        BY ShutdownStep
    <1> QED BY <1>1, <1>2, TypeCorrect, PTL DEF Spec

\* No worker takes a task from an empty queue.
THEOREM NoEmptyPop ==
    ASSUME CallsStop = FALSE
    PROVE  Spec => []PopsAreSafe
    <1>1. ShutdownInv => PopsAreSafe
        BY DEF ShutdownInv
    <1> QED BY <1>1, ShutdownInvariant, PTL

\* A worker leaves worker_loop() only when nothing can follow.
THEOREM WorkersLeaveLast ==
    ASSUME CallsStop = FALSE
    PROVE  Spec => []ExitsAreFinal
    <1>1. ShutdownInv => ExitsAreFinal
        BY DEF ShutdownInv
    <1> QED BY <1>1, ShutdownInvariant, PTL

\* The states in which run() can have returned.
LEMMA CleanAtTheEnd == TaskInv /\ ShutdownInv => CleanShutdown
    <1> SUFFICES ASSUME TaskInv, ShutdownInv, main = "done", NEW n \in DOMAIN fate
                 PROVE  fate[n] # "accepted"
        BY DEF CleanShutdown
    <1> USE DEF TaskInv, ShutdownInv
    <1>1. n \in DOMAIN input
        BY DEF TypeOK
    <1>2. \A w \in Workers : worker[w] = "exited"
        BY NodeAssumption DEF Phases, Workers
    <1>3. 1 \in Workers
        BY NodeAssumption DEF Workers
    <1>4. task_queue = <<>>
        BY <1>2, <1>3 DEF ExitsAreFinal
    <1>5. ~Queued(n)
        BY <1>4 DEF Queued
    <1>6. ~WithWorker(n) /\ ~WithMain(n)
        BY <1>2 DEF WithWorker, WithMain, HasTask
    <1> QED BY <1>1, <1>5, <1>6 DEF TasksAccountedFor

\* When run() returns, every accepted request has been handled.
THEOREM ShutdownIsClean ==
    ASSUME CallsStop = FALSE
    PROVE  Spec => []CleanShutdown
    <1> QED BY CleanAtTheEnd, TaskInvariant, ShutdownInvariant, PTL

-----------------------------------------------------------------------------
(* Node implements RequestService, under the mapping that Node gives: a    *)
(* step is a step of the service or leaves phase, pending and done alone.  *)

\* A step that ends no line and moves the main thread within a phase is
\* invisible to the clients.
LEMMA Invisible ==
    ASSUME UNCHANGED <<fate, crashed>>,
           \/ main' = main
           \/ /\ main \notin {"notify_all", "join", "done"}
              /\ main' \notin {"notify_all", "join", "done"}
           \/ main \in {"notify_all", "join"} /\ main' \in {"notify_all", "join"}
    PROVE  UNCHANGED Service!vars
    <1>1. UNCHANGED ServicePhase
        BY DEF ServicePhase
    <1>2. UNCHANGED Lined({"accepted"}) /\ UNCHANGED Lined({"silent", "answered"})
        BY DEF Lined
    <1> QED BY <1>1, <1>2 DEF Service!vars

\* The end of a task is a Finish step.
LEMMA FinishSteps ==
    ASSUME TaskInv, ShutdownInv, ~crashed,
           NEW w \in Workers, worker[w] \in HasTask,
           NEW f \in {"silent", "answered"},
           fate' = [fate EXCEPT ![task[w]] = f],
           UNCHANGED <<main, crashed>>
    PROVE  Service!Next
    <1> DEFINE k == task[w]
    <1>1. /\ k \in 1..Len(fate) /\ fate[k] = "accepted" /\ fate \in Seq(Fate)
          /\ k \in 1..MaxLines /\ DOMAIN fate = 1..Len(fate)
        BY MessageFacts, NodeAssumption DEF TaskInv, TypeOK
    <1>2. /\ DOMAIN fate' = DOMAIN fate /\ fate'[k] = f
          /\ \A n \in DOMAIN fate : n # k => fate'[n] = fate[n]
        BY <1>1, ExceptFacts DEF Fate
    <1>3. main # "done"
        BY NodeAssumption DEF ShutdownInv, Phases, HasTask, Workers
    <1>4. ServicePhase \in {"open", "closing"} /\ UNCHANGED ServicePhase
        BY <1>3 DEF ServicePhase
    <1>5. /\ k \in Lined({"accepted"})
          /\ Lined({"accepted"})' = Lined({"accepted"}) \ {k}
          /\ Lined({"silent", "answered"})' = Lined({"silent", "answered"}) \cup {k}
        BY <1>1, <1>2 DEF Lined
    <1>6. Service!Finish(k)
        BY <1>4, <1>5 DEF Service!Finish
    <1> QED BY <1>1, <1>6 DEF Service!Next

\* An abort is a Crash step.
LEMMA CrashSteps ==
    ASSUME ~crashed, main # "done", Crash
    PROVE  Service!Next
    <1>1. ServicePhase \in {"open", "closing"}
        BY DEF ServicePhase
    <1>2. UNCHANGED Lined({"accepted"}) /\ UNCHANGED Lined({"silent", "answered"})
        BY DEF Crash, Lined, dataVars, historyVars
    <1>3. crashed' = TRUE /\ main' = main
        BY DEF Crash, mainVars
    <1>4. ServicePhase' = "crashed"
        BY <1>3 DEF ServicePhase
    <1> QED BY <1>1, <1>2, <1>4 DEF Service!Next, Service!Crash

\* Every step of the node is a step of the service or invisible.
LEMMA ServiceStep ==
    ASSUME TaskInv, ShutdownInv, [Next]_vars
    PROVE  [Service!Next]_(Service!vars)
    <1> USE DEF mainVars, queueVars, idVars, outVars, historyVars, dataVars, processVars,
                handlerFrame
    <1>1. CASE UNCHANGED vars
        BY <1>1, Invisible DEF vars
    <1>2. ASSUME NEW w \in Workers,
                 \/ SpawnWorker(w) \/ SpuriousWakeup(w) \/ Lock(w) \/ TestPredicate(w)
                 \/ Block(w) \/ Exit(w) \/ TakeTask(w) \/ InitIds(w) \/ WritePayload(w)
          PROVE  UNCHANGED Service!vars
        <2>1. UNCHANGED <<main, fate, crashed>>
            BY <1>2 DEF SpawnWorker, SpuriousWakeup, Lock, TestPredicate, Block, Exit, TakeTask,
                        InitIds, WritePayload
        <2> QED BY <2>1, Invisible
    <1>3. CASE StartRunning \/ TestRunning \/ Enqueue \/ NotifyOne \/ NotifyAll \/ Join
        <2>1. UNCHANGED <<fate, crashed>>
            BY <1>3 DEF StartRunning, TestRunning, Enqueue, NotifyOne, NotifyAll, Join
        <2>2. \/ main' = main
              \/ /\ main \notin {"notify_all", "join", "done"}
                 /\ main' \notin {"notify_all", "join", "done"}
              \/ main \in {"notify_all", "join"} /\ main' \in {"notify_all", "join"}
            BY <1>3 DEF StartRunning, TestRunning, Enqueue, NotifyOne, NotifyAll, Join,
                        ShutdownInv, Phases, TaskInv, TypeOK, NodeState
        <2> QED BY <2>1, <2>2, Invisible
    <1>4. ASSUME NEW line \in Lines, GetLine(line) PROVE UNCHANGED Service!vars
        <2>1. fate \in Seq(Fate) /\ "read" \in Fate /\ fate' = Append(fate, "read")
            BY <1>4 DEF GetLine, TaskInv, TypeOK, Fate
        <2>2. /\ DOMAIN fate = 1..Len(fate) /\ Len(fate) \in Nat
              /\ DOMAIN fate' = 1..(Len(fate) + 1) /\ fate'[Len(fate) + 1] = "read"
              /\ \A n \in 1..Len(fate) : fate'[n] = fate[n]
            BY <2>1, AppendFacts
        <2>3. UNCHANGED Lined({"accepted"}) /\ UNCHANGED Lined({"silent", "answered"})
            BY <2>2 DEF Lined
        <2>4. UNCHANGED ServicePhase
            BY <1>4 DEF GetLine, ServicePhase
        <2> QED BY <2>3, <2>4 DEF Service!vars
    <1>5. CASE ~crashed /\ Dispatch
        <2> DEFINE k == Len(input)
                   d == Disposition(Parsing[input[k]])
        <2>1. /\ k \in 1..Len(fate) /\ fate \in Seq(Fate) /\ fate[k] = "read"
              /\ DOMAIN fate = 1..Len(fate) /\ k \in 1..MaxLines
            BY <1>5, NodeAssumption DEF Dispatch, TaskInv, TypeOK, LinesTracked
        <2>2. d \in Fate \ {"silent", "answered"}
            BY DEF Disposition, Fate
        <2>3. /\ DOMAIN fate' = DOMAIN fate /\ fate'[k] = d
              /\ \A n \in DOMAIN fate : n # k => fate'[n] = fate[n]
            BY <1>5, <2>1, <2>2, ExceptFacts DEF Dispatch
        <2>4. ServicePhase = "open" /\ UNCHANGED ServicePhase
            BY <1>5 DEF Dispatch, ServicePhase
        <2> HIDE DEF d
        <2>5. CASE d = "accepted"
            <3>1. /\ k \notin Lined({"accepted"}) \cup Lined({"silent", "answered"})
                  /\ Lined({"accepted"})' = Lined({"accepted"}) \cup {k}
                  /\ UNCHANGED Lined({"silent", "answered"})
                BY <2>1, <2>3, <2>5 DEF Lined
            <3>2. Service!Accept(k)
                BY <2>4, <3>1 DEF Service!Accept
            <3> QED BY <2>1, <3>2 DEF Service!Next
        <2>6. CASE d # "accepted"
            <3>1. UNCHANGED Lined({"accepted"}) /\ UNCHANGED Lined({"silent", "answered"})
                BY <2>1, <2>2, <2>3, <2>6 DEF Lined
            <3> QED BY <2>4, <3>1 DEF Service!vars
        <2> QED BY <2>5, <2>6
    <1>6. CASE ~crashed /\ GetEmptyLine
        <2>1. ServicePhase = "open" /\ ServicePhase' = "closing"
            BY <1>6 DEF GetEmptyLine, ServicePhase
        <2>2. UNCHANGED Lined({"accepted"}) /\ UNCHANGED Lined({"silent", "answered"})
            BY <1>6 DEF GetEmptyLine, Lined
        <2> QED BY <2>1, <2>2 DEF Service!Next, Service!Close
    <1>7. CASE ~crashed /\ Return
        <2>1. ServicePhase = "closing" /\ ServicePhase' = "closed"
            BY <1>7 DEF Return, ServicePhase
        <2>2. UNCHANGED Lined({"accepted"}) /\ UNCHANGED Lined({"silent", "answered"})
            BY <1>7 DEF Return, Lined
        <2>3. Lined({"accepted"}) = {}
            <3>1. /\ main = "join" /\ join_count = worker_count
                  /\ DOMAIN fate = DOMAIN input
                BY <1>7 DEF Return, TaskInv, TypeOK
            <3>2. \A w \in Workers : worker[w] = "exited"
                BY <3>1, NodeAssumption DEF ShutdownInv, Phases, Workers
            <3>3. 1 \in Workers
                BY NodeAssumption DEF Workers
            <3>4. task_queue = <<>>
                BY <3>2, <3>3 DEF ShutdownInv, ExitsAreFinal
            <3>5. \A n \in DOMAIN input : ~Queued(n) /\ ~WithWorker(n) /\ ~WithMain(n)
                BY <3>1, <3>2, <3>4 DEF Queued, WithWorker, WithMain, HasTask
            <3> QED BY <3>1, <3>5 DEF TaskInv, TasksAccountedFor, Lined
        <2> QED BY <2>1, <2>2, <2>3 DEF Service!Next, Service!Return
    <1>8. ASSUME ~crashed, NEW w \in Workers,
                 \/ InvokeEcho(w) \/ InvokeGenerate(w) \/ InvokeInit(w)
                 \/ InitTest(w) \/ InitSelf(w)
          PROVE  [Service!Next]_(Service!vars)
        <2>1. worker[w] \in HasTask /\ UNCHANGED <<main, crashed>>
            BY <1>8 DEF InvokeEcho, InvokeGenerate, InvokeInit, InitTest, InitSelf, HasTask
        <2>2. CASE UNCHANGED fate
            BY <2>1, <2>2, Invisible
        <2>3. CASE fate' = [fate EXCEPT ![task[w]] = "silent"]
            BY <1>8, <2>1, <2>3, FinishSteps
        <2> QED BY <1>8, <2>2, <2>3
                DEF InvokeEcho, InvokeGenerate, InvokeInit, InitTest, InitSelf, HandlerReturns
    <1>9. ASSUME ~crashed, NEW w \in Workers, WriteNewline(w) PROVE Service!Next
        BY <1>9, FinishSteps DEF WriteNewline, HasTask
    <1>10. CASE ~crashed /\ DispatchAborts
        BY <1>10, CrashSteps DEF DispatchAborts
    <1>11. ASSUME ~crashed, NEW w \in Workers,
                  TakeFromEmpty(w) \/ InvokeAborts(w) \/ InitRace(w)
           PROVE  Service!Next
        <2>1. main # "done"
            BY <1>11, NodeAssumption
            DEF TakeFromEmpty, InvokeAborts,
            EchoAborts, InitAborts, InitRace, ShutdownInv, Phases, Workers
        <2>2. Crash
            BY <1>11 DEF TakeFromEmpty, InvokeAborts,
            EchoAborts, InitAborts, InitRace
        <2> QED BY <1>11, <2>1, <2>2, CrashSteps
    <1>12. ~StopStore /\ ~StopNotify
        BY DEF StopStore, StopNotify, ShutdownInv, Phases
    <1> QED
        BY <1>1, <1>2, <1>3, <1>4, <1>5, <1>6, <1>7, <1>8, <1>9, <1>10, <1>11, <1>12
        DEF Next, MainStep, WorkerStep, Environment, ReadsInput, Terminated

\* The pool of worker threads implements the service that its clients see:
\* requests are accepted while the node is open, finished at most once, and
\* run() returns only with none of them left.
THEOREM NodeImplementsService ==
    ASSUME CallsStop = FALSE
    PROVE  Spec => ImplementsService
    <1>1. Init => Service!Init
        <2> SUFFICES ASSUME Init PROVE Service!Init
            OBVIOUS
        <2>1. main = "spawn" /\ crashed = FALSE /\ fate = <<>>
            BY DEF Init
        <2>2. ServicePhase = "open"
            BY <2>1 DEF ServicePhase
        <2>3. Lined({"accepted"}) = {} /\ Lined({"silent", "answered"}) = {}
            BY <2>1 DEF Lined
        <2> QED BY <2>2, <2>3 DEF Service!Init
    <1>2. TaskInv /\ ShutdownInv /\ [Next]_vars => [Service!Next]_(Service!vars)
        BY ServiceStep
    <1> QED BY <1>1, <1>2, TaskInvariant, ShutdownInvariant, PTL
            DEF Spec, ImplementsService, Service!Spec

-----------------------------------------------------------------------------
(* Whole lines *)

\* What WholeLines needs to be inductive: the write lock is held exactly
\* between a payload and its newline, and the last payload on stdout is that
\* of the holder.
OutputInv ==
    /\ \A w \in Workers : worker[w] = "endl" <=> mutex_write_response = w
    /\ mutex_write_response = Free => Len(stdout) % 2 = 0
    /\ mutex_write_response # Free =>
          /\ Len(stdout) % 2 = 1
          /\ stdout[Len(stdout)].line = task[mutex_write_response]
    /\ WholeLines

\* A step that writes nothing.
LEMMA OutputStays ==
    ASSUME TypeOK, OutputInv,
           UNCHANGED <<stdout, mutex_write_response>>,
           \A w \in Workers : worker'[w] = "endl" <=> worker[w] = "endl",
           \A w \in Workers : worker[w] = "endl" => task'[w] = task[w]
    PROVE  OutputInv'
    <1>1. WholeLines'
        BY DEF OutputInv, WholeLines
    <1>2. mutex_write_response # Free => mutex_write_response \in Workers
        BY DEF TypeOK
    <1> QED BY <1>1, <1>2 DEF OutputInv

\* The parity of the next position.
LEMMA Parity ==
    ASSUME NEW n \in Nat
    PROVE  /\ n % 2 = 0 => (n + 1) % 2 = 1
           /\ n % 2 = 1 => (n + 1) % 2 = 0
           /\ n % 2 \in {0, 1}
    OBVIOUS

LEMMA PayloadOutput ==
    ASSUME TypeOK, OutputInv, NEW w \in Workers, WritePayload(w)
    PROVE  OutputInv'
    <1> DEFINE k == Len(stdout) + 1
    <1>1. /\ mutex_write_response = Free /\ mutex_write_response' = w /\ w # Free
          /\ worker' = [worker EXCEPT ![w] = "endl"] /\ task' = task
          /\ Len(stdout) % 2 = 0
        BY DEF WritePayload, WriteLockFree, queueVars, OutputInv, Workers, Free
    <1>2. Payload(w) \in Written /\ Payload(w).part = "payload" /\ Payload(w).line = task[w]
        BY DEF Payload, Written, TypeOK
    <1>3. stdout \in Seq(Written) /\ stdout' = Append(stdout, Payload(w))
        BY DEF WritePayload, TypeOK
    <1>4. /\ Len(stdout) \in Nat /\ Len(stdout') = k /\ DOMAIN stdout = 1..Len(stdout)
          /\ DOMAIN stdout' = 1..k
          /\ \A i \in 1..Len(stdout) : stdout'[i] = stdout[i]
          /\ stdout'[k] = Payload(w)
        BY <1>2, <1>3, AppendFacts
    <1>5. k % 2 = 1
        BY <1>1, <1>4, Parity
    <1>6. \A v \in Workers : worker'[v] = "endl" <=> v = w
        BY <1>1 DEF OutputInv, TypeOK, Free, Workers
    <1>7. WholeLines'
        <2> SUFFICES ASSUME NEW i \in 1..k
                     PROVE  /\ stdout'[i].part = (IF i % 2 = 1 THEN "payload" ELSE "newline")
                            /\ i % 2 = 0 => stdout'[i].line = stdout'[i - 1].line
            BY <1>4 DEF WholeLines
        <2>1. CASE i = k
            BY <1>2, <1>4, <1>5, <2>1
        <2>2. CASE i # k
            <3>1. i \in 1..Len(stdout)
                BY <1>4, <2>2
            <3>2. i % 2 = 0 => i - 1 \in 1..Len(stdout)
                BY <1>4, <3>1
            <3> QED BY <1>4, <3>1, <3>2 DEF OutputInv, WholeLines
        <2> QED BY <2>1, <2>2
    <1> QED BY <1>1, <1>2, <1>4, <1>5, <1>6, <1>7 DEF OutputInv

LEMMA NewlineOutput ==
    ASSUME TypeOK, OutputInv, NEW w \in Workers, WriteNewline(w)
    PROVE  OutputInv'
    <1> DEFINE k == Len(stdout) + 1
    <1>1. /\ mutex_write_response = w /\ mutex_write_response' = Free /\ w # Free
          /\ worker' = [worker EXCEPT ![w] = "lock"]
          /\ Len(stdout) % 2 = 1 /\ stdout[Len(stdout)].line = task[w]
        BY DEF WriteNewline, OutputInv, Workers, Free
    <1>2. Newline(w) \in Written /\ Newline(w).part = "newline" /\ Newline(w).line = task[w]
        BY DEF Newline, Written, TypeOK
    <1>3. stdout \in Seq(Written) /\ stdout' = Append(stdout, Newline(w))
        BY DEF WriteNewline, TypeOK
    <1>4. /\ Len(stdout) \in Nat /\ Len(stdout') = k /\ DOMAIN stdout = 1..Len(stdout)
          /\ DOMAIN stdout' = 1..k
          /\ \A i \in 1..Len(stdout) : stdout'[i] = stdout[i]
          /\ stdout'[k] = Newline(w)
        BY <1>2, <1>3, AppendFacts
    <1>5. k % 2 = 0 /\ k - 1 = Len(stdout) /\ Len(stdout) \in 1..Len(stdout)
        BY <1>1, <1>4, Parity
    <1>6. \A v \in Workers : worker'[v] # "endl" /\ v # Free
        BY <1>1 DEF OutputInv, TypeOK, Free, Workers
    <1>7. WholeLines'
        <2> SUFFICES ASSUME NEW i \in 1..k
                     PROVE  /\ stdout'[i].part = (IF i % 2 = 1 THEN "payload" ELSE "newline")
                            /\ i % 2 = 0 => stdout'[i].line = stdout'[i - 1].line
            BY <1>4 DEF WholeLines
        <2>1. CASE i = k
            BY <1>1, <1>2, <1>4, <1>5, <2>1
        <2>2. CASE i # k
            <3>1. i \in 1..Len(stdout)
                BY <1>4, <2>2
            <3>2. i % 2 = 0 => i - 1 \in 1..Len(stdout)
                BY <1>4, <3>1
            <3> QED BY <1>4, <3>1, <3>2 DEF OutputInv, WholeLines
        <2> QED BY <2>1, <2>2
    <1> QED BY <1>1, <1>4, <1>5, <1>6, <1>7 DEF OutputInv

LEMMA OutputStep ==
    ASSUME TypeOK, OutputInv, [Next]_vars
    PROVE  OutputInv'
    <1> USE DEF mainVars, queueVars, idVars, outVars, historyVars, dataVars, processVars,
                handlerFrame
    <1>1. CASE UNCHANGED vars
        BY <1>1, OutputStays DEF vars
    <1>2. CASE Crash
        BY <1>2, OutputStays DEF Crash
    <1>3. CASE StartRunning \/ TestRunning \/ Dispatch \/ Enqueue \/ NotifyOne \/ NotifyAll
                \/ Join \/ Return \/ GetEmptyLine \/ (\E line \in Lines : GetLine(line))
                \/ StopStore \/ StopNotify
        <2>1. UNCHANGED <<stdout, mutex_write_response, task>>
            BY <1>3 DEF StartRunning, TestRunning, Dispatch, Enqueue, NotifyOne, NotifyAll, Join,
                        Return, GetEmptyLine, GetLine, StopStore, StopNotify
        <2>2. \A w \in Workers : worker'[w] = "endl" <=> worker[w] = "endl"
            BY <1>3 DEF StartRunning, TestRunning, Dispatch, Enqueue, NotifyOne, Waiting,
                        NotifyAll, WakeAll, Join, Return, GetEmptyLine, GetLine, StopStore,
                        StopNotify, TypeOK
        <2> QED BY <2>1, <2>2, OutputStays
    <1>4. ASSUME NEW w \in Workers, worker[w] # "endl",
                 \E pc \in WorkerPc \ {"endl"} : worker' = [worker EXCEPT ![w] = pc],
                 \/ UNCHANGED task
                 \/ \E n : task' = [task EXCEPT ![w] = n],
                 UNCHANGED <<stdout, mutex_write_response>>
          PROVE  OutputInv'
        BY <1>4, OutputStays DEF TypeOK
    <1>5. ASSUME NEW w \in Workers,
                 \/ SpawnWorker(w) \/ SpuriousWakeup(w) \/ Lock(w) \/ TestPredicate(w)
                 \/ Block(w) \/ Exit(w) \/ TakeTask(w) \/ InitIds(w)
          PROVE  OutputInv'
        <2>1. worker[w] # "endl" /\ UNCHANGED <<stdout, mutex_write_response>>
            BY <1>5 DEF SpawnWorker, SpuriousWakeup, Lock, TestPredicate, Block, Exit, TakeTask,
                        InitIds
        <2>2. \E pc \in WorkerPc \ {"endl"} : worker' = [worker EXCEPT ![w] = pc]
            BY <1>5 DEF SpawnWorker, SpuriousWakeup, Lock, TestPredicate, Block, Exit, TakeTask,
                        InitIds, WorkerPc
        <2>3. UNCHANGED task \/ \E n : task' = [task EXCEPT ![w] = n]
            BY <1>5 DEF SpawnWorker, SpuriousWakeup, Lock, TestPredicate, Block, Exit, TakeTask,
                        InitIds
        <2> QED BY <1>4, <2>1, <2>2, <2>3
    <1>6. ASSUME NEW w \in Workers,
                 \/ InvokeEcho(w) \/ InvokeGenerate(w) \/ InvokeInit(w)
                 \/ InitTest(w) \/ InitSelf(w)
          PROVE  OutputInv'
        <2>1. worker[w] # "endl" /\ UNCHANGED <<stdout, mutex_write_response>>
            BY <1>6 DEF InvokeEcho, InvokeGenerate, InvokeInit, InitTest, InitSelf
        <2>2. \E pc \in WorkerPc \ {"endl"} : worker' = [worker EXCEPT ![w] = pc]
            BY <1>6 DEF InvokeEcho, InvokeGenerate, InvokeInit, InitTest, InitSelf,
                        HandlerReturns, WorkerPc
        <2>3. UNCHANGED task \/ \E n : task' = [task EXCEPT ![w] = n]
            BY <1>6 DEF InvokeEcho, InvokeGenerate, InvokeInit, InitTest, InitSelf,
                        HandlerReturns
        <2> QED BY <1>4, <2>1, <2>2, <2>3
    <1>7. ASSUME NEW w \in Workers, WritePayload(w) PROVE OutputInv'
        BY <1>7, PayloadOutput
    <1>8. ASSUME NEW w \in Workers, WriteNewline(w) PROVE OutputInv'
        BY <1>8, NewlineOutput
    <1> QED
        BY <1>1, <1>2, <1>3, <1>5, <1>6, <1>7, <1>8
        DEF Next, MainStep, WorkerStep, Environment, ReadsInput, Terminated, DispatchAborts,
            TakeFromEmpty, InvokeAborts,
            EchoAborts, InitAborts, InitRace

\* stdout is a sequence of whole lines, whatever the workers' interleaving:
\* each payload is followed by its own newline.
THEOREM OutputIsWholeLines == Spec => []WholeLines
    <1>1. Init => OutputInv
        <2> SUFFICES ASSUME Init PROVE OutputInv
            OBVIOUS
        <2>1. /\ stdout = <<>> /\ mutex_write_response = Free
              /\ \A w \in Workers : worker[w] = "unborn"
            BY DEF Init
        <2>0. \A w \in Workers : w # Free
            BY DEF Workers, Free
        <2>2. Len(stdout) = 0 /\ DOMAIN stdout = {}
            BY <2>1
        <2>3. Len(stdout) % 2 = 0
            BY <2>2, Parity
        <2>4. WholeLines
            BY <2>2 DEF WholeLines
        <2> QED BY <2>0, <2>1, <2>3, <2>4 DEF OutputInv
    <1>2. TypeOK /\ OutputInv /\ [Next]_vars => OutputInv'
        BY OutputStep
    <1>3. OutputInv => WholeLines
        BY DEF OutputInv
    <1> QED BY <1>1, <1>2, <1>3, TypeCorrect, PTL DEF Spec

-----------------------------------------------------------------------------
(* Each response answers its request *)

\* What create_response() puts into the response of a request: the addresses
\* swapped, the type of the response, the id of the request.
LEMMA ResponseFields ==
    ASSUME NEW m, NEW s, m.type \in DOMAIN response_type
    PROVE  LET r == create_response(m, s)
               f == get(r.body)
           IN  /\ r.from = m.to /\ r.to = m.from
               /\ r.body = Object(f)
               /\ "type" \in DOMAIN f
               /\ f["type"] = String(message_type_to_string[response_type[m.type]])
               /\ "in_reply_to" \in DOMAIN f <=> is_valid(m.id)
               /\ is_valid(m.id) => f["in_reply_to"] = as_json_id(m.id)
    <1> DEFINE t == response_type[m.type]
               g == generate_64(s)
               r == create_response(m, s)
               f == BodyFields(t, g, m.id)
    <1>1. t \in {"INIT_RES", "ECHO_RES", "GENERATE_RES"}
        BY DEF response_type
    <1>2. r = MakeMessage(t, g, m.id, m.to, m.from)
        BY DEF create_response
    <1> HIDE DEF t, g
    <1>3. /\ "type" \in DOMAIN f /\ f["type"] = String(message_type_to_string[t])
          /\ "in_reply_to" \in DOMAIN f <=> is_valid(m.id)
          /\ is_valid(m.id) => f["in_reply_to"] = as_json_id(m.id)
        BY <1>1 DEF BodyFields
    <1>4. r.from = m.to /\ r.to = m.from /\ r.body = BodyOf(f)
        BY <1>2 DEF MakeMessage
    <1> HIDE DEF f, r
    <1>5. r.body = Object(f) /\ get(r.body) = f
        BY <1>3, <1>4 DEF BodyOf, Object, Json, get
    <1> QED BY <1>3, <1>4, <1>5 DEF t, r

\* A message with those fields answers the request.
LEMMA AnswersWith ==
    ASSUME NEW m, NEW r, NEW f, 
           r.from = m.to, r.to = m.from, r.body = Object(f),
           "type" \in DOMAIN f,
           f["type"] = String(message_type_to_string[response_type[m.type]]),
           "in_reply_to" \in DOMAIN f <=> is_valid(m.id),
           is_valid(m.id) => f["in_reply_to"] = as_json_id(m.id)
    PROVE  Answers(as_json(r), m)
    <1> DEFINE doc == as_json(r)
    <1>1. /\ field(doc, "src") = String(m.to) /\ field(doc, "dest") = String(m.from)
          /\ field(doc, "body") = Object(f)
        BY DEF as_json, Object, Json, field, get
    <1>2. \A s : get(String(s)) = s
        BY DEF get, String, Json
    <1>3. /\ \A k : field(Object(f), k) = f[k] 
          /\ \A k : contains(Object(f), k) <=> k \in DOMAIN f
        BY DEF field, contains, is_object, type_of, get, Object, Json
    <1> HIDE DEF doc
    <1> QED BY <1>1, <1>2, <1>3 DEF Answers, doc

\* So does what the handlers return: the field they add is another one.
LEMMA HandlersAnswer ==
    ASSUME NEW m, NEW s, NEW t, NEW r,
           \/ r = create_response(m, s)
           \/ r = EchoResponse(m, s)
           \/ r = GenerateResponse(m, s, t),
           r.type # "INVALID"
    PROVE  Answers(as_json(r), m)
    <1> DEFINE c == create_response(m, s)
               f == get(c.body)
    <1>0. c = NoMessage \/ m.type \in DOMAIN response_type
        BY DEF create_response
    <1>1. r.type = c.type
        BY DEF EchoResponse, GenerateResponse, create_response, MakeMessage, NoMessage
    <1>2. m.type \in DOMAIN response_type
        <2>1. NoMessage.type = "INVALID"
            BY DEF NoMessage
        <2> QED BY <1>0, <1>1, <2>1, Zenon
    <1>3. /\ c.from = m.to /\ c.to = m.from /\ c.body = Object(f)
          /\ "type" \in DOMAIN f
          /\ f["type"] = String(message_type_to_string[response_type[m.type]])
          /\ "in_reply_to" \in DOMAIN f <=> is_valid(m.id)
          /\ is_valid(m.id) => f["in_reply_to"] = as_json_id(m.id)
        BY <1>2, ResponseFields
    <1>4. ASSUME NEW key \in {"echo", "id"}, NEW v,
                 r = [c EXCEPT !.body = set_field(@, key, v)]
          PROVE  Answers(as_json(r), m)
        <2> DEFINE g == [k \in DOMAIN f \cup {key} |-> IF k = key THEN v ELSE f[k]]
        <2>1. r.from = c.from /\ r.to = c.to /\ r.body = Object(g)
            <3>1. r.from = c.from /\ r.to = c.to /\ r.body = set_field(c.body, key, v)
                BY <1>2, <1>4 DEF create_response, MakeMessage
            <3> QED BY <3>1 DEF set_field
        <2>2. \A k \in DOMAIN f : k # key => g[k] = f[k]
            OBVIOUS
        <2>3. \A k : k # key => (k \in DOMAIN g <=> k \in DOMAIN f)
            OBVIOUS
        <2> HIDE DEF f, g, c
        <2> QED BY <1>3, <2>1, <2>2, <2>3, AnswersWith
    <1>5. CASE r = create_response(m, s)
        BY <1>3, <1>5, AnswersWith
    <1>6. CASE r = EchoResponse(m, s)
        BY <1>4, <1>6 DEF EchoResponse
    <1>7. CASE r = GenerateResponse(m, s, t)
        BY <1>4, <1>7 DEF GenerateResponse
    <1> QED BY <1>5, <1>6, <1>7

\* What RepliesMatchRequests needs to be inductive: a worker about to write
\* holds an answer to its task, what is on stdout names lines that were read,
\* and a line with a payload is answered or has its newline still to come.
ReplyInv ==
    /\ \A w \in Workers : worker[w] \in {"write", "endl"} =>
          Answers(as_json(response[w]), MessageOf(task[w]))
    /\ \A i \in DOMAIN stdout :
          /\ stdout[i].line \in DOMAIN input
          /\ stdout[i].part = "payload" =>
                /\ Answers(stdout[i].json, MessageOf(stdout[i].line))
                /\ \/ fate[stdout[i].line] = "answered"
                   \/ \E w \in Workers : worker[w] = "endl" /\ task[w] = stdout[i].line
    /\ \A i, j \in DOMAIN stdout :
          stdout[i].part = "payload" /\ stdout[j].part = "payload"
            /\ stdout[i].line = stdout[j].line => i = j
    /\ \A n \in DOMAIN input :
          fate[n] = "answered" <=>
              \E i \in DOMAIN stdout : stdout[i].part = "newline" /\ stdout[i].line = n

\* A step that writes nothing.
LEMMA RepliesStay ==
    ASSUME TypeOK, ReplyInv, UNCHANGED stdout,
           \A n \in DOMAIN input : n \in DOMAIN input' /\ input'[n] = input[n],
           \A n \in DOMAIN input' :
              fate'[n] = "answered" <=> n \in DOMAIN input /\ fate[n] = "answered",
           \A w \in Workers : worker[w] = "endl" => worker'[w] = "endl",
           \A w \in Workers : worker'[w] \in {"write", "endl"} =>
              \/ /\ worker[w] \in {"write", "endl"} /\ task[w] \in DOMAIN input
                 /\ response'[w] = response[w]
              \/ Answers(as_json(response[w]), MessageOf(task[w]))',
           \A w \in Workers : worker[w] \in {"write", "endl"} => task'[w] = task[w]
    PROVE  ReplyInv'
    <1>1. \A n \in DOMAIN input : MessageOf(n)' = MessageOf(n)
        BY DEF MessageOf
    <1>2. (\A w \in Workers : worker[w] \in {"write", "endl"} =>
              Answers(as_json(response[w]), MessageOf(task[w])))'
        <2> SUFFICES ASSUME NEW w \in Workers, worker'[w] \in {"write", "endl"},
                            worker[w] \in {"write", "endl"}, task[w] \in DOMAIN input,
                            response'[w] = response[w]
                     PROVE  Answers(as_json(response[w]), MessageOf(task[w]))'
            OBVIOUS
        <2>1. Answers(as_json(response[w]), MessageOf(task[w]))
            BY DEF ReplyInv
        <2> QED BY <2>1 DEF MessageOf
    <1>3. (\A i \in DOMAIN stdout :
              /\ stdout[i].line \in DOMAIN input
              /\ stdout[i].part = "payload" =>
                    /\ Answers(stdout[i].json, MessageOf(stdout[i].line))
                    /\ \/ fate[stdout[i].line] = "answered"
                       \/ \E w \in Workers : worker[w] = "endl" /\ task[w] = stdout[i].line)'
        <2> SUFFICES ASSUME NEW i \in DOMAIN stdout
                     PROVE  /\ stdout[i].line \in DOMAIN input'
                            /\ stdout[i].part = "payload" =>
                                /\ Answers(stdout[i].json, MessageOf(stdout[i].line)')
                                /\ \/ fate'[stdout[i].line] = "answered"
                                   \/ \E w \in Workers :
                                        worker'[w] = "endl" /\ task'[w] = stdout[i].line
            BY DEF MessageOf
        <2>1. stdout[i].line \in DOMAIN input
            BY DEF ReplyInv
        <2>2. MessageOf(stdout[i].line)' = MessageOf(stdout[i].line)
            BY <1>1, <2>1 DEF MessageOf
        <2> QED BY <2>1, <2>2 DEF ReplyInv
    <1>4. (\A i, j \in DOMAIN stdout :
              stdout[i].part = "payload" /\ stdout[j].part = "payload"
                /\ stdout[i].line = stdout[j].line => i = j)'
        BY DEF ReplyInv
    <1>5. (\A n \in DOMAIN input :
              fate[n] = "answered" <=>
                 \E i \in DOMAIN stdout : stdout[i].part = "newline" /\ stdout[i].line = n)'
        BY DEF ReplyInv
    <1> QED BY <1>2, <1>3, <1>4, <1>5 DEF ReplyInv

\* A payload is written: it is the first for its line.
LEMMA PayloadReplies ==
    ASSUME TaskInv, ReplyInv, NEW w \in Workers, WritePayload(w)
    PROVE  ReplyInv'
    <1> DEFINE k == Len(stdout) + 1
               n == task[w]
    <1>1. /\ worker[w] = "write" /\ worker' = [worker EXCEPT ![w] = "endl"]
          /\ UNCHANGED <<task, response, input, fate>>
        BY DEF WritePayload, queueVars, historyVars
    <1>2. /\ Payload(w) \in Written /\ Payload(w).part = "payload" /\ Payload(w).line = n
          /\ Payload(w).json = as_json(response[w])
        BY DEF Payload, Written, TaskInv, TypeOK
    <1>3. stdout \in Seq(Written) /\ stdout' = Append(stdout, Payload(w))
        BY DEF WritePayload, TaskInv, TypeOK
    <1>4. /\ Len(stdout) \in Nat /\ DOMAIN stdout = 1..Len(stdout) /\ DOMAIN stdout' = 1..k
          /\ \A i \in 1..Len(stdout) : stdout'[i] = stdout[i]
          /\ stdout'[k] = Payload(w)
        BY <1>2, <1>3, AppendFacts
    <1>5. /\ n \in DOMAIN input /\ fate[n] = "accepted"
          /\ \A v \in Workers : v # w /\ worker[v] = "endl" => task[v] # n
        BY <1>1, MessageFacts DEF TaskInv, TypeOK, LinesTracked, TasksAccountedFor, HasTask
    <1>6. \A v \in Workers : worker'[v] = (IF v = w THEN "endl" ELSE worker[v])
        BY <1>1 DEF TaskInv, TypeOK
    <1>7. \A m : MessageOf(m)' = MessageOf(m)
        BY <1>1 DEF MessageOf
    <1>8. \A i \in 1..Len(stdout) : stdout[i].part = "payload" => stdout[i].line # n
        BY <1>1, <1>4, <1>5 DEF ReplyInv
    <1>9. (\A v \in Workers : worker[v] \in {"write", "endl"} =>
              Answers(as_json(response[v]), MessageOf(task[v])))'
        BY <1>1, <1>6, <1>7 DEF ReplyInv
    <1>10. (\A i \in DOMAIN stdout :
              /\ stdout[i].line \in DOMAIN input
              /\ stdout[i].part = "payload" =>
                    /\ Answers(stdout[i].json, MessageOf(stdout[i].line))
                    /\ \/ fate[stdout[i].line] = "answered"
                       \/ \E v \in Workers : worker[v] = "endl" /\ task[v] = stdout[i].line)'
        <2> SUFFICES ASSUME NEW i \in 1..k
                     PROVE  /\ stdout'[i].line \in DOMAIN input
                            /\ stdout'[i].part = "payload" =>
                                /\ Answers(stdout'[i].json, MessageOf(stdout'[i].line))
                                /\ \/ fate[stdout'[i].line] = "answered"
                                   \/ \E v \in Workers :
                                        worker'[v] = "endl" /\ task[v] = stdout'[i].line
            BY <1>1, <1>4, <1>7 DEF MessageOf
        <2>1. CASE i = k
            <3>1. Answers(as_json(response[w]), MessageOf(n))
                BY <1>1 DEF ReplyInv
            <3> QED BY <1>2, <1>4, <1>5, <1>6, <2>1, <3>1
        <2>2. CASE i # k
            <3>1. i \in 1..Len(stdout) /\ stdout'[i] = stdout[i]
                BY <1>4, <2>2
            <3> QED BY <1>4, <1>6, <3>1 DEF ReplyInv
        <2> QED BY <2>1, <2>2
    <1>11. (\A i, j \in DOMAIN stdout :
              stdout[i].part = "payload" /\ stdout[j].part = "payload"
                /\ stdout[i].line = stdout[j].line => i = j)'
        <2>1. \A i \in 1..k : i \in 1..Len(stdout) \/ i = k
            BY <1>4
        <2> QED BY <1>2, <1>4, <1>8, <2>1 DEF ReplyInv
    <1>12. (\A m \in DOMAIN input :
              fate[m] = "answered" <=>
                 \E i \in DOMAIN stdout : stdout[i].part = "newline" /\ stdout[i].line = m)'
        <2>1. \A i \in 1..k : i \in 1..Len(stdout) \/ i = k
            BY <1>4
        <2>2. stdout'[k].part # "newline"
            BY <1>2, <1>4
        <2> QED BY <1>1, <1>4, <2>1, <2>2 DEF ReplyInv
    <1> QED BY <1>9, <1>10, <1>11, <1>12 DEF ReplyInv

\* The newline is written and the line counts as answered.
LEMMA NewlineReplies ==
    ASSUME TaskInv, ReplyInv, NEW w \in Workers, WriteNewline(w)
    PROVE  ReplyInv'
    <1> DEFINE k == Len(stdout) + 1
               n == task[w]
    <1>1. /\ worker[w] = "endl" /\ worker' = [worker EXCEPT ![w] = "lock"]
          /\ task' = [task EXCEPT ![w] = 0] /\ fate' = [fate EXCEPT ![n] = "answered"]
          /\ UNCHANGED <<response, input>>
        BY DEF WriteNewline
    <1>2. Newline(w) \in Written /\ Newline(w).part = "newline" /\ Newline(w).line = n
        BY DEF Newline, Written, TaskInv, TypeOK
    <1>3. stdout \in Seq(Written) /\ stdout' = Append(stdout, Newline(w))
        BY DEF WriteNewline, TaskInv, TypeOK
    <1>4. /\ Len(stdout) \in Nat /\ DOMAIN stdout = 1..Len(stdout) /\ DOMAIN stdout' = 1..k
          /\ \A i \in 1..Len(stdout) : stdout'[i] = stdout[i]
          /\ stdout'[k] = Newline(w)
        BY <1>2, <1>3, AppendFacts
    <1>5. n \in DOMAIN input /\ n \in 1..Len(fate) /\ fate \in Seq(Fate)
        BY <1>1, MessageFacts DEF TaskInv, TypeOK, LinesTracked, HasTask
    <1>6. \A v \in Workers : worker'[v] \in {"write", "endl"} =>
              v # w /\ worker[v] = worker'[v] /\ task'[v] = task[v]
        BY <1>1 DEF TaskInv, TypeOK
    <1>7. \A v \in Workers : worker[v] = "endl" =>
              v = w \/ (worker'[v] = "endl" /\ task'[v] = task[v])
        BY <1>1 DEF TaskInv, TypeOK
    <1>8. \A m : MessageOf(m)' = MessageOf(m)
        BY <1>1 DEF MessageOf
    <1>9. \A m \in DOMAIN input : fate'[m] = "answered" <=> m = n \/ fate[m] = "answered"
        BY <1>1, <1>5, ExceptFacts DEF TaskInv, TypeOK, Fate
    <1>10. (\A v \in Workers : worker[v] \in {"write", "endl"} =>
              Answers(as_json(response[v]), MessageOf(task[v])))'
        <2> SUFFICES ASSUME NEW v \in Workers, worker'[v] \in {"write", "endl"}
                     PROVE  Answers(as_json(response[v]), MessageOf(task'[v]))
            BY <1>1, <1>8 DEF MessageOf
        <2> QED BY <1>6 DEF ReplyInv
    <1>11. (\A i \in DOMAIN stdout :
              /\ stdout[i].line \in DOMAIN input
              /\ stdout[i].part = "payload" =>
                    /\ Answers(stdout[i].json, MessageOf(stdout[i].line))
                    /\ \/ fate[stdout[i].line] = "answered"
                       \/ \E v \in Workers : worker[v] = "endl" /\ task[v] = stdout[i].line)'
        <2> SUFFICES ASSUME NEW i \in 1..k
                     PROVE  /\ stdout'[i].line \in DOMAIN input
                            /\ stdout'[i].part = "payload" =>
                                /\ Answers(stdout'[i].json, MessageOf(stdout'[i].line))
                                /\ \/ fate'[stdout'[i].line] = "answered"
                                   \/ \E v \in Workers :
                                        worker'[v] = "endl" /\ task'[v] = stdout'[i].line
            BY <1>1, <1>4, <1>8 DEF MessageOf
        <2>1. CASE i = k
            BY <1>2, <1>4, <1>5, <2>1
        <2>2. CASE i # k
            <3>1. i \in DOMAIN stdout /\ stdout'[i] = stdout[i]
                BY <1>4, <2>2
            <3>2. /\ stdout[i].line \in DOMAIN input
                  /\ stdout[i].part = "payload" =>
                        /\ Answers(stdout[i].json, MessageOf(stdout[i].line))
                        /\ \/ fate[stdout[i].line] = "answered"
                           \/ \E v \in Workers : worker[v] = "endl" /\ task[v] = stdout[i].line
                BY <3>1 DEF ReplyInv
            <3> QED BY <1>7, <1>9, <3>1, <3>2
        <2> QED BY <2>1, <2>2
    <1>12. (\A i, j \in DOMAIN stdout :
              stdout[i].part = "payload" /\ stdout[j].part = "payload"
                /\ stdout[i].line = stdout[j].line => i = j)'
        <2>1. \A i \in 1..k : stdout'[i].part = "payload" => i \in 1..Len(stdout)
            BY <1>2, <1>4
        <2> QED BY <1>4, <2>1 DEF ReplyInv
    <1>13. (\A m \in DOMAIN input :
              fate[m] = "answered" <=>
                 \E i \in DOMAIN stdout : stdout[i].part = "newline" /\ stdout[i].line = m)'
        <2> SUFFICES ASSUME NEW m \in DOMAIN input
                     PROVE  fate'[m] = "answered" <=>
                               \E i \in 1..k : stdout'[i].part = "newline" /\ stdout'[i].line = m
            BY <1>1, <1>4
        <2>1. k \in 1..k /\ \A i \in 1..k : i \in 1..Len(stdout) \/ i = k
            BY <1>4
        <2>2. fate[m] = "answered" <=>
                 \E i \in 1..Len(stdout) : stdout[i].part = "newline" /\ stdout[i].line = m
            BY <1>4 DEF ReplyInv
        <2>3. 1..Len(stdout) \subseteq 1..k
            BY <1>4
        <2> QED BY <1>2, <1>4, <1>9, <2>1, <2>2, <2>3
    <1> QED BY <1>10, <1>11, <1>12, <1>13 DEF ReplyInv

\* A handler hands a response to the worker: it is an answer to the task.
LEMMA HandlerReplies ==
    ASSUME TaskInv, ReplyInv, NEW w \in Workers,
           worker[w] \in {"invoke", "init_test", "init_self"}, NEW r, HandlerReturns(w, r),
           r.type # "INVALID" => Answers(as_json(r), MessageOf(task[w])),
           UNCHANGED <<stdout, input>>
    PROVE  ReplyInv'
    <1> DEFINE n == task[w]
    <1>1. /\ n \in 1..Len(fate) /\ fate[n] = "accepted" /\ fate \in Seq(Fate)
          /\ DOMAIN input = 1..Len(fate)
          /\ \A v \in Workers : worker[v] \in HasTask => task[v] \in DOMAIN input
        BY MessageFacts DEF TaskInv, TypeOK, LinesTracked, HasTask
    <1>2. /\ \A v \in Workers : v # w => worker'[v] = worker[v] /\ task'[v] = task[v]
                                         /\ response'[v] = response[v]
          /\ response'[w] = r
          /\ worker'[w] \in {"write", "lock"}
          /\ worker'[w] = "write" => r.type # "INVALID" /\ task'[w] = n
        BY DEF HandlerReturns, Returned, TaskInv, TypeOK
    <1>3. \A m \in DOMAIN input : fate'[m] = "answered" <=> fate[m] = "answered"
        <2>1. CASE fate' = fate
            BY <2>1
        <2>2. CASE fate' = [fate EXCEPT ![n] = "silent"]
            BY <1>1, <2>2, ExceptFacts DEF Fate
        <2> QED BY <2>1, <2>2 DEF HandlerReturns
    <1>4. worker'[w] = "write" => Answers(as_json(response[w]), MessageOf(task[w]))'
        BY <1>2 DEF MessageOf
    <1>5. TypeOK
        BY DEF TaskInv
    <1> QED BY <1>1, <1>2, <1>3, <1>4, <1>5, RepliesStay DEF HasTask

\* A worker moves without writing or ending its task.
LEMMA MoveReplies ==
    ASSUME TaskInv, ReplyInv, NEW w \in Workers, worker[w] \notin {"write", "endl"},
           \E pc \in WorkerPc \ {"write", "endl"} : worker' = [worker EXCEPT ![w] = pc],
           \/ UNCHANGED task
           \/ \E n : task' = [task EXCEPT ![w] = n],
           UNCHANGED <<stdout, response, input, fate>>
    PROVE  ReplyInv'
    <1>1. /\ TypeOK
          /\ \A v \in Workers : worker[v] \in HasTask => task[v] \in DOMAIN input
        BY DEF TaskInv, LinesTracked
    <1>2. \A v \in Workers : /\ worker[v] \in {"write", "endl"} => worker'[v] = worker[v]
                                                                   /\ task'[v] = task[v]
                             /\ worker'[v] \in {"write", "endl"} => worker[v] = worker'[v]
        BY DEF TaskInv, TypeOK
    <1> QED BY <1>1, <1>2, RepliesStay DEF HasTask

LEMMA ReplyStep ==
    ASSUME TaskInv, ReplyInv, [Next]_vars
    PROVE  ReplyInv'
    <1> USE DEF mainVars, queueVars, idVars, outVars, historyVars, dataVars, processVars,
                handlerFrame
    <1>0. /\ TypeOK
          /\ \A w \in Workers : worker[w] \in {"write", "endl"} => task[w] \in DOMAIN input
        BY DEF TaskInv, LinesTracked, HasTask
    <1>1. CASE UNCHANGED vars
        BY <1>0, <1>1, RepliesStay DEF vars
    <1>2. CASE Crash
        BY <1>0, <1>2, RepliesStay DEF Crash
    <1>3. CASE StartRunning \/ TestRunning \/ Enqueue \/ NotifyOne \/ NotifyAll
                \/ Join \/ Return \/ GetEmptyLine \/ StopStore \/ StopNotify
        <2>1. UNCHANGED <<stdout, task, response, input, fate>>
            BY <1>3 DEF StartRunning, TestRunning, Enqueue, NotifyOne, NotifyAll, Join,
                        Return, GetEmptyLine, StopStore, StopNotify
        <2>2. \A w \in Workers :
                  worker'[w] = worker[w] \/ (worker[w] = "waiting" /\ worker'[w] = "lock")
            <3>1. worker \in [Workers -> WorkerPc]
                BY <1>0 DEF TypeOK
            <3>2. \/ worker' = worker \/ worker' = WakeAll
                  \/ \E w \in Waiting : worker' = [worker EXCEPT ![w] = "lock"]
                BY <1>3 DEF StartRunning, TestRunning, Enqueue, NotifyOne, NotifyAll, Join,
                            Return, GetEmptyLine, StopStore, StopNotify
            <3> QED BY <3>1, <3>2 DEF WakeAll, Waiting
        <2> QED BY <1>0, <2>1, <2>2, RepliesStay
    <1>4. CASE Dispatch
        <2> DEFINE k == Len(input)
                   d == Disposition(Parsing[input[k]])
        <2>1. /\ k \in 1..Len(fate) /\ fate \in Seq(Fate) /\ fate[k] = "read"
              /\ DOMAIN input = 1..Len(fate)
            BY <1>4 DEF Dispatch, TaskInv, TypeOK, LinesTracked
        <2>2. d \in Fate \ {"answered"}
            BY DEF Disposition, Fate
        <2>3. \A n \in DOMAIN input : fate'[n] = "answered" <=> fate[n] = "answered"
            BY <1>4, <2>1, <2>2, ExceptFacts DEF Dispatch
        <2>4. UNCHANGED <<stdout, worker, task, response, input>>
            BY <1>4 DEF Dispatch
        <2> QED BY <1>0, <2>3, <2>4, RepliesStay
    <1>5. ASSUME NEW line \in Lines, GetLine(line) PROVE ReplyInv'
        <2> DEFINE k == Len(input) + 1
        <2>1. /\ Len(input) \in Nat /\ Len(fate) = Len(input)
              /\ DOMAIN input = 1..Len(input) /\ DOMAIN input' = 1..k
            BY <1>5, AppendFacts DEF GetLine, TaskInv, TypeOK, Fate
        <2>2. /\ \A n \in DOMAIN input : input'[n] = input[n] /\ fate'[n] = fate[n]
              /\ fate'[k] = "read"
            BY <1>5, <2>1, AppendFacts DEF GetLine, TaskInv, TypeOK, Fate
        <2>3. UNCHANGED <<stdout, worker, task, response>>
            BY <1>5 DEF GetLine
        <2>4. \A n \in DOMAIN input' : n \in DOMAIN input \/ n = k
            BY <2>1
        <2>5. k \notin DOMAIN input
            BY <2>1
        <2>6. \A n \in DOMAIN input : n \in DOMAIN input'
            BY <2>1
        <2> QED BY <1>0, <2>2, <2>3, <2>4, <2>5, <2>6, RepliesStay
    <1>6. ASSUME NEW w \in Workers,
                 \/ SpawnWorker(w) \/ SpuriousWakeup(w) \/ Lock(w) \/ TestPredicate(w)
                 \/ Block(w) \/ Exit(w) \/ TakeTask(w) \/ InitIds(w)
          PROVE  ReplyInv'
        <2>1. worker[w] \notin {"write", "endl"} /\ UNCHANGED <<stdout, response, input, fate>>
            BY <1>6 DEF SpawnWorker, SpuriousWakeup, Lock, TestPredicate, Block, Exit, TakeTask,
                        InitIds
        <2>2. \E pc \in WorkerPc \ {"write", "endl"} : worker' = [worker EXCEPT ![w] = pc]
            BY <1>6 DEF SpawnWorker, SpuriousWakeup, Lock, TestPredicate, Block, Exit, TakeTask,
                        InitIds, WorkerPc
        <2>3. UNCHANGED task \/ \E n : task' = [task EXCEPT ![w] = n]
            BY <1>6 DEF SpawnWorker, SpuriousWakeup, Lock, TestPredicate, Block, Exit, TakeTask,
                        InitIds
        <2> QED BY <2>1, <2>2, <2>3, MoveReplies
    <1>7. ASSUME NEW w \in Workers,
                 \/ InvokeEcho(w) \/ InvokeGenerate(w) \/ InitSelf(w)
          PROVE  ReplyInv'
        <2>1. /\ worker[w] \in {"invoke", "init_test", "init_self"}
              /\ UNCHANGED <<stdout, input>>
            BY <1>7 DEF InvokeEcho, InvokeGenerate, InitSelf
        <2>2. PICK s, t : \E r : /\ HandlerReturns(w, r)
                                 /\ \/ r = create_response(MessageOf(task[w]), s)
                                    \/ r = EchoResponse(MessageOf(task[w]), s)
                                    \/ r = GenerateResponse(MessageOf(task[w]), s, t)
            BY <1>7 DEF InvokeEcho, InvokeGenerate, InitSelf
        <2> QED BY <2>1, <2>2, HandlersAnswer, HandlerReplies
    <1>8. ASSUME NEW w \in Workers, InvokeInit(w) \/ InitTest(w) PROVE ReplyInv'
        <2>1. /\ worker[w] \in {"invoke", "init_test", "init_self"}
              /\ UNCHANGED <<stdout, input>>
            BY <1>8 DEF InvokeInit, InitTest
        <2>2. CASE \E s \in random_device :
                      HandlerReturns(w, create_response(MessageOf(task[w]), s))
            BY <2>1, <2>2, HandlersAnswer, HandlerReplies
        <2>3. CASE HandlerReturns(w, NoMessage)
            <3>1. NoMessage.type = "INVALID"
                BY DEF NoMessage
            <3> QED BY <2>1, <2>3, <3>1, HandlerReplies
        <2>4. CASE /\ UNCHANGED <<task, response, fate>>
                   /\ \E pc \in {"init_test", "init_ids"} : worker' = [worker EXCEPT ![w] = pc]
            BY <2>1, <2>4, MoveReplies DEF WorkerPc
        <2> QED BY <1>8, <2>2, <2>3, <2>4 DEF InvokeInit, InitTest
    <1>9. ASSUME NEW w \in Workers, WritePayload(w) PROVE ReplyInv'
        BY <1>9, PayloadReplies
    <1>10. ASSUME NEW w \in Workers, WriteNewline(w) PROVE ReplyInv'
        BY <1>10, NewlineReplies
    <1> QED
        BY <1>1, <1>2, <1>3, <1>4, <1>5, <1>6, <1>7, <1>8, <1>9, <1>10
        DEF Next, MainStep, WorkerStep, Environment, ReadsInput, Terminated, DispatchAborts,
            TakeFromEmpty, InvokeAborts,
            EchoAborts, InitAborts, InitRace

\* One payload at most is on stdout for a line.
LEMMA RepliesFollow == TypeOK /\ ReplyInv => RepliesMatchRequests
    <1> SUFFICES ASSUME TypeOK, ReplyInv, NEW n \in DOMAIN input
                 PROVE  /\ Cardinality(PayloadsFor(n)) <= 1
                        /\ \A i \in PayloadsFor(n) : Answers(stdout[i].json, MessageOf(n))
                        /\ fate[n] = "answered" <=>
                              \E i \in DOMAIN stdout :
                                 stdout[i].part = "newline" /\ stdout[i].line = n
        BY DEF RepliesMatchRequests
    <1>1. Cardinality(PayloadsFor(n)) <= 1
        <2>1. CASE PayloadsFor(n) = {}
            BY <2>1, FS_EmptySet
        <2>2. CASE PayloadsFor(n) # {}
            <3>1. PICK i : i \in PayloadsFor(n)
                BY <2>2
            <3>2. PayloadsFor(n) = {i}
                BY <3>1 DEF PayloadsFor, ReplyInv
            <3> QED BY <3>2, FS_Singleton
        <2> QED BY <2>1, <2>2
    <1>2. \A i \in PayloadsFor(n) : Answers(stdout[i].json, MessageOf(n))
        BY DEF PayloadsFor, ReplyInv
    <1> QED BY <1>1, <1>2 DEF ReplyInv

\* The invariant of the responses.
THEOREM ReplyInvariant == Spec => []ReplyInv
    <1>1. Init => ReplyInv
        <2> SUFFICES ASSUME Init PROVE ReplyInv
            OBVIOUS
        <2>1. stdout = <<>> /\ input = <<>> /\ \A w \in Workers : worker[w] = "unborn"
            BY DEF Init
        <2>2. DOMAIN stdout = {} /\ DOMAIN input = {}
            BY <2>1
        <2> QED BY <2>1, <2>2 DEF ReplyInv
    <1>2. TaskInv /\ ReplyInv /\ [Next]_vars => ReplyInv'
        BY ReplyStep
    <1> QED BY <1>1, <1>2, TaskInvariant, PTL DEF Spec

\* Whatever the workers' interleaving, a request is answered at most once, by
\* the response create_response() makes of it, and counts as answered exactly
\* when that response is on stdout.
THEOREM RepliesAreAnswers == Spec => []RepliesMatchRequests
    <1>1. TaskInv /\ ReplyInv => RepliesMatchRequests
        BY RepliesFollow DEF TaskInv
    <1> QED BY <1>1, TaskInvariant, ReplyInvariant, PTL

-----------------------------------------------------------------------------
(* The invariant of init() *)

InInit == {"init_test", "init_ids", "init_self"}

\* handle_init() calls init() for this body.
CallsInit(body) ==
    HasNodeId(body) /\ HasNodeIds(body) /\ SelfIndex(body) <= Len(NodeIds(body))

\* One init request at most is under way; the workers inside handle_init()
\* run one; between its test and its assignments init() finds the node
\* without an identity, and its own list in all_node_ids.
IdentityInv ==
    /\ \A m, n \in PendingInits : m = n
    /\ \A n \in DOMAIN input : fate[n] = "accepted" => MessageOf(n).type \in DOMAIN handler_map
    /\ \A w \in Workers : worker[w] \in InInit =>
          IsInit(input[task[w]]) /\ CallsInit(MessageOf(task[w]).body)
    /\ \A w \in Workers : worker[w] \in {"init_ids", "init_self"} => self_node_id.text = ""
    /\ \A w \in Workers : worker[w] = "init_self" =>
          all_node_ids.ids = NodeIds(MessageOf(task[w]).body)

\* Which handler runs for which type.
LEMMA Handlers ==
    /\ DOMAIN handler_map = {"INIT_REQ", "ECHO_REQ", "GENERATE_REQ"}
    /\ handler_map["INIT_REQ"] = "handle_init"
    /\ handler_map["ECHO_REQ"] = "echo"
    /\ handler_map["GENERATE_REQ"] = "generate"
    <1> DEFINE m0 == [t \in {} |-> ""]
               m1 == register_handler(m0, "INIT_REQ", "handle_init")
               m2 == register_handler(m1, "ECHO_REQ", "echo")
    <1>1. DOMAIN m1 = {"INIT_REQ"} /\ m1["INIT_REQ"] = "handle_init"
        BY DEF register_handler
    <1> HIDE DEF m1
    <1>2. /\ DOMAIN m2 = {"INIT_REQ", "ECHO_REQ"}
          /\ m2["INIT_REQ"] = "handle_init" /\ m2["ECHO_REQ"] = "echo"
        BY <1>1 DEF register_handler
    <1> HIDE DEF m2
    <1>3. handler_map = register_handler(m2, "GENERATE_REQ", "generate")
        BY DEF handler_map, m2, m1
    <1> QED BY <1>2, <1>3 DEF register_handler

\* The lines a worker can hold the task of.
LEMMA TaskHandlers ==
    ASSUME TaskInv, IdentityInv, NEW w \in Workers, worker[w] \in HasTask
    PROVE  /\ task[w] \in DOMAIN input /\ fate[task[w]] = "accepted"
           /\ HandlerOf(task[w]) = "handle_init" <=> IsInit(input[task[w]])
           /\ HandlerOf(task[w]) = "handle_init" <=> MessageOf(task[w]).type = "INIT_REQ"
    <1>1. task[w] \in DOMAIN input /\ fate[task[w]] = "accepted"
        BY MessageFacts DEF TaskInv, LinesTracked
    <1>2. MessageOf(task[w]).type \in {"INIT_REQ", "ECHO_REQ", "GENERATE_REQ"}
        BY <1>1, Handlers DEF IdentityInv
    <1>3. HandlerOf(task[w]) = "handle_init" <=> MessageOf(task[w]).type = "INIT_REQ"
        BY <1>2, Handlers DEF HandlerOf
    <1>4. Parsing[input[task[w]]].outcome = "value"
        BY <1>1 DEF TaskInv, LinesTracked
    <1> QED BY <1>1, <1>3, <1>4 DEF IsInit, MessageOf

\* Two workers are never inside handle_init() together.
LEMMA OneInit ==
    ASSUME TaskInv, IdentityInv, NEW v \in Workers, NEW w \in Workers,
           worker[v] \in HasTask, IsInit(input[task[v]]), worker[w] \in InInit
    PROVE  v = w
    <1>1. worker[w] \in HasTask /\ IsInit(input[task[w]])
        BY DEF InInit, HasTask, IdentityInv
    <1>2. task[v] \in PendingInits /\ task[w] \in PendingInits
        BY <1>1, TaskHandlers DEF PendingInits
    <1>3. task[v] = task[w]
        BY <1>2 DEF IdentityInv
    <1> QED BY <1>1, <1>3 DEF TaskInv, TasksAccountedFor

\* A step that leaves the ids alone and brings no worker further into init().
LEMMA IdentityStays ==
    ASSUME TaskInv, IdentityInv, UNCHANGED idVars,
           \A n \in DOMAIN input : n \in DOMAIN input' /\ input'[n] = input[n],
           \A m, n \in PendingInits' : m = n,
           \A n \in DOMAIN input' : fate'[n] = "accepted" =>
              Parsing[input'[n]].value.type \in DOMAIN handler_map,
           \A w \in Workers : worker'[w] \in InInit => worker[w] = worker'[w] /\ task'[w] = task[w]
    PROVE  IdentityInv'
    <1>1. \A w \in Workers : worker'[w] \in InInit =>
              /\ worker[w] = worker'[w] /\ task'[w] = task[w] /\ task[w] \in DOMAIN input
              /\ input'[task[w]] = input[task[w]]
        BY DEF TaskInv, LinesTracked, HasTask, InInit
    <1>2. (\A n \in DOMAIN input :
              fate[n] = "accepted" => MessageOf(n).type \in DOMAIN handler_map)'
        BY DEF MessageOf
    <1>3. (\A w \in Workers : worker[w] \in InInit =>
              IsInit(input[task[w]]) /\ CallsInit(MessageOf(task[w]).body))'
        <2> SUFFICES ASSUME NEW w \in Workers, worker'[w] \in InInit
                     PROVE  (IsInit(input[task[w]]) /\ CallsInit(MessageOf(task[w]).body))'
            OBVIOUS
        <2>1. IsInit(input[task[w]]) /\ CallsInit(MessageOf(task[w]).body)
            BY <1>1 DEF IdentityInv
        <2> QED BY <1>1, <2>1 DEF MessageOf
    <1>4. (\A w \in Workers : worker[w] \in {"init_ids", "init_self"} =>
              self_node_id.text = "")'
        BY <1>1 DEF idVars, IdentityInv, InInit
    <1>5. (\A w \in Workers : worker[w] = "init_self" =>
              all_node_ids.ids = NodeIds(MessageOf(task[w]).body))'
        <2> SUFFICES ASSUME NEW w \in Workers, worker'[w] = "init_self"
                     PROVE  (all_node_ids.ids = NodeIds(MessageOf(task[w]).body))'
            OBVIOUS
        <2>1. all_node_ids.ids = NodeIds(MessageOf(task[w]).body)
            BY <1>1 DEF IdentityInv, InInit
        <2> QED BY <1>1, <2>1 DEF MessageOf, idVars, InInit
    <1> QED BY <1>2, <1>3, <1>4, <1>5 DEF IdentityInv

\* The same when no line is read and no fate becomes "read" or "accepted".
LEMMA FatesEnd ==
    ASSUME IdentityInv, UNCHANGED input,
           \A n \in DOMAIN input : fate'[n] = fate[n] \/ fate'[n] \notin {"read", "accepted"}
    PROVE  /\ \A m, n \in PendingInits' : m = n
           /\ \A n \in DOMAIN input' : fate'[n] = "accepted" =>
                 Parsing[input'[n]].value.type \in DOMAIN handler_map
    <1>1. PendingInits' \subseteq PendingInits
        BY DEF PendingInits
    <1>2. \A n \in DOMAIN input' : fate'[n] = "accepted" => fate[n] = "accepted"
        OBVIOUS
    <1> QED BY <1>1, <1>2 DEF IdentityInv, MessageOf

\* A handler ends outside init(), or hands its response to the worker.
LEMMA HandlerIdentity ==
    ASSUME TaskInv, IdentityInv, NEW w \in Workers, worker[w] \in HasTask,
           NEW r, HandlerReturns(w, r), UNCHANGED input
    PROVE  /\ \A m, n \in PendingInits' : m = n
           /\ \A n \in DOMAIN input' : fate'[n] = "accepted" =>
                 Parsing[input'[n]].value.type \in DOMAIN handler_map
           /\ \A v \in Workers : v # w => worker'[v] = worker[v] /\ task'[v] = task[v]
           /\ worker'[w] \in {"write", "lock"}
    <1>1. /\ task[w] \in 1..Len(fate) /\ fate \in Seq(Fate) /\ DOMAIN input = 1..Len(fate)
        BY MessageFacts DEF TaskInv, TypeOK
    <1>2. \A n \in DOMAIN input : fate'[n] = fate[n] \/ fate'[n] \notin {"read", "accepted"}
        <2>1. CASE fate' = fate
            BY <2>1
        <2>2. CASE fate' = [fate EXCEPT ![task[w]] = "silent"]
            BY <1>1, <2>2, ExceptFacts DEF Fate
        <2> QED BY <2>1, <2>2 DEF HandlerReturns
    <1>3. /\ \A v \in Workers : v # w => worker'[v] = worker[v] /\ task'[v] = task[v]
          /\ worker'[w] \in {"write", "lock"}
        BY DEF HandlerReturns, TaskInv, TypeOK
    <1> QED BY <1>2, <1>3, FatesEnd

\* The senders of init wait for the one before.
LEMMA GetLineIdentity ==
    ASSUME InitsInFlight <= 1, TaskInv, IdentityInv, NEW line \in Lines, GetLine(line)
    PROVE  IdentityInv'
    <1> DEFINE k == Len(input) + 1
    <1>1. /\ Len(input) \in Nat /\ Len(fate) = Len(input)
          /\ DOMAIN input = 1..Len(input) /\ DOMAIN input' = 1..k
        BY AppendFacts DEF GetLine, TaskInv, TypeOK, Fate
    <1>2. /\ \A n \in DOMAIN input : n \in DOMAIN input' /\ input'[n] = input[n] /\ fate'[n] = fate[n]
          /\ fate'[k] = "read" /\ input'[k] = line
        BY <1>1, AppendFacts DEF GetLine, TaskInv, TypeOK, Fate
    <1>3. UNCHANGED <<idVars, worker, task>>
        BY DEF GetLine, queueVars
    <1>4. \A n \in DOMAIN input' : n \in DOMAIN input \/ n = k
        BY <1>1
    <1>5. \A n \in PendingInits' : n \in PendingInits \/ (n = k /\ IsInit(line))
        BY <1>2, <1>4 DEF PendingInits
    <1>6. CASE IsInit(line)
        <2>1. IsFiniteSet(PendingInits)
            <3>1. IsFiniteSet(1..Len(input)) /\ PendingInits \subseteq 1..Len(input)
                BY <1>1, FS_Interval DEF PendingInits
            <3> QED BY <3>1, FS_Subset
        <2>2. Cardinality(PendingInits) < InitsInFlight
            BY <1>6 DEF GetLine
        <2>3. Cardinality(PendingInits) = 0
            BY <2>1, <2>2, FS_CardinalityType, NodeAssumption
        <2>4. PendingInits = {}
            BY <2>1, <2>3, FS_EmptySet
        <2> QED BY <1>2, <1>3, <1>4, <1>5, <2>4, IdentityStays DEF IdentityInv, MessageOf
    <1>7. CASE ~IsInit(line)
        BY <1>2, <1>3, <1>4, <1>5, <1>7, IdentityStays DEF IdentityInv, MessageOf
    <1> QED BY <1>6, <1>7

\* dispatch_message() accepts only lines that have a handler.
LEMMA DispatchIdentity ==
    ASSUME TaskInv, IdentityInv, Dispatch
    PROVE  IdentityInv'
    <1> DEFINE k == Len(input)
               d == Disposition(Parsing[input[k]])
    <1>1. /\ k \in 1..Len(fate) /\ fate \in Seq(Fate) /\ fate[k] = "read"
          /\ k \in DOMAIN input /\ DOMAIN input = 1..Len(fate)
        BY DEF Dispatch, TaskInv, TypeOK, LinesTracked
    <1>2. d \in Fate /\ d # "read"
          /\ (d = "accepted" => Parsing[input[k]].value.type \in DOMAIN handler_map)
        BY DEF Disposition, Fate
    <1>3. /\ fate'[k] = d
          /\ \A n \in DOMAIN input : n # k => fate'[n] = fate[n]
        BY <1>1, <1>2, ExceptFacts DEF Dispatch
    <1>4. UNCHANGED <<idVars, input, worker, task>>
        BY DEF Dispatch, queueVars
    <1> HIDE DEF d, k
    <1>5. PendingInits' \subseteq PendingInits
        BY <1>1, <1>3, <1>4 DEF PendingInits
    <1>6. \A n \in DOMAIN input' : fate'[n] = "accepted" =>
              Parsing[input'[n]].value.type \in DOMAIN handler_map
        BY <1>2, <1>3, <1>4 DEF IdentityInv, MessageOf
    <1> QED BY <1>4, <1>5, <1>6, IdentityStays DEF IdentityInv

\* handle_init() calls init(), init() passes its test.
LEMMA EntersInit ==
    ASSUME TaskInv, IdentityInv, NEW w \in Workers,
           \/ /\ InvokeInit(w) /\ worker' = [worker EXCEPT ![w] = "init_test"]
              /\ CallsInit(MessageOf(task[w]).body)
              /\ UNCHANGED <<task, response, fate>>
           \/ /\ InitTest(w) /\ ~AlreadyInitialized
              /\ worker' = [worker EXCEPT ![w] = "init_ids"]
              /\ UNCHANGED <<task, response, fate>>
    PROVE  IdentityInv'
    <1>1. UNCHANGED <<idVars, input, fate, task>>
        BY DEF InvokeInit, InitTest, handlerFrame
    <1>2. /\ worker'[w] \in {"init_test", "init_ids"}
          /\ worker'[w] = "init_ids" => self_node_id.text = ""
          /\ \A v \in Workers : v # w => worker'[v] = worker[v]
        BY DEF TaskInv, TypeOK, AlreadyInitialized
    <1>3. IsInit(input[task[w]]) /\ CallsInit(MessageOf(task[w]).body)
        <2>1. CASE InitTest(w)
            BY <2>1 DEF InitTest, IdentityInv, InInit
        <2>2. CASE InvokeInit(w) /\ CallsInit(MessageOf(task[w]).body)
            BY <2>2, TaskHandlers DEF InvokeInit, HasTask
        <2> QED BY <2>1, <2>2
    <1>4. \A n : MessageOf(n)' = MessageOf(n)
        BY <1>1 DEF MessageOf
    <1>5. PendingInits' = PendingInits
        BY <1>1 DEF PendingInits
    <1>6. (\A v \in Workers : worker[v] \in InInit =>
              IsInit(input[task[v]]) /\ CallsInit(MessageOf(task[v]).body))'
        BY <1>1, <1>2, <1>3, <1>4 DEF IdentityInv
    <1>7. (\A v \in Workers : worker[v] = "init_self" =>
              all_node_ids.ids = NodeIds(MessageOf(task[v]).body))'
        BY <1>1, <1>2, <1>4 DEF IdentityInv, idVars
    <1> QED BY <1>1, <1>2, <1>4, <1>5, <1>6, <1>7 DEF IdentityInv, idVars

\* init() assigns the vector.
LEMMA InitIdsIdentity ==
    ASSUME TaskInv, IdentityInv, NEW w \in Workers, InitIds(w)
    PROVE  IdentityInv'
    <1>1. /\ worker[w] = "init_ids" /\ worker' = [worker EXCEPT ![w] = "init_self"]
          /\ all_node_ids'.ids = NodeIds(MessageOf(task[w]).body)
          /\ UNCHANGED <<self_node_id, input, fate, task>>
        BY DEF InitIds, historyVars, queueVars
    <1>2. \A v \in Workers : worker'[v] \in InInit => v = w
        BY <1>1, OneInit DEF TaskInv, TypeOK, InInit, HasTask, IdentityInv
    <1>3. \A n : MessageOf(n)' = MessageOf(n)
        BY <1>1 DEF MessageOf
    <1>4. PendingInits' = PendingInits
        BY <1>1 DEF PendingInits
    <1>5. IsInit(input[task[w]]) /\ CallsInit(MessageOf(task[w]).body) /\ self_node_id.text = ""
        BY <1>1 DEF IdentityInv, InInit
    <1>6. (\A v \in Workers : worker[v] \in InInit =>
              IsInit(input[task[v]]) /\ CallsInit(MessageOf(task[v]).body))'
        BY <1>1, <1>2, <1>3, <1>5
    <1>7. (\A v \in Workers : worker[v] = "init_self" =>
              all_node_ids.ids = NodeIds(MessageOf(task[v]).body))'
        BY <1>1, <1>2, <1>3 DEF InInit
    <1> QED BY <1>1, <1>2, <1>3, <1>4, <1>5, <1>6, <1>7 DEF IdentityInv, InInit

\* init() assigns the view and its caller the response.
LEMMA InitSelfIdentity ==
    ASSUME TaskInv, IdentityInv, NEW w \in Workers, InitSelf(w)
    PROVE  IdentityInv'
    <1>1. worker[w] = "init_self" /\ UNCHANGED <<all_node_ids, input>>
        BY DEF InitSelf, handlerFrame
    <1>2. /\ \A m, n \in PendingInits' : m = n
          /\ \A n \in DOMAIN input' : fate'[n] = "accepted" =>
                Parsing[input'[n]].value.type \in DOMAIN handler_map
          /\ \A v \in Workers : v # w => worker'[v] = worker[v]
          /\ worker'[w] \in {"write", "lock"}
        BY <1>1, HandlerIdentity DEF InitSelf, HasTask
    <1>3. \A v \in Workers : worker'[v] \notin InInit
        BY <1>1, <1>2, OneInit DEF InInit, HasTask, IdentityInv
    <1> QED BY <1>2, <1>3 DEF IdentityInv, MessageOf, InInit

\* One step per action.
LEMMA IdentityStep ==
    ASSUME InitsInFlight <= 1, TaskInv, IdentityInv, [Next]_vars
    PROVE  IdentityInv'
    <1> USE DEF mainVars, queueVars, idVars, outVars, historyVars, dataVars, processVars,
                handlerFrame
    <1>0. ASSUME UNCHANGED <<idVars, input, fate>>,
                 \A w \in Workers : worker'[w] \in InInit =>
                    worker[w] = worker'[w] /\ task'[w] = task[w]
          PROVE  IdentityInv'
        BY <1>0, FatesEnd, IdentityStays
    <1>1. CASE UNCHANGED vars
        BY <1>0, <1>1 DEF vars
    <1>2. CASE Crash
        BY <1>0, <1>2 DEF Crash
    <1>3. CASE StartRunning \/ TestRunning \/ Enqueue \/ NotifyOne \/ NotifyAll
                \/ Join \/ Return \/ GetEmptyLine \/ StopStore \/ StopNotify
        <2>1. UNCHANGED <<idVars, task, input, fate>>
            BY <1>3 DEF StartRunning, TestRunning, Enqueue, NotifyOne, NotifyAll, Join,
                        Return, GetEmptyLine, StopStore, StopNotify
        <2>2. worker \in [Workers -> WorkerPc]
            BY DEF TaskInv, TypeOK
        <2>3. \/ worker' = worker \/ worker' = WakeAll
              \/ \E w \in Waiting : worker' = [worker EXCEPT ![w] = "lock"]
            BY <1>3 DEF StartRunning, TestRunning, Enqueue, NotifyOne, NotifyAll, Join,
                        Return, GetEmptyLine, StopStore, StopNotify
        <2>4. \A w \in Workers : worker'[w] \in InInit => worker[w] = worker'[w]
            BY <2>2, <2>3 DEF WakeAll, Waiting, InInit
        <2> QED BY <1>0, <2>1, <2>4
    <1>4. CASE Dispatch
        BY <1>4, DispatchIdentity
    <1>5. ASSUME NEW line \in Lines, GetLine(line) PROVE IdentityInv'
        BY <1>5, GetLineIdentity
    <1>6. ASSUME NEW w \in Workers,
                 \/ SpawnWorker(w) \/ SpuriousWakeup(w) \/ Lock(w) \/ TestPredicate(w)
                 \/ Block(w) \/ Exit(w) \/ TakeTask(w) \/ WritePayload(w)
          PROVE  IdentityInv'
        <2>1. UNCHANGED <<idVars, input, fate>>
            BY <1>6 DEF SpawnWorker, SpuriousWakeup, Lock, TestPredicate, Block, Exit, TakeTask,
                        WritePayload
        <2>2. \E pc \in WorkerPc \ InInit : worker' = [worker EXCEPT ![w] = pc]
            BY <1>6 DEF SpawnWorker, SpuriousWakeup, Lock, TestPredicate, Block, Exit, TakeTask,
                        WritePayload, WorkerPc, InInit
        <2>3. UNCHANGED task \/ \E n : task' = [task EXCEPT ![w] = n]
            BY <1>6 DEF SpawnWorker, SpuriousWakeup, Lock, TestPredicate, Block, Exit, TakeTask,
                        WritePayload
        <2>4. \A v \in Workers : worker'[v] \in InInit =>
                  worker[v] = worker'[v] /\ task'[v] = task[v]
            BY <2>2, <2>3 DEF TaskInv, TypeOK
        <2> QED BY <1>0, <2>1, <2>4
    <1>7. ASSUME NEW w \in Workers, worker[w] \in HasTask, NEW r, HandlerReturns(w, r),
                 UNCHANGED <<idVars, input>>
          PROVE  IdentityInv'
        BY <1>7, HandlerIdentity, IdentityStays DEF InInit
    <1>8. ASSUME NEW w \in Workers, InvokeEcho(w) \/ InvokeGenerate(w) PROVE IdentityInv'
        <2>1. /\ worker[w] \in HasTask /\ UNCHANGED <<idVars, input>>
              /\ \E r : HandlerReturns(w, r)
            BY <1>8 DEF InvokeEcho, InvokeGenerate, HasTask
        <2> QED BY <1>7, <2>1
    <1>9. ASSUME NEW w \in Workers, InvokeInit(w) PROVE IdentityInv'
        <2>1. worker[w] \in HasTask /\ UNCHANGED <<idVars, input>>
            BY <1>9 DEF InvokeInit, HasTask
        <2>2. CASE \E r : HandlerReturns(w, r)
            BY <1>7, <2>1, <2>2
        <2>3. CASE /\ worker' = [worker EXCEPT ![w] = "init_test"]
                   /\ CallsInit(MessageOf(task[w]).body)
                   /\ UNCHANGED <<task, response, fate>>
            BY <1>9, <2>3, EntersInit
        <2> QED BY <1>9, <2>2, <2>3 DEF InvokeInit, CallsInit
    <1>10. ASSUME NEW w \in Workers, InitTest(w) PROVE IdentityInv'
        <2>1. worker[w] \in HasTask /\ UNCHANGED <<idVars, input>>
            BY <1>10 DEF InitTest, HasTask
        <2>2. CASE \E r : HandlerReturns(w, r)
            BY <1>7, <2>1, <2>2
        <2>3. CASE /\ ~AlreadyInitialized /\ worker' = [worker EXCEPT ![w] = "init_ids"]
                   /\ UNCHANGED <<task, response, fate>>
            BY <1>10, <2>3, EntersInit
        <2> QED BY <1>10, <2>2, <2>3 DEF InitTest
    <1>11. ASSUME NEW w \in Workers, InitIds(w) \/ InitSelf(w) PROVE IdentityInv'
        BY <1>11, InitIdsIdentity, InitSelfIdentity
    <1>12. ASSUME NEW w \in Workers, WriteNewline(w) PROVE IdentityInv'
        <2>1. /\ worker[w] = "endl" /\ worker' = [worker EXCEPT ![w] = "lock"]
              /\ task' = [task EXCEPT ![w] = 0]
              /\ fate' = [fate EXCEPT ![task[w]] = "answered"] /\ UNCHANGED <<idVars, input>>
            BY <1>12 DEF WriteNewline
        <2>2. /\ task[w] \in 1..Len(fate) /\ fate \in Seq(Fate) /\ DOMAIN input = 1..Len(fate)
            BY <2>1, MessageFacts DEF TaskInv, TypeOK, HasTask
        <2>3. \A n \in DOMAIN input : fate'[n] = fate[n] \/ fate'[n] \notin {"read", "accepted"}
            BY <2>1, <2>2, ExceptFacts DEF Fate
        <2>4. \A v \in Workers : worker'[v] \in InInit =>
                  worker[v] = worker'[v] /\ task'[v] = task[v]
            BY <2>1 DEF TaskInv, TypeOK, InInit
        <2> QED BY <2>1, <2>3, <2>4, FatesEnd, IdentityStays
    <1> QED
        BY <1>1, <1>2, <1>3, <1>4, <1>5, <1>6, <1>8, <1>9, <1>10, <1>11, <1>12
        DEF Next, MainStep, WorkerStep, Environment, ReadsInput, Terminated, DispatchAborts,
            TakeFromEmpty, InvokeAborts,
            EchoAborts, InitAborts, InitRace

\* The ids change only inside init(), before the node has an identity.
LEMMA IdentityKeptStep ==
    ASSUME TaskInv, IdentityInv, [Next]_vars, self_node_id.text # ""
    PROVE  UNCHANGED idVars
    <1> USE DEF mainVars, queueVars, idVars, outVars, historyVars, dataVars, processVars,
                handlerFrame
    <1>1. CASE UNCHANGED vars
        BY <1>1 DEF vars
    <1>2. CASE MainStep \/ Environment
        BY <1>2 DEF MainStep, Environment, SpawnWorker, StartRunning, TestRunning, Dispatch,
                    DispatchAborts, Crash, Enqueue, NotifyOne, NotifyAll, Join, Return,
                    ReadsInput, GetEmptyLine, GetLine, SpuriousWakeup, StopStore, StopNotify
    <1>3. ASSUME NEW w \in Workers, WorkerStep(w) PROVE UNCHANGED idVars
        <2>1. worker[w] \notin {"init_ids", "init_self"}
            BY DEF IdentityInv
        <2>2. ~InitIds(w) /\ ~InitSelf(w)
            BY <2>1 DEF InitIds, InitSelf
        <2> QED BY <1>3, <2>2 DEF WorkerStep, Lock, TestPredicate, Block, Exit, TakeTask,
                    TakeFromEmpty, InvokeEcho, InvokeGenerate, InvokeInit, InvokeAborts,
                    EchoAborts, InitAborts,
                    InitTest, InitRace, Crash, WritePayload, WriteNewline
    <1> QED BY <1>1, <1>2, <1>3 DEF Next, Terminated

\* One init at a time: the invariant of init().
THEOREM IdentityInvariant ==
    ASSUME InitsInFlight <= 1
    PROVE  Spec => []IdentityInv
    <1>1. Init => IdentityInv
        <2> SUFFICES ASSUME Init PROVE IdentityInv
            OBVIOUS
        <2>1. input = <<>> /\ \A w \in Workers : worker[w] = "unborn"
            BY DEF Init
        <2>2. DOMAIN input = {}
            BY <2>1
        <2>3. PendingInits = {}
            BY <2>2 DEF PendingInits
        <2> QED BY <2>1, <2>2, <2>3 DEF IdentityInv, InInit
    <1>2. TaskInv /\ IdentityInv /\ [Next]_vars => IdentityInv'
        BY IdentityStep
    <1> QED BY <1>1, <1>2, TaskInvariant, PTL DEF Spec

\* Where the senders of init wait for the answer, a node that has an
\* identity keeps it, however its workers interleave.
THEOREM IdentityIsKept ==
    ASSUME InitsInFlight <= 1
    PROVE  Spec => IdentityIsFinal
    <1>1. TaskInv /\ IdentityInv /\ [Next]_vars =>
              [self_node_id.text # "" => UNCHANGED idVars]_vars
        BY IdentityKeptStep
    <1> QED BY <1>1, TaskInvariant, IdentityInvariant, PTL DEF Spec, IdentityIsFinal

-----------------------------------------------------------------------------
(* Once the init request is confirmed *)

\* The requests whose answer confirms an identity.
Confirms(msg) == msg.type = "INIT_REQ" /\ HasNodeId(msg.body) /\ NodeId(msg.body) # ""

\* No init request names the node with an empty text.
NamesAreGiven ==
    \A line \in Lines :
        LET body == Parsing[line].value.body IN
        IsInit(line) /\ HasNodeId(body) => NodeId(body) # ""

\* A list of nodes is never kept without an identity, and a confirmation is
\* written, or about to be, only once there is one.
ConfirmInv ==
    /\ all_node_ids.ids # <<>> =>
          self_node_id.text # "" \/ \E w \in Workers : worker[w] = "init_self"
    /\ \A w \in Workers : worker[w] \in {"write", "endl"} /\ Confirms(MessageOf(task[w])) =>
          self_node_id.text # ""
    /\ InitConfirmed => self_node_id.text # ""

\* The least element of a set of numbers.
LEMMA MinFacts ==
    ASSUME NEW T, T \subseteq Nat, T # {}
    PROVE  Min(T) \in T
    <1> DEFINE R == OpToRel(<, Nat)
    <1>1. \A x, y \in Nat : <<x, y>> \in R <=> x < y
        BY DEF OpToRel
    <1>2. IsWellFoundedOn(R, Nat)
        BY NatLessThanWellFounded
    <1> HIDE DEF R
    <1>3. PICK x \in T : \A y \in T : ~ (<<y, x>> \in R)
        BY <1>2, WFMin
    <1>4. \A y \in T : x <= y
        <2> SUFFICES ASSUME NEW y \in T PROVE x <= y
            OBVIOUS
        <2>1. x \in Nat /\ y \in Nat /\ ~(y < x)
            BY <1>1, <1>3
        <2> QED BY <2>1
    <1> QED BY <1>4 DEF Min

\* The position handle_init() finds is that of the node's own id.
LEMMA SelfIndexFacts ==
    ASSUME NEW line \in Lines, IsInit(line), CallsInit(Parsing[line].value.body)
    PROVE  LET body == Parsing[line].value.body
           IN  NodeIds(body)[SelfIndex(body)] = NodeId(body)
    <1> DEFINE body == Parsing[line].value.body
               array == get(field(body, "node_ids"))
               ids == NodeIds(body)
               found == {i \in DOMAIN ids : ids[i] = NodeId(body)}
    <1>1. Len(array) \in Nat /\ DOMAIN array = 1..Len(array)
        BY ArrayAssumption DEF CallsInit
    <1>2. DOMAIN ids = 1..Len(array) /\ Len(ids) = Len(array)
        BY <1>1 DEF NodeIds
    <1>3. SelfIndex(body) <= Len(ids)
        BY DEF CallsInit
    <1>4. SelfIndex(body) = IF found = {} THEN Len(ids) + 1 ELSE Min(found)
        BY DEF SelfIndex
    <1> HIDE DEF ids, array, body
    <1>5. found # {} /\ found \subseteq Nat
        BY <1>1, <1>2, <1>3, <1>4
    <1>6. Min(found) \in found
        BY <1>5, MinFacts
    <1> QED BY <1>4, <1>5, <1>6 DEF ids, body

\* What a step has to keep.
LEMMA ConfirmStays ==
    ASSUME TaskInv, ReplyInv, ConfirmInv,
           self_node_id.text # "" => self_node_id'.text # "",
           all_node_ids'.ids # <<>> =>
              self_node_id'.text # "" \/ \E w \in Workers : worker'[w] = "init_self",
           \A w \in Workers : worker'[w] \in {"write", "endl"} =>
              \/ worker[w] \in {"write", "endl"} /\ task'[w] = task[w]
              \/ ~Confirms(MessageOf(task[w]))'
              \/ self_node_id'.text # "",
           \A n \in DOMAIN input : n \in DOMAIN input' /\ input'[n] = input[n],
           \A i \in DOMAIN stdout' : stdout'[i].part = "newline" =>
              \/ i \in DOMAIN stdout /\ stdout'[i] = stdout[i]
              \/ \E w \in Workers : worker[w] = "endl" /\ task[w] = stdout'[i].line
    PROVE  ConfirmInv'
    <1>1. \A n \in DOMAIN input : MessageOf(n)' = MessageOf(n)
        BY DEF MessageOf
    <1>2. \A w \in Workers : worker[w] \in {"write", "endl"} => task[w] \in DOMAIN input
        BY DEF TaskInv, LinesTracked, HasTask
    <1>3. (\A w \in Workers : worker[w] \in {"write", "endl"} /\ Confirms(MessageOf(task[w])) =>
              self_node_id.text # "")'
        <2> SUFFICES ASSUME NEW w \in Workers, worker[w] \in {"write", "endl"}, task'[w] = task[w],
                            Confirms(MessageOf(task[w]))'
                     PROVE  self_node_id'.text # ""
            OBVIOUS
        <2>1. Confirms(MessageOf(task[w]))
            BY <1>2 DEF MessageOf
        <2> QED BY <2>1 DEF ConfirmInv
    <1>4. (InitConfirmed => self_node_id.text # "")'
        <2> SUFFICES ASSUME InitConfirmed' PROVE self_node_id'.text # ""
            OBVIOUS
        <2>1. PICK i \in DOMAIN stdout' : stdout'[i].part = "newline"
                                          /\ Confirms(MessageOf(stdout[i].line))'
            BY DEF InitConfirmed, Confirms
        <2>2. CASE i \in DOMAIN stdout /\ stdout'[i] = stdout[i]
            <3>1. stdout[i].line \in DOMAIN input
                BY <2>2 DEF ReplyInv
            <3>2. stdout[i].part = "newline" /\ Confirms(MessageOf(stdout[i].line))
                BY <2>1, <2>2, <3>1 DEF MessageOf
            <3>3. InitConfirmed
                BY <2>2, <3>2 DEF InitConfirmed, Confirms
            <3> QED BY <3>3 DEF ConfirmInv
        <2>3. ASSUME NEW w \in Workers, worker[w] = "endl", task[w] = stdout'[i].line
              PROVE  self_node_id'.text # ""
            <3>1. Confirms(MessageOf(task[w]))
                BY <1>2, <2>1, <2>3 DEF MessageOf
            <3> QED BY <2>3, <3>1 DEF ConfirmInv
        <2> QED BY <2>1, <2>2, <2>3
    <1> QED BY <1>3, <1>4 DEF ConfirmInv

\* init() gives the node the name the request gives it.
LEMMA InitSelfNames ==
    ASSUME NamesAreGiven, TaskInv, IdentityInv, NEW w \in Workers, InitSelf(w)
    PROVE  self_node_id'.text # ""
    <1> DEFINE line == input[task[w]]
               body == Parsing[line].value.body
    <1>1. worker[w] = "init_self" /\ self_node_id' = ViewOf(SelfIndex(body))
        BY DEF InitSelf, MessageOf
    <1>2. /\ IsInit(line) /\ CallsInit(body) /\ all_node_ids.ids = NodeIds(body)
        BY <1>1 DEF IdentityInv, InInit, MessageOf
    <1>3. line \in Lines
        BY <1>1 DEF TaskInv, TypeOK, LinesTracked, HasTask
    <1>4. self_node_id'.text = NodeIds(body)[SelfIndex(body)]
        BY <1>1, <1>2 DEF ViewOf
    <1>5. self_node_id'.text = NodeId(body)
        BY <1>2, <1>3, <1>4, SelfIndexFacts
    <1> QED BY <1>2, <1>3, <1>5 DEF NamesAreGiven, CallsInit

\* One step per action.
LEMMA ConfirmStep ==
    ASSUME NamesAreGiven, TaskInv, ReplyInv, IdentityInv, ConfirmInv, [Next]_vars
    PROVE  ConfirmInv'
    <1> USE DEF mainVars, queueVars, idVars, outVars, historyVars, dataVars, processVars,
                handlerFrame
    <1>0. self_node_id.text # "" => self_node_id'.text # ""
        BY IdentityKeptStep
    <1>a. worker \in [Workers -> WorkerPc] /\ task \in [Workers -> Nat]
        BY DEF TaskInv, TypeOK
    <1>1. ASSUME UNCHANGED <<idVars, stdout>>,
                 \A w \in Workers :
                    \/ worker'[w] = worker[w] /\ task'[w] = task[w]
                    \/ {worker[w], worker'[w]} \cap {"write", "endl", "init_self"} = {},
                 \A n \in DOMAIN input : n \in DOMAIN input' /\ input'[n] = input[n]
          PROVE  ConfirmInv'
        BY <1>1, ConfirmStays DEF ConfirmInv
    <1>2. CASE UNCHANGED vars
        BY <1>1, <1>2 DEF vars
    <1>3. CASE Crash
        BY <1>1, <1>3 DEF Crash
    <1>4. CASE StartRunning \/ TestRunning \/ Dispatch \/ Enqueue \/ NotifyOne \/ NotifyAll
                \/ Join \/ Return \/ GetEmptyLine \/ StopStore \/ StopNotify
        <2>1. UNCHANGED <<idVars, stdout, task, input>>
            BY <1>4 DEF StartRunning, TestRunning, Dispatch, Enqueue, NotifyOne, NotifyAll, Join,
                        Return, GetEmptyLine, StopStore, StopNotify
        <2>2. \/ worker' = worker \/ worker' = WakeAll
              \/ \E w \in Waiting : worker' = [worker EXCEPT ![w] = "lock"]
            BY <1>4 DEF StartRunning, TestRunning, Dispatch, Enqueue, NotifyOne, NotifyAll, Join,
                        Return, GetEmptyLine, StopStore, StopNotify
        <2>3. \A w \in Workers :
                  \/ worker'[w] = worker[w]
                  \/ {worker[w], worker'[w]} \cap {"write", "endl", "init_self"} = {}
            BY <1>a, <2>2 DEF WakeAll, Waiting
        <2> QED BY <1>1, <2>1, <2>3
    <1>5. ASSUME NEW line \in Lines, GetLine(line) PROVE ConfirmInv'
        <2>1. UNCHANGED <<idVars, stdout, task, worker>>
            BY <1>5 DEF GetLine
        <2>2. \A n \in DOMAIN input : n \in DOMAIN input' /\ input'[n] = input[n]
            BY <1>5, AppendFacts DEF GetLine, TaskInv, TypeOK
        <2> QED BY <1>1, <2>1, <2>2
    <1>6. ASSUME NEW w \in Workers,
                 \/ SpawnWorker(w) \/ SpuriousWakeup(w) \/ Lock(w) \/ TestPredicate(w)
                 \/ Block(w) \/ Exit(w) \/ TakeTask(w)
          PROVE  ConfirmInv'
        <2>1. UNCHANGED <<idVars, stdout, input>>
            BY <1>6 DEF SpawnWorker, SpuriousWakeup, Lock, TestPredicate, Block, Exit, TakeTask
        <2>2. \E pc \in WorkerPc \ {"write", "endl", "init_self"} :
                 worker' = [worker EXCEPT ![w] = pc]
            BY <1>6 DEF SpawnWorker, SpuriousWakeup, Lock, TestPredicate, Block, Exit, TakeTask,
                        WorkerPc
        <2>3. worker[w] \notin {"write", "endl", "init_self"}
            BY <1>6 DEF SpawnWorker, SpuriousWakeup, Lock, TestPredicate, Block, Exit, TakeTask
        <2>4. UNCHANGED task \/ \E n : task' = [task EXCEPT ![w] = n]
            BY <1>6 DEF SpawnWorker, SpuriousWakeup, Lock, TestPredicate, Block, Exit, TakeTask
        <2>5. \A v \in Workers :
                  \/ worker'[v] = worker[v] /\ task'[v] = task[v]
                  \/ {worker[v], worker'[v]} \cap {"write", "endl", "init_self"} = {}
            <3> SUFFICES ASSUME NEW v \in Workers, v # w
                         PROVE  worker'[v] = worker[v] /\ task'[v] = task[v]
                BY <1>a, <2>2, <2>3
            <3> QED BY <1>a, <2>2, <2>4
        <2> QED BY <1>1, <2>1, <2>5
    <1>7. ASSUME NEW w \in Workers, worker[w] \in {"invoke", "init_test"}, NEW r,
                 HandlerReturns(w, r), UNCHANGED <<idVars, stdout, input>>,
                 \/ r.type = "INVALID"
                 \/ ~Confirms(MessageOf(task[w]))
                 \/ self_node_id.text # ""
          PROVE  ConfirmInv'
        <2>1. /\ \A v \in Workers : v # w => worker'[v] = worker[v] /\ task'[v] = task[v]
              /\ worker'[w] \in {"write", "lock"}
              /\ worker'[w] = "write" => r.type # "INVALID" /\ task'[w] = task[w]
            BY <1>7, <1>a DEF HandlerReturns
        <2>2. \A v \in Workers : worker'[v] \in {"write", "endl"} =>
                 \/ worker[v] \in {"write", "endl"} /\ task'[v] = task[v]
                 \/ ~Confirms(MessageOf(task[v]))'
                 \/ self_node_id'.text # ""
            BY <1>7, <2>1 DEF MessageOf
        <2>3. \A v \in Workers : worker[v] = "init_self" => worker'[v] = "init_self"
            BY <1>7, <2>1
        <2> QED BY <1>7, <2>2, <2>3, ConfirmStays DEF ConfirmInv
    <1>8. ASSUME NEW w \in Workers, InvokeEcho(w) \/ InvokeGenerate(w) PROVE ConfirmInv'
        <2>1. /\ worker[w] = "invoke" /\ UNCHANGED <<idVars, stdout, input>>
              /\ HandlerOf(task[w]) # "handle_init"
              /\ \E r : HandlerReturns(w, r)
            BY <1>8 DEF InvokeEcho, InvokeGenerate
        <2>2. ~Confirms(MessageOf(task[w]))
            BY <2>1, TaskHandlers DEF Confirms, HasTask
        <2> QED BY <1>7, <2>1, <2>2
    <1>9. ASSUME NEW w \in Workers, InvokeInit(w) PROVE ConfirmInv'
        <2>1. worker[w] = "invoke" /\ UNCHANGED <<idVars, stdout, input>>
            BY <1>9 DEF InvokeInit
        <2>2. CASE ~HasNodeId(MessageOf(task[w]).body) /\ \E r : HandlerReturns(w, r)
            BY <1>7, <2>1, <2>2 DEF Confirms
        <2>3. CASE HandlerReturns(w, NoMessage)
            <3>1. NoMessage.type = "INVALID"
                BY DEF NoMessage
            <3> QED BY <1>7, <2>1, <2>3, <3>1
        <2>4. CASE worker' = [worker EXCEPT ![w] = "init_test"] /\ UNCHANGED task
            BY <1>1, <1>a, <2>1, <2>4
        <2> QED BY <1>9, <2>2, <2>3, <2>4 DEF InvokeInit
    <1>10. ASSUME NEW w \in Workers, InitTest(w) PROVE ConfirmInv'
        <2>1. worker[w] = "init_test" /\ UNCHANGED <<idVars, stdout, input>>
            BY <1>10 DEF InitTest
        <2>2. CASE AlreadyInitialized /\ \E r : HandlerReturns(w, r)
            <3>1. \A v \in Workers : worker[v] # "init_self"
                BY <2>1, OneInit DEF InInit, HasTask, IdentityInv
            <3>2. self_node_id.text # ""
                BY <2>2, <3>1 DEF AlreadyInitialized, ConfirmInv
            <3> QED BY <1>7, <2>1, <2>2, <3>2
        <2>3. CASE worker' = [worker EXCEPT ![w] = "init_ids"] /\ UNCHANGED task
            BY <1>1, <1>a, <2>1, <2>3
        <2> QED BY <1>10, <2>2, <2>3 DEF InitTest
    <1>11. ASSUME NEW w \in Workers, InitIds(w) PROVE ConfirmInv'
        <2>1. /\ worker' = [worker EXCEPT ![w] = "init_self"]
              /\ UNCHANGED <<self_node_id, stdout, input, task>>
            BY <1>11 DEF InitIds
        <2>2. worker'[w] = "init_self" /\ \A v \in Workers \ {w} : worker'[v] = worker[v]
            BY <1>a, <2>1
        <2> QED BY <2>1, <2>2, ConfirmStays
    <1>12. ASSUME NEW w \in Workers, InitSelf(w) PROVE ConfirmInv'
        <2>1. self_node_id'.text # ""
            BY <1>12, InitSelfNames
        <2>2. UNCHANGED <<stdout, input>>
            BY <1>12 DEF InitSelf
        <2> QED BY <2>1, <2>2, ConfirmStays
    <1>13. ASSUME NEW w \in Workers, WritePayload(w) PROVE ConfirmInv'
        <2>1. /\ worker[w] = "write" /\ worker' = [worker EXCEPT ![w] = "endl"]
              /\ stdout' = Append(stdout, Payload(w))
              /\ UNCHANGED <<idVars, input, task>>
            BY <1>13 DEF WritePayload
        <2>2. Payload(w) \in Written /\ Payload(w).part = "payload" /\ stdout \in Seq(Written)
            BY DEF Payload, Written, TaskInv, TypeOK
        <2>3. \A i \in DOMAIN stdout' : stdout'[i].part = "newline" =>
                 i \in DOMAIN stdout /\ stdout'[i] = stdout[i]
            BY <2>1, <2>2, AppendFacts
        <2>4. \A v \in Workers : worker'[v] = (IF v = w THEN "endl" ELSE worker[v])
            BY <1>a, <2>1
        <2> QED BY <2>1, <2>3, <2>4, ConfirmStays DEF ConfirmInv
    <1>14. ASSUME NEW w \in Workers, WriteNewline(w) PROVE ConfirmInv'
        <2>1. /\ worker[w] = "endl" /\ worker' = [worker EXCEPT ![w] = "lock"]
              /\ stdout' = Append(stdout, Newline(w)) /\ task' = [task EXCEPT ![w] = 0]
              /\ UNCHANGED <<idVars, input>>
            BY <1>14 DEF WriteNewline
        <2>2. /\ Newline(w) \in Written /\ Newline(w).line = task[w] /\ stdout \in Seq(Written)
            BY DEF Newline, Written, TaskInv, TypeOK
        <2>3. \A i \in DOMAIN stdout' :
                 \/ i \in DOMAIN stdout /\ stdout'[i] = stdout[i]
                 \/ worker[w] = "endl" /\ task[w] = stdout'[i].line
            BY <2>1, <2>2, AppendFacts
        <2>4. \A v \in Workers : /\ v # w => worker'[v] = worker[v] /\ task'[v] = task[v]
                                 /\ worker'[w] = "lock"
            BY <1>a, <2>1
        <2> QED BY <2>1, <2>3, <2>4, ConfirmStays DEF ConfirmInv
    <1> QED
        BY <1>2, <1>3, <1>4, <1>5, <1>6, <1>8, <1>9, <1>10, <1>11, <1>12, <1>13, <1>14
        DEF Next, MainStep, WorkerStep, Environment, ReadsInput, Terminated, DispatchAborts,
            TakeFromEmpty, InvokeAborts,
            EchoAborts, InitAborts, InitRace

Initialized == self_node_id.text # ""

\* dispatch_message() ignores a line only while the node has no identity.
LEMMA IgnoredStep ==
    ASSUME TaskInv, [Next]_vars, Initialized
    PROVE  \A n \in DOMAIN fate' : fate'[n] = "ignored" => n \in DOMAIN fate /\ fate[n] = "ignored"
    <1> DEFINE Old == \A n \in DOMAIN fate' :
                         fate'[n] = "ignored" => n \in DOMAIN fate /\ fate[n] = "ignored"
    <1> USE DEF mainVars, queueVars, idVars, outVars, historyVars, dataVars, processVars,
                handlerFrame
    <1>0. fate \in Seq(Fate) /\ Len(fate) = Len(input)
        BY DEF TaskInv, TypeOK
    <1>1. fate \in Seq(Fate) /\ DOMAIN fate = 1..Len(fate)
        BY <1>0
    <1>2. CASE UNCHANGED fate
        BY <1>2
    <1>3. ASSUME NEW k \in 1..Len(fate), NEW f \in Fate, f # "ignored",
                 fate' = [fate EXCEPT ![k] = f]
          PROVE  Old
        BY <1>1, <1>3, ExceptFacts
    <1>4. CASE Dispatch
        <2> DEFINE d == Disposition(Parsing[input[Len(input)]])
        <2>1. d \in Fate /\ d # "ignored"
            BY DEF Disposition, Fate, Initialized
        <2>2. Len(input) \in 1..Len(fate)
            <3>1. Len(input) > 0
                BY <1>4 DEF Dispatch, TaskInv, LinesTracked
            <3>2. Len(fate) \in Nat
                BY <1>0
            <3> QED BY <1>0, <3>1, <3>2
        <2>3. fate' = [fate EXCEPT ![Len(input)] = d]
            BY <1>4 DEF Dispatch
        <2> HIDE DEF d
        <2> QED BY <1>3, <2>1, <2>2, <2>3
    <1>5. ASSUME NEW line \in Lines, GetLine(line)
          PROVE  Old
        <2>1. fate' = Append(fate, "read") /\ "read" \in Fate
            BY <1>5 DEF GetLine, Fate
        <2>2. /\ Len(fate) \in Nat /\ DOMAIN fate' = 1..(Len(fate) + 1)
              /\ \A i \in 1..Len(fate) : fate'[i] = fate[i]
              /\ fate'[Len(fate) + 1] = "read"
            BY <1>0, <2>1, AppendFacts
        <2> QED BY <1>1, <2>2
    <1>6. ASSUME NEW w \in Workers, worker[w] \in HasTask,
                 fate' = [fate EXCEPT ![task[w]] = "silent"]
                 \/ fate' = [fate EXCEPT ![task[w]] = "answered"]
          PROVE  Old
        <2>1. task[w] \in 1..Len(fate)
            BY <1>6, MessageFacts DEF TaskInv
        <2> QED BY <1>3, <1>6, <2>1 DEF Fate
    <1>7. ASSUME NEW w \in Workers, WorkerStep(w)
          PROVE  Old
        <2>1. \/ UNCHANGED fate
              \/ /\ worker[w] \in HasTask
                 /\ \/ fate' = [fate EXCEPT ![task[w]] = "silent"]
                    \/ fate' = [fate EXCEPT ![task[w]] = "answered"]
            BY <1>7 DEF WorkerStep, Lock, TestPredicate, Block, Exit, TakeTask, TakeFromEmpty,
                        InvokeEcho, InvokeGenerate, InvokeInit, InvokeAborts,
                    EchoAborts, InitAborts, InitTest, InitIds,
                        InitSelf, InitRace, Crash, WritePayload, WriteNewline, HandlerReturns,
                        HasTask
        <2> QED BY <1>2, <1>6, <2>1
    <1>8. CASE MainStep \/ Environment
        <2>1. UNCHANGED fate \/ Dispatch \/ \E line \in Lines : GetLine(line)
            BY <1>8 DEF MainStep, Environment, SpawnWorker, StartRunning, TestRunning,
                        DispatchAborts, Crash, Enqueue, NotifyOne, NotifyAll, Join, Return,
                        ReadsInput, GetEmptyLine, SpuriousWakeup, StopStore, StopNotify
        <2> QED BY <1>2, <1>4, <1>5, <2>1
    <1>9. CASE UNCHANGED vars
        BY <1>2, <1>9 DEF vars
    <1> QED BY <1>7, <1>8, <1>9 DEF Next, Terminated

\* Where the senders of init wait for the answer and name the node, no
\* request that comes after an init_ok is ignored as coming "before node has
\* been initialized".
THEOREM ConfirmedNodesListen ==
    ASSUME InitsInFlight <= 1, NamesAreGiven
    PROVE  Spec => NothingIgnoredAfterInitOk
    <1>1. Init => ConfirmInv
        <2> SUFFICES ASSUME Init PROVE ConfirmInv
            OBVIOUS
        <2>1. /\ stdout = <<>> /\ all_node_ids.ids = <<>>
              /\ \A w \in Workers : worker[w] = "unborn"
            BY DEF Init
        <2>2. DOMAIN stdout = {}
            BY <2>1
        <2> QED BY <2>1, <2>2 DEF ConfirmInv, InitConfirmed
    <1>2. TaskInv /\ ReplyInv /\ IdentityInv /\ ConfirmInv /\ [Next]_vars => ConfirmInv'
        BY ConfirmStep
    <1>3. TaskInv /\ ConfirmInv /\ [Next]_vars =>
              [InitConfirmed => \A n \in DOMAIN fate' :
                  fate'[n] = "ignored" => n \in DOMAIN fate /\ fate[n] = "ignored"]_vars
        BY IgnoredStep DEF ConfirmInv, Initialized
    <1> QED BY <1>1, <1>2, <1>3, TaskInvariant, ReplyInvariant, IdentityInvariant, PTL
            DEF Spec, NothingIgnoredAfterInitOk
==============================================================================
