# A TLA+ development of maelstrom-cpp

maelstrom-cpp is a node for the Maelstrom workloads: a process that reads JSON
messages from stdin, one per line, handles `init`, `echo` and `generate`
requests in a pool of threads and writes JSON responses to stdout.  These
modules model it from the source at this commit; TLC checks them on small
instances and TLAPS proves the main safety properties for every number of
workers and every set of input lines.  The JSON library that the program is
built on (`ext/nlohmann/json.hpp`, one header of 25 000 lines, by far the
largest part of the sources) and the C++ demo node have modules of their own.

Paths below are relative to the repository (`src/common/node.cpp`).

## 1. Inventory

| Part | State | Operations | Module |
|---|---|---|---|
| Node (`common/node.*`) | `state` (atomic), `task_queue` under `mutex_thread_tasks` and `queue_condition`, `self_node_id` (a `string_view`), `all_node_ids`, `handler_map`, stdout under `mutex_write_response` | `run`, `dispatch_message`, `worker_loop`, `handle_init`, `init`, `stop`, `register_handler` | `Node` |
| main (`main.cpp`) | none of its own | two handlers: echo, generate | `Node` |
| Message (`common/message.*`) | immutable once built | `parse`, `from_json`, constructors, `create_response`, `as_json` | `Message`, `Exchange` |
| Snowflake (`common/snowflake.*`) | two 64-bit words | `generate`, `generate_64`, `from_json`, `as_json`, `is_valid` | `Snowflake` |
| Base64 (`common/encoding/*`) | none | encode and decode, standard and url | `Base64` |
| Result, Error (`common/monad/result.h`) | a tag, and a union whose members are constructed and destroyed by hand | constructors, copy- and move-assignment, `ERROR_PROPAGATE`, `expect`, destructor | `Result` |
| Option, `monad/error.h`, `common/error.*` | none | none that is called | none |
| JSON lexer | one character of lookahead, a position, the token's buffer | `scan` | `JsonLexer` |
| JSON parser and SAX consumers | a stack of bits; the builder's stack of pointers into the growing value | `parse`, `accept`, `sax_parse`, with and without a callback | `JsonParser`, `JsonDom` |
| JSON serializer | a string buffer, a UTF-8 state, an indentation string | `dump` | `JsonSerializer` |
| JSON binary formats | the position in the input; the stack of calls | `to_` and `from_` `cbor`, `msgpack`, `ubjson`, `bjdata`, `bson` | `BinaryWriter`, `UbjsonWriter`, `BsonWriter`, `BinaryReader`, `UbjsonReader`, `BsonReader` |
| JSON pointer and patch | the document that is edited in place | pointer parsing, `contains`, `at`, `operator[]`, `flatten`, `unflatten`, `patch_inplace`, `diff`, `merge_patch` | `JsonPointer`, `JsonPatch` |
| C++ demo (`demo/c++`) | handlers, node id, the request on main's stack, a thread per request | `run`, `handleMessage`, `_init`, `handle` | `DemoNode` |
| demos in other languages (`demo/`) | examples, not built here | | none |

**How they interact.**  The main thread parses a line (`Message` → `Snowflake`
→ `Base64`), drops it if it does not parse, if the node has no identity yet and
it is not an init, or if no handler is registered, and otherwise enqueues a
task and notifies one worker.  A worker takes the front of the queue, runs the
handler and writes the response.  `handle_init` runs in a worker too and writes
`all_node_ids` and `self_node_id`, which the main thread reads without a lock.
An empty line, which is also what `getline` leaves at the end of the input,
makes the main thread store SHUTDOWN, notify all workers and join them.
`stop()` is public and can be called from any thread; nothing in the repository
calls it.  The build uses `-fno-exceptions`, so a library call that would throw
aborts the process.  `Message::parse` calls the JSON parser without a callback
and with `allow_exceptions = false`, one of the calls of the run `json_parser`; `as_json`
is written by `dump` without indentation and with the strict error handler.
The demo is a second, smaller node: it reads lines in the same way, but waits
for the handler's thread before the next line, because the future that
`std::async` returns is a temporary.

**What is hard.**  The shutdown writes `state` without the mutex that the
workers' predicate is evaluated under; the identity is tested and written
without any lock; `self_node_id` is a view into a string that a vector owns;
16 threads share stdout; ids go through three JSON forms and two codecs that
are not declared as a pair; the decoder writes one position past the decoded
bytes on purpose.  In the library: the builder keeps raw pointers into vectors
that grow; the lexer ungets characters and must keep its position; UTF-8 is
decided by tables in three places; every size class of five binary formats has
its own limits; the serializer checks its buffer's space once per code point; a
patch changes the document under the indices of its later operations.  `PROJECT.json` lists these as hazards, each at its line.

**What correctness means**, per part:

- queue and pool: no accepted request is lost, doubled or overtaken; no pop of
  an empty queue; a clean shutdown leaves nothing unhandled; every accepted
  request is eventually handled; the shutdown ends;
- identity: set once, its view never dangles, and a request sent after
  `init_ok` is not ignored;
- output: whole lines, at most one response per request, addressed and
  numbered for that request;
- ids: a client gets its own `msg_id` back, a number that is not negative in the
  form in which it was sent, and never another one (negative numbers excepted:
  finding 13);
- codec: it computes the bits it should, stays in its buffer, and inverts;
- JSON text: exactly the texts of the grammar are accepted, the value is the one
  the text denotes, nothing of a failed parse is handed out, and what `dump`
  writes reads back as the value;
- binary formats: what is written reads back, also on a machine of the other
  endianness, and no truncated input is accepted;
- pointer and patch: an access changes nothing but what it must make, the
  patch that `diff` computes does turn one document into the other;
- demo: replies in the order of the requests, each request answered;
- Result: each member destroyed as often as constructed, and the route of an
  error told completely, in its order.

## 2. Modules

```
Base64 <- Snowflake <- Message <- Node     <- MCNode
   ^                      ^        ^  \
   |                      |        |   INSTANCE RequestService
   |                      |        NodeProofs
Base64Inputs           Exchange <- MCExchange
   ^       ^              ^
MCBase64   Base64Proof <- ExchangeProof

JsonDom <- JsonParser <- JsonParserProof    JsonLexer <- JsonLexerProof
JsonSerializer <- JsonSerializerProof       DemoNode <- DemoNodeProof    Result <- ResultProof
```

- **Base64.**  Characters and bytes are numbers.  The loop of each
  function is a recursive function that gives the source's variables (`carry`,
  `carry_bits`, `out_idx`, ...) after n iterations (`EncodeStep` and `DecodeStep`
  are the iterations); the decoder's output has one more cell, the string's
  terminator.  The url functions differ in their tables.
  `Base64Inputs` is the machine of the two calls that ids go through: one step
  per iteration of `encode_base64url` (`EncodeByte`), its trailing loop and the
  call of `decode_base64` (`DecodeEncoded`), one step per iteration of that
  (`DecodeChar`) and its last shift (`DecodeReturn`); or `decode_base64` of any
  text (`DecodeGiven`).  `Base64` also holds the reference definition, which has no
  loop (byte j of the result is made of the bits 8j to 8j + 7 of the characters'
  sextets), and `DecodeIsBitSlicing` relates the machine, the operators that
  `Snowflake` uses and the reference.
- **Snowflake.**  A pair of words of `WordBytes` bytes (8 in the code).  A JSON
  value is a pair of nlohmann's type tag and a value.  A generated id is
  a function of a seed (`mt19937_64[seed]`), as in the code, where a new engine
  is seeded by `random_device` on every call.  A number becomes a word modulo
  256^WordBytes (`Power256`), and a word its bytes by successive division.  `Some`, `NullOpt` and `Aborted` are the outcomes of a
  conversion: an array of two strings as id aborts.
- **Message.**  `parse`, `from_json`, the constructors, `create_response` and
  `as_json`.  Parsing JSON text is left to the modules of the library: a line *is*
  its parsed value, or `Discarded`.
- **Node.**  Program counters for the main thread (`main`) and for each worker
  (`worker`), the shared variables under their source names, and two histories,
  `input` (lines read) and `fate` (what became of each).  One action is a
  stretch of code of one thread that no other thread can see half done.  The
  points that matter are separate actions: evaluating the predicate
  (`TestPredicate`) and blocking (`Block`), storing SHUTDOWN and notifying,
  `InitTest` / `InitIds` / `InitSelf`, the enqueueing and `NotifyOne`, payload
  and newline.  Undefined behaviour and aborts end in `Crash`: of the parser
  (`DispatchAborts`), of main's echo handler (`EchoAborts`), of `handle_init`
  (`InitAborts`), of a pop of an empty queue (`TakeFromEmpty`).
- **RequestService.**  The abstract specification: requests are accepted while
  the service is open, finished once, in any order, and it closes with none
  pending.  `Node` maps `pending` to the lines with fate "accepted", `done` to
  "silent" and "answered", and `phase` to the main thread's place.
- **Exchange.**  One request and its response between two programs built from
  `Message`: the composition of the parser, the id conversions and the codec.
  `NoFalseCorrelation` does not compare ids by the code's own conversion, which would
  hide what it loses: `IdMeant` is what a JSON id denotes, by the reference of the
  codec for texts and as the number itself for numbers.

- **JsonDom, JsonParser, JsonGrammar.**  A step of `JsonParser` is the code
  between two calls of `get_token`; the token is chosen when it is read, so every
  text is a behaviour.  `JsonDom` models memory: a cell is the storage of a
  `basic_json`, and `emplace_back` moves the elements of an array to new cells and frees
  the old ones every time, the worst that the standard permits.  `JsonGrammar` is the reference, a recursive
  descent over the finished tokens.
- **JsonLexer, JsonTokens, Utf8.**  The lexer takes one step per `get()`; labels
  and loops of the code are values of `pc`.  `JsonTokens` defines the tokens of a
  text by RFC 8259, `Utf8` encodes code points by arithmetic.  `Emit` returns a token;
  after an error, or an end that it did not expect, a parser that is strict and does
  not throw calls `scan` once more (`parser` is then "ending").
- **JsonSerializer, JsonReread.**  `dump` as a machine over what is still to be
  written, with a frame for each container's loop; `dump_escaped` takes a byte per
  step through the buffer.  `JsonReread` reads the text back by definition.
- **Ieee754, BinaryData** are the values: 64-bit integers as eight bytes, floating
  point as sign, bits and scale.  **BinaryWriter, UbjsonWriter, BsonWriter** are
  operators, **BinaryReader, UbjsonReader, BsonReader** a machine whose stack holds
  the open containers, and **BinaryFormats** composes them: read, write in any way,
  read again.  A writer that throws writes nothing (`WriteAllows`).  The dimensions
  and elements of an annotated array are numbers there; the code reads the union
  of any other value as if it were one.
- **JsonPointer, JsonPatch.**  Pointers as sequences of tokens; `patch_inplace` and
  `unflatten` step by step, the other functions as one step each.
- **DemoNode.**  The main thread's `pc`, the handler's thread and stdout.  The
  destructor of the future is an action (`Joined`).
- **Result.**  Objects with a tag, a count of constructions minus destructions for
  each member of the union, the content, and, as history, what was put in and which
  errors were lengthened: `ERROR_PROPAGATE` adds its location to the Error of the
  source object, which goes on living, and copies it from there.

The references (`JsonGrammar`, `JsonTokens`, `JsonReread`, `Utf8`), the binary formats,
`JsonPointer` and `JsonPatch` use `RECURSIVE` operators, on values that nest, and are
used by TLC only.

In `Node`, `Json` values, the wording of logs and the interleaving of log output are
abstracted; nothing in the program depends on them.

## 3. Runs

| Run | Instance | Question |
|---|---|---|
| `workload` | 2 workers, 3 lines of two inits and an echo, inits one at a time, a spurious wakeup, fair | types, clean shutdown, safe pops, a final identity, nothing ignored after `init_ok`, refinement of `RequestService`; every accepted request is handled; the join ends if no worker missed the notification |
| `stop` | 2 workers, 2 of twelve lines (malformed, foreign, aborting, replies, incomplete inits, echo, generate), two inits at a time, a spurious wakeup, `stop()` at any time | accounting of tasks, whole lines, replies that match their requests; only `stop()` leaves requests unhandled |
| `shutdown_hangs` | 2 workers, 1 line, fair | **violation**: a fair execution in which `run()` never returns |
| `codec` | all inputs of up to 5 of 7 bytes, a step per iteration | the decoders against their reference, the round trip of ids, no misreading of the other alphabet, the string's terminator |
| `exchange_ids` | every kind of `msg_id` in every type, 2-byte words | responses parse, name the request's id, and no other but for negative numbers |
| `json_parser` | all sequences of up to 7 tokens, objects of two members in 9, an object in the first of two members in 14, every call, all answers of a callback | the grammar; the value, or what the callback kept, and never half of it; no dangling pointer; the call returns |
| `json_lexer` | four shapes of text: blanks, comments and structure (6 bytes), numerals (6), the ends of UTF-8's ranges (5 in a string), pairs of escapes | the tokens are those of the text; the position follows each get and unget, and no loop runs past the end, which is met three times at most |
| `json_serializer` | strings of the ends of UTF-8's ranges, strings that fill a buffer of 20 bytes, numbers at their limits, nested values, every handler and layout | what is dumped reads back, only invalid UTF-8 is refused, no write leaves the buffer |
| `binary_formats` | values at both sides of every limit and all their prefixes; annotated arrays whose elements fit their type or do not; a little-endian writer and a big-endian reader; short texts over the markers; half-precision numbers; the reader's `strict` and `tag_handler` | round trip, exact BSON sizes, truncation refused, half precision |
| `json_patch` | pairs of documents, operations on them, all pointer texts of up to 5 characters, arrays of up to 12 elements, merge patches | diff is right; operations are undone by their inverses; `contains` agrees with `at`; access only adds; `unflatten` restores; merge as meant |
| `demo_echo` | 3 lines of 12 kinds, or an init and 3 more, fair | replies in order, each its request's; every request answered |
| `result_lifetimes` | 3 objects, errors over 3 locations | members live and die in pairs, contents and routes are kept |

Each property has a mutant of the code that breaks it (`PROJECT.json`, "mutants").

**Bounds.**  `worker_count` is 16 in `main.cpp`; the races involve two workers
and the main thread, and a spurious wakeup stands for the third worker that is
woken for nothing.  Three lines are the least with which an init is
answered and two requests are then in progress or one queued behind the other;
`stop`, with twelve kinds of line and one more thread, has two.  TLAPS removes
the bounds for the properties it proves.  `MaxSpurious` counts the times the
condition variable wakes a thread without reason.  `InitsInFlight` bounds the
init requests read and not yet finished: 1 is a client that waits for its
`init_ok`, as Maelstrom does; 2 lets two race.  Words have one byte
in the node runs, which do not depend on ids, and two in `exchange_ids`, so that
byte order and the split into two words matter.  The bytes of `codec` produce
the sextets 0, 62 and 63 at every offset, and lengths 0 to 5 cover every
remainder for both loops.  The seeds give ids with zero words.

In the runs of the library the bounds are lengths.  Seven tokens hold every nesting
of two containers with siblings and every error in them (`[{"a":[]}]` has eight).
What they do not hold is an object of two members, nine tokens, with which the
answers that the callback gave for keys are matched with the members (`key_keep_stack`):
`Members` has these, with two keys or one key twice, and `Nested` an object inside the
first of two members.  Six bytes hold the longest escape and the longest UTF-8
sequence with a neighbour.  The integer types of lexer and serializer are constants
(four bits and 21 bits) so that they overflow within the bound; the binary formats keep
the real 64 bits, because there the limits are the subject.  The buffer of the
serializer has 20 bytes for 512, and its indentation string 3 for 512; the runs keep
the indentation step within what one doubling of the string provides (with a
larger step the code would read past it: `WriteIndent` models the stray bytes).
`IntMax` is 7 in the demo, for 2^31-1.  `MaxHops` bounds the locations of an error.

**Deadlock.**  It is not checked in the node runs, because the program really
can come to rest: in the lost notification of `shutdown_hangs`, and the runs
that pass would otherwise all stop there.  The termination that does hold is
stated as `JoinCompletes`.  The other specifications are calls that end, with
their termination stated where the code has a loop that could go on (`CallReturns`,
`AnswersAll`, and the bound on what is read past the end in `PositionIsExact`).

**Fairness.**  `FairSpec` has weak fairness for the main thread, for each
worker and for the second half of a `stop()` that has begun: the operating
system runs every thread that can run, including one that waits for a mutex
which is free.  Nothing is assumed of the input, of spurious wakeups or of the
call of `stop()`.  Weak fairness is enough although mutexes are contended:
a busy worker blocks or leaves in the end, since input is bounded; that the
mutex is passed on under unbounded load is not claimed.  `DemoNode` has weak
fairness for the main thread and for the thread that `std::async` starts.  The
parser's and the lexer's loops run in one thread, which is assumed to go on.

## 4. Findings

1. **The shutdown can hang** (`shutdown_hangs`, node.cpp:44).  A worker
   evaluates its predicate under the lock and finds it false; the main thread
   stores SHUTDOWN and notifies, without the lock; the worker then blocks.
   Nobody notifies again and `join` waits forever.

The following were met while modelling.  They have no run of their own; the
properties of the passing runs are stated so that they leave them out, and the
modules keep the behaviour.

2. **Two inits race** (node.cpp:21).  Both pass the test of
   `init`; the second replaces the vector into which `self_node_id` points.  In
   the same race an init is answered `init_ok` by a worker that saw the other's
   vector and not yet its id, while the node still ignores requests.  A client
   that waits for its answer does not meet it (`IdentityIsFinal` in `workload`,
   where `InitsInFlight` is 1; with 2 it is violated).
3. **`stop()` strands a request** (node.cpp:68).  The workers
   leave; the main thread, in `getline`, still accepts one line.  `stop()`
   before `state = RUNNING` (node.cpp:38) is worse: the store is overwritten,
   and a worker that saw SHUTDOWN in the predicate and RUNNING in the test
   after it pops an empty queue.  That is why `CleanShutdown` and `PopsAreSafe`
   are not properties of the run `stop`.
4. **Standard base64 does not invert** (base64.cpp:15): the decoder's table is
   the url alphabet, the encoder mixes both tables and pads with `size % 3`
   characters `=`.  The ids do not use this pair.
5. **The reply id is read under another key** (message.cpp:84): `is_reply_to`
   for `in_reply_to`.
6. **Rejected members stay** (json.hpp:9539).  When the callback
   rejects a member's value, the discarded value that `key()` stored is not removed.
   `BuildsTheValue` compares values without such members.
7. **Column after an ungot newline** (json.hpp:8453): 0, not the length of the line.
8. **A truncated BSON string fails silently** (json.hpp:10056):
   the read returns false, no `parse_error` was reported, and a discarded value is
   returned where an exception was asked for.
9. **CBOR integers below -2^63** (json.hpp:10358) become nonnegative, and **the
   count 2^64-1** (json.hpp:10481) is the code's mark for an indefinite array.
10. **Indentation** (json.hpp:19014): the grown string is filled
    with spaces whatever the character is.
11. **Patch and pointer**: an add below a primitive value reaches an assertion
    (json.hpp:24956), 2^64-1 equals -1 (json.hpp:23772), `contains` throws for
    an empty token (json.hpp:15205), and an object with the keys "0" and "a"
    cannot be unflattened (json.hpp:14866).
12. **The demo narrows ids** (maelstrom.cpp:22) from 64 bits to `int`.
13. **Ids change their form, negative ones their value** (snowflake.cpp:136, 172).  A
    negative `msg_id` is converted to an unsigned word and comes back as that: -1 is
    answered under 2^64-1, which the client never sent.  `NoFalseCorrelation` names
    this exception.  A text whose second word is zero comes back as a number, and a
    text in another encoding as the canonical one; they denote the same id.
14. **A second propagation shows the first** (result.h:38, 50).  `as_err()` returns
    the Error of the object and `expand` appends to it, so the locations of an error
    that is propagated twice from one object are in the second copy too, though it did
    not pass there.  `HoldsWhatWasPut` says when.
15. **`contains` with a pointer** (json.hpp:15153) is documented to throw parse_error
    106 and 109 for an array index that begins with "0" or is no number; the code
    (json.hpp:15188-15203) returns false for them.  `ContainsMeansAt` states the code's
    answer, and the two cases in which it does throw.
16. **Annotated arrays of BJData are written unchecked** (json.hpp:17482).
    The elements are cast to the type that `_ArrayType_` names, so 300 in a "uint8"
    array is read back as 44 (`Kept` in `BinaryFormats`); an `_ArrayType_` that is no
    string makes the whole call throw type_error (json.hpp:17453) where any other
    unsuitable object is written as the object it is.

None of 6 to 11, 15 and 16 is on a path that the node takes: it parses text without a
callback, and dumps without indentation.

## 5. Proofs

The theorems about `Node` hold for every `worker_count` > 0, every set of
`Lines`, all bounds, and every `WordBytes`, `random_device` and `mt19937_64` the
assumptions `NodeAssumption`, `ArrayAssumption` (a JSON array among the lines is
a sequence) and those of `Snowflake` admit; those about the other modules for
every value of their constants.

- **`TypeCorrect`, `NoTaskLost`** (NodeProofs): `Spec => []TypeOK` and
  `Spec => []TasksAccountedFor`, also with `stop()`.  `TypeOK` is not inductive:
  that a response is one of `Responses` needs a task that was parsed, and that
  needs the account of the tasks.  The inductive invariant is
  `TaskInv == TypeOK /\ LinesTracked /\ TasksAccountedFor`; `LinesTracked` says
  that tasks are numbers of lines that were read, that an accepted line parsed
  to a message, and that the line being dispatched has no fate yet.  Each action is classed by what it does
  to a task (nothing: `TasksStay`; finish: `TaskFinished`; and `GetLineTasks`,
  `DispatchTasks`, `EnqueueTasks`, `TakeTaskTasks`).
- **`NoEmptyPop`, `WorkersLeaveLast`, `ShutdownIsClean`** (NodeProofs), for
  `CallsStop = FALSE`, which is needed: the executions of finding 3 are counterexamples.
  The invariant is `ShutdownInv == Phases /\ QueueLockHeld /\ PopsAreSafe /\
  ExitsAreFinal`: `state` is a function of the main thread's place, and a worker
  between lock and unlock holds the mutex, so nobody empties the queue between
  its predicate and its pop.  `ShutdownIsClean` combines it with `TaskInv`: an
  accepted request would have to be in the empty queue or with an exited worker.
- **`NodeImplementsService`** (NodeProofs): the refinement, from both
  invariants.  Steps that only move program counters are stutters
  (`Invisible`); `Return` needs `CleanShutdown`.
- **`OutputIsWholeLines`** (NodeProofs): `Spec => []WholeLines`, also with
  `stop()`.  `OutputInv` adds that a payload without its newline is on stdout
  exactly while some worker is at "endl", that this worker holds
  `mutex_write_response` and that the payload is its own.

- **`RepliesAreAnswers`** (NodeProofs): `Spec => []RepliesMatchRequests`,
  also with `stop()` and racing inits.  `ReplyInv` follows a response from the
  handler that makes it to stdout: the one a worker holds answers its own task, a
  payload's request is answered or with the worker that is about to write the
  newline, and a request is answered exactly when its newline is written, so that
  no request has two.
- **`IdentityIsKept`** (NodeProofs), for `InitsInFlight <= 1`, which means
  that clients wait for `init_ok` (finding 2 is the counterexample for 2).
  `IdentityInv` says that at most one init is read and not finished, that a worker
  inside `init` has it, and that `self_node_id` is still empty there, so that the
  test holds when the assignment is made.
- **`ConfirmedNodesListen`** (NodeProofs): with `InitsInFlight <= 1` and
  `NamesAreGiven`, `Spec => NothingIgnoredAfterInitOk`.  `NamesAreGiven` excludes
  inits whose `node_id` is empty: after one, the list of nodes is set and the name
  is not, a later init is answered without effect, and the
  statement is false.

- **`DemoRepliesInOrder`** (DemoNodeProof): `Spec => []RepliesInOrder` for inputs
  of every length in which each `msg_id` fits an `int` (`IdsFit`; finding 12 is
  the counterexample).  `DemoInv` ties the number of responses to the number of
  requests begun: they are equal between requests and differ by one while the
  handler's thread runs, whose request is then the last line read.

- **`DumpStaysWithinBuffer`** (JsonSerializerProof): `WithinBuffer` for every
  `BufferSize` of at least 16, every value, mode and error handler.  `BufferInv` says that
  behind the last accepted code point at least 13 bytes are left, and that an
  unfinished one has put at most as many bytes there as its decoder state admits (`Behind`:
  three, two or one; none when they will be escaped).  That `dump_escaped` is
  given byte sequences is part of the proof: `AreTasks` types what `dump` has still
  to write.  The values are those of any set that holds the elements and members of
  its values (`IsClosed`), whose strings and names are byte sequences and whose
  objects are finite and list their own names.

- **`IdsSurviveTheCodec`, `DecoderStaysInString`** (Base64Proof): `IdCodecRoundTrip`
  and `TerminatorPreserved` for inputs of every length over all bytes.  The loops
  are the steps of a machine and the invariant says what each has done: after 3p + t bytes the encoder has
  written the sextets 0 to 4p + t - 1 of the input (`Spells`) and carries the rest
  of the last byte (`CarryAfter`); after 4k + r characters the decoder has the
  first 3k + max(r-1, 0) bytes and the high bits of the next (`Brought`), and
  `out_idx` is never more than the string's size (`IndexFits`).
- **`DecoderComputesTheBits`** (Base64Proof): `DecodeIsBitSlicing` for texts of
  every length.  `LoopInv` ties the machine to the operators: while a call runs, the
  machine's variables are those of the recursive function after as many iterations.
  That the operators compute the reference is `DecodesAs` (every text over the
  alphabet is the spelling of some bytes, `TextSpellsItsBytes`, and those are what
  the reference cuts out of its bits, `ReferenceIs`) and `Refuses` (any other
  character).  For the text of `encode_base64`, `StandardReadsOrRefuses`: it differs
  from the url text only in characters that have no value, so it is read as the same
  bytes or refused.
- **`RepliesParse`, `RepliesNameTheirRequest`, `NoForeignReplies`** (ExchangeProof):
  the three properties of `Exchange` for every `WordBytes`, generator and set of
  documents.  The only hypothesis on the documents is `DocumentsAssumption`: an
  unsigned id is a word, a signed one is not positive and in its range (the JSON parser
  makes positive numbers unsigned), and a text id is a sequence of bytes.  `ExchangeInv` says that
  the message is what `parse` made of the request and the reply the response to it for
  some seed; the rest is about the conversions: a word and its bytes determine each
  other, a string id is the codec's text of both words (so `CodecInverts` applies),
  and a number comes back as the number that was sent.  `NoForeignReplies` compares what
  the two ids denote by the reference (`IdMeant`), so it needs `DecodesAs` of
  Base64Proof as well (`ReadsAsDenoted`: `from_json_id` reads what a text denotes, in one
  encoding or two), and it names the negative numbers, for which it is false.

- **`BuilderPointersStayValid`** (JsonParserProof): `PointersStayValid` for texts
  of every length and depth, both DOM builders and all answers of a callback.  The
  inductive invariant is `PointerInv`: the live cells form a forest (no cell has two
  owners), `ref_stack` is a path of containers that starts at the root (null pointers
  follow where the callback rejected one), of the kinds that `Containers` derives from
  the parser's own stack of states, and
  `object_element` is owned by the innermost object whenever the next value is
  assigned through it.  The last part is where `emplace_back` could hurt: it frees the
  cells of an array's elements, and the proof needs that none of them is on the path.
- **`PositionOfTheLexer`** (JsonLexerProof): `PositionIsExact` for texts of every
  shape.  `LexInv` says what the position and `token_string` are of the bytes that were
  returned and not put back (`Tracks`), and in which states the end of the input can
  be read once more (`EndIsNear`): by a comment, by the token after it and by the scan
  that the strict parser adds, three times in all.

- **`MemberLives`, `ContentIsKept`** (ResultProof): the two invariants of `Result`, for any sets of objects, values and locations.
  `OneMemberLives` is inductive together with the types (`Accounted`), which are
  needed to add to the counts; the contents (`Faithful`) need that only objects that
  were not moved from are read, and that the locations of a lengthened error still hold
  the object's own route as a subsequence.

**Induction.**  The library's induction theorems take an operator as parameter and
cannot be instantiated, so the proofs that need induction over iterations use the
lemma `UpTo`, which is stated with a set of numbers and proved from the minimum of a
set (`WFMin`).  The recursive functions are first shown to be defined (`EncodeLoopIs`,
`DecodeLoopIs`, `NumbersDefined`, `PowersAre`): TLA+ defines them by `CHOOSE`.

**Only model-checked.**  Liveness (`RequestsAreHandled`, `JoinCompletes`,
`CallReturns`, `AnswersAll`) is out of the prover's reach.  So is what a `RECURSIVE`
operator computes for every input, and with it the properties of `JsonGrammar`,
`JsonTokens`, `JsonReread`, `BinaryFormats` and `JsonPatch`, which compare the code
with a recursive reference or are about modules that use one.  `ExitsAreFinal` is
proved and not the property of a run: it is the part of `ShutdownInv` from which
`CleanShutdown` follows.  `OnlyStopLeavesRequests` is checked by the run `stop`; what is
proved is its case without `stop()`, `ShutdownIsClean`.

## 6. Not modelled

`Option`, `monad/error.h` and `exit_illegal_state` have no operation that anything
calls.  Of `Result`, the move constructor is left out (its `std::swap` of a union
without moves does not compile once it is used), and so is a copy constructor of T
that throws.  Of json.hpp: grisu2 (products of 64-bit numbers, beyond TLC's integers;
its digits are an input of the serializer), the value of a parsed float (`strtod`),
input and output adapters, iterators, element access and modifiers beyond those
that parser, patch and node use, conversions from and to C++ types, allocators,
the texts of exceptions, `ordered_map`, and the macros.  In `JsonPatch`, the const
overloads of the pointer's access and the comparison of floats (NaN, precision) are
left out; `remove` below a primitive value silently succeeds there as in the code.
The demos in other languages are not built here.  Data races on
`self_node_id` outside `init` (main thread reading a torn view) are not split
further than one read and one write; a torn read could only be seen between an
init and its `init_ok`.

## 7. Plan

Order of work, most important behaviour first:

1. *(done)* codec, ids, messages; `Node` with all its operations;
   `RequestService`; lexer, parser, serializer, binary formats, pointer and patch of
   the JSON library; the C++ demo; `Result`; the proofs above.
2. *(done)* the proofs of the node's identity and replies, of the demo's output, of
   the serializer's buffer and of the codec for every length.
3. *(done)* the proofs of the builders' pointers, of the lexer's position, of the
   exchange for every `WordBytes`, and of the decoder against its reference.

What is left to TLC is the correctness of the JSON grammar, of the tokens, of the
round trips and of the patch, whose references are recursive.
