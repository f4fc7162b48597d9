# Verification of python-node

TLA+ models of the request handling of this repository: a Rust library, loaded
into Node.js, that runs ASGI applications in an embedded Python. The models
are translated from `src/src/**.rs`; TLC checks them on small instances, and TLAPS
proves every safety property of the runs for every instance.

## 1. Inventory

A request crosses three schedulers. A libuv worker thread runs `compute()`
(`lib.rs`) and blocks on a tokio runtime; tokio runs `Asgi::handle` and the
tasks it spawns (`asgi/mod.rs`); one thread of its own runs the asyncio loop,
on which the application is a coroutine that calls the pyclass objects
`Receiver` and `Sender`. The parts share nothing but channels, two byte
streams, one future, one mutex, and reference counts.

```
 Node.js ── compute() ──> Asgi::handle ── run_coroutine_threadsafe ──> asyncio loop
    │            │             │ oneshot (head or error)                   │
    │        body writer       ▼                                           ▼
    │            │      forwarding task  <── queue + ack, future ──  app: await send(msg)
    │   request stream ──> request forwarder ── unbounded channel ─> app: await receive()
    └── response stream <── (forwarding task)
```

| Component | State | Operations | Interacts through | What is hard | What makes it correct |
|---|---|---|---|---|---|
| HTTP request path (`forward_http_request`, `Receiver`) | bounded stream, read buffer, unbounded channel | read, forward, end, `receive()`, cancel, free | stream, channel | reads that match no write; a broken connection; freed receiver | body delivered contiguously; only a whole body is called final; every `receive()` is answered |
| HTTP response path (`Sender`, `spawn_http_forwarding_task`, `PythonFuturePoller`, `handle`) | queue, ack channels, oneshot, timer, exception holder, stream | `send()`, seven kinds of handler outcome, timeout, client reads, cancellations | queue, oneshot, future, stream | `select!` picks any ready branch; writes block inside a branch; ack before write; exception races the head | order, no loss, honest end, one error report, progress |
| Request tasks (`PythonRequestTask`, `PythonStreamTask`) | task of the body writer, result of `handle` | write body, call handle, join, read | both streams | circular waiting of writer, application and reader | no deadlock, whole buffered body, early head |
| WebSocket (`handle` in WebSocket mode, its two forwarders) | handshake, queue, encoder, `close_sent`, decoder | accept/refuse, write a frame, close, end, forward frames | as above | who closes the stream, and once; ends of both directions | handshake first, order, close last, disconnect arrives |
| Shared event loop (`EventLoopHandle`) | static mutex with a weak reference, strong counts, the loop's thread with its queue of callbacks | get_or_create, submit, last drop, `stop()` | static, asyncio | upgrade against last drop; `stop()` from another thread; applications that end the loop | one loop for all living owners; never stopped under them by a handle; requests start |
| Start-up (`PythonHandler::new`, `Asgi::new`, `setup_python_paths`, `PythonHandlerTarget`) | `sys.path`, `sys.modules`, the namespaces of modules, the application function | parse the target, load, edit the path, execute, look up | the Python interpreter, shared by all handlers | several handlers under construction; modules known by bare file names; modules that raise | a handler serves its own application, with its own globals and imports |
| Runtime (`runtime_handle.rs`) | OnceLock | get | – | – | – |
| Conversions (`http.rs`, `websocket.rs`, `info.rs`, `http_method.rs`, `http_version.rs`) | none | request to scope, dictionary to message, message to head | – | defaults, silently dropped values, values that fail after the acknowledgement | no header lost or reordered; the head is the one the application gave |
| Lifespan (`lifespan.rs`) | none | message types only | – | never driven by any code | – |
| `fix-python-soname` | a binary and its backup | find library, back up, rewrite | file system | kills between steps, repeated runs, Pythons that come and go | a complete binary or backup survives; success means linked to the newest library, and signed |
| Node.js API besides the constructor, `ensure_python_initialized`, build, CI, npm | – | – | – | – | – |

## 2. Modules

| Module | Models | Composes / implements |
|---|---|---|
| `HttpRequestBody` | the HTTP request path | |
| `HttpRequestBodyProofs` | proofs about `HttpRequestBody` | EXTENDS `HttpRequestBody`, TLAPS |
| `HttpResponse` | the HTTP response path | implements `ResponseContract` |
| `ResponseContract` | abstract: what `handle()` promises | |
| `HttpResponseProofs` | proofs about `HttpResponse`, and that it implements `ResponseContract` | EXTENDS `HttpResponse`, TLAPS |
| `RequestTask` | `compute()` of both HTTP tasks | INSTANCEs of `HttpRequestBody` and `HttpResponse` |
| `RequestTaskProofs` | proofs about `RequestTask` from those about its halves | EXTENDS `RequestTask`, TLAPS; INSTANCEs of `HttpRequestBodyProofs` and `HttpResponseProofs` |
| `WebSocketExchange` | a WebSocket connection | |
| `WebSocketProofs` | proofs about `WebSocketExchange` | EXTENDS `WebSocketExchange`, TLAPS |
| `EventLoopHandle` | the shared loop | |
| `EventLoopProofs` | proofs about `EventLoopHandle` | EXTENDS `EventLoopHandle`, TLAPS |
| `AppLoading` | the construction of handlers in one interpreter | |
| `AppLoadingProofs` | proofs about `AppLoading` | EXTENDS `AppLoading`, TLAPS |
| `Conversions` | scopes, dictionaries, the head of a response | |
| `ConversionsProofs` | proofs about `Conversions` | EXTENDS `Conversions`, TLAPS |
| `PatchBinary` | `fix-python-soname` with the script that runs it | |
| `PatchBinaryProofs` | proofs about `PatchBinary` | EXTENDS `PatchBinary`, TLAPS |
| `HttpResponseClaims`, `WebSocketClaims`, `EventLoopClaims`, `ConversionClaims` | statements of docs and comments that the code refutes | EXTEND the models |

Conventions. A module declares its bounds and assumptions as CONSTANTS and a
named ASSUME; a `.cfg` gives the values. Each action is one handler, or the part
of one between two awaits. Actions named "Faulty variant" are never part of a
next-state relation: they are plausible bugs, kept next to the code they
distort, and each property is broken by one of them.
Messages are known by their index in the history `log`; data is one unit per
message in the response path and counted units in the request path.

### HttpRequestBody

`written`, `wireEnd` are the client's side of the request stream, `read` what
the forwarder took. `ForwardData` is one turn of the loop of
`forward_http_request` (mod.rs:137-159) for a read of any size that is pending;
`ForwardEof` and `ForwardReadError` are the other results of the read.
`inbox` is the unbounded channel, `received` and `raised` what `receive()`
calls returned (receiver.rs:48-57). A message carries the range of units it was
made of, so that "the body" has a meaning without bytes. The buffer between
two reads is abstracted: `split_to(n)` leaves it empty, so a message is exactly
the range just read.

### HttpResponse

- `Send`, `CancelSend`, `awaiting`, `acked`: `Sender.__call__` (sender.rs:55-100);
  `&mut self` makes at most one call pending per Sender. A message whose dictionary
  does not convert raises in Python before it is queued: no step of the model.
- `loop` is where the forwarding task is: in `select!`; inside `write_all`;
  before the `shutdown` of a final message; between the two steps of an exception after
  the head; or ended. The branches are the actions `ForwardStart` to
  `ResponseTimeout`; all of them are enabled from `"select"`, in any order.
- `head` is the oneshot: `"open"` stands for `response_tx.is_some()`.
- `Exit` is what ending the task does to everything it owns: oneshot, writer,
  queue with its ack channels.
- `handle` is the rest of `Asgi::handle`; `"badhead"` is a status or header that
  the response builder refuses (mod.rs:636-643).
- The branch of the request forwarder has no effect on the response: it is
  `RequestJoined` in `RequestTask`.

`compliant`, chosen initially, tells applications that keep to the ASGI protocol (one
start, first; nothing after the final body; no cancelled or deferred `send()`) from
any others. Safety is checked and proved for both; properties that need a compliant
application say so. The two kinds have bounds of their own, `MaxCompliant` and `MaxMessages`.

### RequestTask

Both models with one compliant coroutine (`receive()` and `send()` exclude each other) and
a client that is the Rust task writing the body (lib.rs:347-366). `buffered`,
chosen initially, tells the two tasks apart: the buffered one reads the response to its
end inside `compute()`, the streaming one returns after joining the writer.

### WebSocketExchange

`handle` and `loop = "none"` are the handshake (mod.rs:545-574). Afterwards `loop` is the
task of mod.rs:459-503 and `forwarder` that of mod.rs:164-227. In contrast to
HTTP a message is first written and then acknowledged. `closed` tells a close
frame from `encoder.end()`. Client frames are data, ignored (ping, pong, text that is
not UTF-8), and close frames. `compliant` is as in `HttpResponse`. The model is also that of
`compute()` for a WebSocket request without a body: `PythonStreamTask` then starts no writer and returns what
`handle` does, and `PythonRequestTask` shuts the request stream down first, which is `ClientEnd`.

### EventLoopHandle

`shared`, `held`, `locked` are the static weak reference, the owners' strong
ones and the mutex. Dropping the last reference is two steps (`DropHandle`,
`Stop`), because `Drop::drop` runs after the count has reached zero, without the
mutex.

The loop's thread is `loop_thread` (event_loop_handle.rs:134-150) and in it asyncio's `run_forever`,
one `_run_once` after the other: `Poll` the selector (not blocking if something is
scheduled or the stop flag is up), `Wakeup` by the self-pipe, `TakeBatch` of what is
scheduled at this moment, its callbacks one by one, and only then (`EndIteration`) a look at the
flag. `ready` is the queue of scheduled callbacks, `todo` how many of them the iteration
still runs, `woken` whether the self-pipe was written to. `Stop` sets the flag and
writes nothing to the pipe, as `loop.stop()` does when it is not called through
`call_soon_threadsafe`.

A request takes two callbacks to start: `Submit` (mod.rs:605-609) schedules the one of
`run_coroutine_threadsafe`, `CreateTask` runs it and schedules the Task's first step behind what
is queued, and the next iteration runs that (`Step`). So a request submitted just
before the last drop may find its first step scheduled on a loop that ends, and never start.

The application is one more actor on the loop. A coroutine may call `stop()` (`Step`) or raise
`SystemExit` or `KeyboardInterrupt` (`StepEndsLoop`), which ends `run_forever` by the error exit of
event_loop_handle.rs:145-149 while handles hold the loop; `Start` may fail as well. `interrupted` remembers
such loops. `Upgrade` goes on handing them out, and `Submit` is possible on them: that is what the code
does. `HeldLoopRuns` is therefore about the handles: no order of drops, destructor and `get_or_create`
stops a loop in use.

### AppLoading

Each handler is constructed by a thread of its own; `stage` is how far it is. `New` is the
constructor with what JavaScript may give as a target (lib.rs:53-138). `Load` is the part of
`Asgi::new` that runs without giving up the GIL: the file is looked for and read, `sys.path` is
set up (mod.rs:690-714), and the module gets its namespace, a new one or that of the module of
the same name. `LoadFails` ends it before the module exists: the file is missing or unreadable, or,
with `sys.path` changed already, its code does not compile. Then the module's code runs, one statement at a time (`SetConfig`,
`ImportHelper`, `DefineApp`), with other handlers in between, and may raise at any of them;
`Lookup` is the `getattr` behind it. `globals` are the namespaces ever created: what a name
means is the document root whose code bound it, so "its own" is equality of document roots.
`environment` and `helperIn` say what is on the disk: a virtual environment with
its site-packages, and where a module `helper` can be found.

### Conversions

One exchange in three steps: `CallApplication` makes the scope (http.rs:68-175,
websocket.rs:64-187), `Send` turns a dictionary into a message or raises
(http.rs:302-373, websocket.rs:317-368), and `AnswerHttp`, `AnswerWebSocket` are what
`handle()` makes of the first one. Texts are classes: plain, UTF-8, bytes that are not UTF-8,
control characters, and none; `ToStr`, `FromUtf8Lossy` and `Builds` say what the code, and the
libraries it calls, do with each. A header in a dictionary is a container (list or
tuple) of a length, with elements of a type. `request.headers` is in the order in which the header
map iterates, which groups headers of one name. The head of a response goes through such a map too:
`HeaderMap` is the builder's (mod.rs:636-643), a function from names in lower case to their values, to
which `Appended` adds one header after the other. What the application wrote as `[accept, date, Accept]` is
two values of `accept` and one of `date`; the order of different names is lost there, and
`HeadIsAsGiven` promises the values of each name, all of them, once and in order.

### PatchBinary

`step` is how far one run of the tool is; `binary` and `backup` are the files on disk, each
with the dependency it names, whether it is complete and whether it is signed.
`ReplaceNeeded` is everything the tool does in memory (main.rs:456-505, 534-588);
`BeginBackup`, `FinishBackup` are `fs::copy`, which truncates an older backup first;
`CreateOutput`, `WriteOutput` are `File::create` and the write, or `fs::write` on
macOS; `Sign` is the codesign of the script (fix-python-soname.js:107-118). `Crash`
ends a run between any two of them, `Reinstall` starts the next one, `ChangePython` changes
the machine between runs. The search is `FindPythonLibrary`: names outside,
directories inside; then the first directory with any library. Versions, suffixes and
paths are positions in the tool's lists; ELF and Mach-O differ in whether the link
names a directory and whether it is signed.

### ResponseContract

One decision (response or failure); then chunks are accepted one at a time, each
delivered before the next; then at most one end, complete or broken, with
everything accepted delivered. It has no queue, loop or timer. The refinement
mapping is at the end of `HttpResponse`: `accepted` is the number of acknowledged
data messages, `delivered` the length of the stream. It is implemented for every
application; only an application that keeps to the protocol is promised a decision. Data that
others send before the head is accepted and delivered all the same, so the contract allows it.

## 3. Runs

| Run | Instance | Shows |
|---|---|---|
| `HttpRequestBody` | 3 units, stream of 2 | `BodyIsContiguous`, `FinalMeansComplete`, `RaiseMeansNothingLeft`, `ReceiveAnsweredAfterEnd`, `ClientNeverBlocked` |
| `HttpResponse` | 3 messages of any application, 5 of a compliant one, stream of 1 | `DeliveredInOrder`, `AckedIsWritten`, `EndMeansComplete`, `ErrorIsReportedOnce`, `FailureMeansNotStarted`, `SendsAreAcked`, `RaiseIsReported`, `NothingAfterEnd`, `ImplementsContract`, `SendCompletes`, `HandleTerminates`, `StartedResponseEnds` |
| `RequestTask` | 2 units, stream of 1; 3 messages of a compliant application, stream of 1; both variants | `BufferedIsWhole`, `WriterFinishes`, `ComputeEnds`, `HeadersReturnEarly` |
| `WebSocketExchange` | 2 messages of any application, 3 of a compliant one, 2 frames of the client, stream of 1 | `HandshakeComesFirst`, `DeliveredInOrder`, `AckedIsWritten`, `RaiseFollowsDisconnect`, `SendsAreAcked`, `NothingAfterClose`, `DisconnectArrives`, `SendCompletes`, `ReturnEndsHandshake`, `StreamEnds` |
| `EventLoopHandle` | 2 owners, 2 loops, 2 coroutines in flight | `OneSharedLoop`, `HeldLoopRuns`, `RequestStarts` |
| `AppLoading` | 2 handlers, 2 document roots, 4 virtual environments, `helper` anywhere | `AppIsOwn`, `ImportsOwn` |
| `Conversions` | 2 headers or items of any kind, 3 items that are proper headers of 3 names (two of them one to HTTP), 2 plain texts and 5 classes of others | `ScopeKeepsHeaders`, `HeadIsAsGiven` |
| `PatchBinary` | 2 known names and 1 other, a virtual environment and 1 more directory, ELF and Mach-O | `Recoverable`, `SuccessIsUsable` |

Each module of the table but `RequestTask`, `Conversions` and the contract states its types in a `TypeOK` (`RequestTypeOK`
in `HttpRequestBody`, and so on). No run spends a property on it: all of them are proved, as
conjuncts of the inductive invariants or as consequences of them. Deadlock checking is off everywhere but in
`PatchBinary`: an exchange ends, and its model then has no step left.

Four runs are expected to fail; each checks one statement of the repository:

| Run | Statement | What TLC finds |
|---|---|---|
| `ClaimTimeout` | README.md:472, the 30 s timeout handles a deadlocked application | A body sent before the head fills the stream; the blocked `write_all` keeps the timer from being polled; `handle()` never returns. |
| `ClaimTaskEndClosesStream` | mod.rs:498-499, without a close frame the stream is ended | The application returns, its Sender is freed, and the end of the queue wins against the future: `close_sent` is set and nothing was closed. |
| `ClaimLastDropStops` | event_loop_handle.rs:16, the loop stops when the last handle is dropped | `stop()` from another thread does not wake a loop blocked in its selector. |
| `ClaimHeadersKept` | http.rs:268-270 and websocket.rs:275-277, headers are any iterable of two-item iterables and reach the client in order | `response.start` drops tuples, and anything in a container that is not a list, without an error; the 101 response has none of the headers of an accept. |

Further statements that the code contradicts, without a run of their own:

- lib.rs:345-346 says that the task writing the body "prevents deadlock when body size
  exceeds duplex buffer size". It does while the application keeps its Receiver
  (`WriterFinishes`). When the application ends without reading such a body, the
  forwarder stops; the writer then waits for room for ever, and `compute()` for the writer.
- README.md:458-461, Python exceptions are "propagated to Node.js": an application that raises
  before its first message leaves the WebSocket `handle()` waiting (mod.rs:562), because nobody looks
  at the future and the exception's traceback keeps the Sender.
- websocket.rs:297-298 wants a 403 response for a close before the accept; `handle()` fails with
  `WebSocketNotAccepted` (mod.rs:573).
- websocket.rs:272-273, the accepted subprotocol: matched away with the headers (mod.rs:564).
- http.rs:270-271 has headers optional in `response.start`; without them `send()` raises (http.rs:318).
- http.rs:20 and websocket.rs:14 name "2" as the version; the scope says "2.0" (http_version.rs:43).
- http.rs:27-29 wants percent-encoded sequences of `path` decoded; it is copied (http.rs:88).
- websocket.rs:55, the subprotocols the client advertised: those of the first
  `Sec-WebSocket-Protocol` header only (websocket.rs:134-139).
- main.rs:70 and 287, "Check for active virtual environments first": their directories
  come first, but names are tried before directories, so a newer Python elsewhere wins.
- fix-python-soname.js:9, "Only runs on Linux": it patches and signs macOS binaries too.

- http.rs:209-210 and README.md:471 promise `http.disconnect`; the variant is
  constructed nowhere outside tests, and `receive()` raises ValueError instead.
- http.rs:280-282 wants data flushed before `send()` returns; the
  acknowledgement comes before the write (mod.rs:263). `ImplementsContract`
  bounds the lead to one chunk.
- websocket.rs:229-231 wants code 1005 for a close frame without a code; `None`
  is passed on (mod.rs:203).
- README.md:270-272: a `websocket.close` that was carried out is not
  acknowledged (mod.rs:319-323), so its `send()` raises.
- README.md:289, "prevent multiple event loops per process": a stopped loop may
  still run beside its successor.
- event_loop_handle.rs:89-91, "If the event loop is still alive" its handle is returned, "Otherwise, it
  creates a new event loop": what is looked at is whether a *handle* is alive. A loop that an
  application has ended is handed out as long as some Asgi holds it.

### Why the bounds are enough

A stream of capacity 1 makes every write able to block and every reader able to
lag. Three messages are a head, data and a final message, or any disorder of them;
five let a compliant response have chunks in the queue, in the loop's hand, in the stream
and at the client at once. The request path needs two reads behind a message,
hence 3 units; in `RequestTask` a body of two units is already bigger than
its stream, which is the only relation that matters. Two loops and two owners
give every order of upgrade, last drop, stop and creation; a third loop would
only repeat the second. Two coroutines are one that keeps the loop busy and one that is being started. The counters are histories and grow no further than the
bounds; no property speaks of the bound itself.

Two handlers in `AppLoading` are a first and one that comes before, after or between; two
document roots tell "own" from "other"; the module imports and binds once each, so every
order of two modules' statements occurs. In `Conversions` two headers are what it takes to lose one,
swap two, or have one spoil the other; three proper ones are two of a name with another in between. Everything else about a request or a
dictionary is enumerated class by class, one thing at a time.

In `PatchBinary` two known names and two directories are the least that tell the order of the
two loops of the search apart; the other name is for the second search. Nothing is counted, so
runs, kills and changes of the machine are unbounded.

### Fairness

Weak fairness on: tokio tasks (woken by channels and streams; the future poller
wakes itself at every poll, python_future_poller.rs:51), the passing of 30 s, the
event loop setting the result of a finished coroutine, a `receive()` with an
answer, the caller's side of `handle()`, a client that keeps its end and has
something to read, and the loop's thread, on which no callback blocks for ever. One fairness condition covers a whole
`select!`: it takes *some* ready branch, never a particular one. Nothing is
assumed of the application: it may stop calling, hang, or keep its objects for
ever. In `WebSocketExchange` CPython is assumed to free the Sender of a compliant
coroutine that has returned.

### Assumptions about code outside the repository

- `http_handler` streams end by `shutdown`, `write_close` or `end()`, not by dropping
  the writer (the response body keeps a clone of both sides, mod.rs:525-529).
- A write to a response stream fails once the client's end of it is gone (`WriteFails` of `HttpResponse` and
  `WebSocketExchange`). This is an assumption of its own, in the other direction than the next one: the loop's
  writer is a clone of the response body, and that such a clone does not keep the reading end
  open is a matter of `http_handler`, not of this repository. If it did, writes would go on until the
  stream is full, and then wait for ever: `SendCompletes` of the two modules would not hold for a client that leaves.
- A clone of a `RequestBody` shares both ends of its stream: a writer whose reader is
  gone blocks and does not fail. The exception in `WriterFinishes` depends on it, and that
  `RequestTask` has no error of the writer: the branches lib.rs:379-382 and 490-493, which turn such
  an error into one of `compute()`, are left out, because the task itself keeps a clone of the body.
- The traceback of an exception keeps the frames of the coroutine, with Sender and
  Receiver, alive as long as the future is.
- The parsers of ELF and Mach-O files refuse a truncated file: both formats keep tables at the
  end, and an emptied file has no magic number. A kill is one of the process; the order in which
  a failing machine writes its disk is not modelled.
- `PyModule::from_code` executes in the module `sys.modules` has under the name, or in a new
  one, and takes the name out again when the code raises (CPython's `PyImport_ExecCodeModuleEx`).
- Between reading the file and the first statement of the module no Python code runs, so the GIL is not
  given up there.
- `HeaderValue::to_str` takes visible ASCII only, `StatusCode` 100 to 999, and
  header names and values are checked when the response is built, as in the `http` crate.
- `run_coroutine_threadsafe`, `_run_once` and `loop.stop()` behave as in CPython's asyncio.
- The end of a coroutine reaches its future by a callback of the loop. `HttpResponse` and `WebSocketExchange` take
  the loop to run on while their exchange lasts (`CompleteFuture` is fair); on a loop that was ended the coroutine
  stands still, and so does the exchange. Their safety properties do not depend on it.

## 4. Proofs

`HttpResponseProofs` proves, for every number of messages, every capacity and
every application (compliant or not):

`InvariantHolds`, `TypeCorrect`, `OrderedDelivery`, `AckedDataIsWritten`,
`HonestEnd`, `OneErrorReport`, `FailuresAreNotStarted` (each `ResponseSpec =>
[]P`) and `EndIsFinal` (`ResponseSpec => NothingAfterEnd`). The only assumption is
`ResponseAssumption`, the types of the constants.

None of the properties is inductive. `EndMeansComplete`, for one, needs to know at the
shutdown that the message in hand was final and is already written. `ResponseInv`
adds what the loop knows:

- `AwaitingIsQueued`: the pending call is the last message, and still queued;
  this is why acknowledging "message taken + 1" acknowledges the right call;
- `AckedWereTaken`: acknowledged messages were taken, and a start among them
  sent the head;
- `StreamIsPrefix`: the stream holds the data of the messages taken, in order,
  but for the one in hand;
- `MessageInHand`: which message each place of the loop works on, and that a
  final message is the last one ever taken;
- `HeadFollowsLoop`, `EndFollowsLoop`: the oneshot, the exception and the end of the
  stream belong to certain places of the loop.

The proof has one lemma per conjunct. Most steps touch neither queue nor stream;
lemma `QuietSteps` says so once, and each part is then shown for the few steps
left. TLC was asked about `ResponseInv` before the proof, on the instance of the run `HttpResponse`,
and so about every invariant below, on the instance of its run.

What holds only of applications that keep to the protocol rests on a second invariant on top
of the first, `ComplianceInv` (`ComplianceHolds`), from which `EverySendIsAcked` and
`EveryRaiseIsReported` follow. It says what such an application has queued (`ProtocolInLog`), that it
finishes only when no `send()` is out (`AppFollowsProtocol`), that its first message sends the
head (`FirstSendsHead`), and how the task may have ended (`EndIsAccounted`). The argument is about
who drops an acknowledgement: of the ways the loop ends, those that drop one either come
when the response was given up or find the queue without a waiting call, because the future is
done, or the Sender free, only after the last `send()` has returned (`DroppedOnlyIfGivenUp`).

`ResponseContractHolds` is the safety part of the refinement, `ResponseSpec => Contract!Spec`. The
mapping counts acknowledged data, so the proof needs `ChunkInHand`: acknowledged data and the
stream differ by one chunk while the loop writes and by none while it selects. With it,
`AcceptBody` accepts a chunk or stutters, `WriteBody` delivers one, the ends of the task decide a head
that is still open, `CloseStream` and `CloseAfterRaise` finish, and every other step stutters
(`ContractStep`).

`PatchBinaryProofs` proves `AlwaysRecoverable` (`PatchSpec => []Recoverable`) and
`SuccessMeansUsable` (`PatchSpec => []SuccessIsUsable`) for any number of libraries and directories, from
`PatchAssumption` (the constants are naturals, and there is a library at all). `Recoverable`
alone is not inductive: that the backup is complete when the output is opened has to be known
(`FilesFollowStep`), and a success says something about the machine only because what is
about to be written is the newest library of the machine as it is (`RunFollowsMachine`;
`ChangePython` waits for the end of a run). Lemma `SearchFindsNewest` is the fact about the
search: whatever it returns is installed, and no known library is newer.

`HttpRequestBodyProofs` proves `BodyArrivesWhole`, `FinalIsTrue` and `RaiseIsLast` (each
`RequestSpec => []P`) for a body of any size, every way of splitting it into reads and every
capacity of the stream, from `RequestAssumption`. `RequestInv` adds what the three need of each
other: `NothingSkipped`, that the forwarder stands at the end of the last message, also
before there is one; `DoneIsSaid`, that it ends with a final message or on an error; and
`CallKeepsReceiver`, that a pending call keeps the Receiver, hence the channel, open. A
message taken from the channel changes nothing of what is delivered, and one put there comes at its
end (`ReceiveKeepsDelivered`, `DeliverAppends`); with these two lemmas each action is a few lines.

`EventLoopProofs` proves `LivingShareOneLoop` and `UsedLoopRuns` for any number of owners, loops
and coroutines, from `LoopAssumption`. `LoopInv` is about the handles (`HandleInv`), the threads (`ThreadInv`)
and the queues (`WorkInv`). The argument is in three conjuncts of the first: whoever is between the failed upgrade and the new loop is alone, because nobody gets a
reference but through the mutex (`CreatorIsAlone`, `CriticalSection`); every strong reference is to
the loop the weak one names (`HoldersAreShared`); and a last reference stays the last while the
destructor runs without the mutex, since an upgrade needs another
(`DroppedStaysDropped`). So `stop()` meets a loop that has no holder and gets none: a loop with its flag up, or ended, is unheld unless
something else than a handle ended it (`StoppedIsUnheld`). That a `LoopThread` step keeps the queue a queue and
takes no more than the batch is `WorkStep`.

`WebSocketProofs` proves the six safety properties of the run, five invariants (`HandshakeIsFirst`,
`DeliveryIsInOrder`, `AckedFramesAreWritten`, `RaiseComesLast`, `CompliantSendsAreAcked`) and the
action property `NothingAfterClose` (`NothingFollowsClose`), for any number of messages and
frames, any capacity and every application. `WebSocketInv` has three parts. `SendingInv`
follows a message from the queue into the stream: unlike HTTP, a frame is acknowledged after it
is written, so the loop has the message in hand (`MessageInHand`) while its call still waits, and
`StreamIsPrefix` and `AckedWereWritten` tell the frames before it from that one; `ClosedIsDone` says that
nothing is in hand once the stream is closed. `ReceivingInv` follows the client's frames into
the channel, between `connect` and `disconnect`. `CompliantInv` is for `SendsAreAcked`, as above. The
handshake joins them: nothing passes in either direction before it is decided (`HandshakeDecides`).

`AppLoadingProofs` proves `EveryAppIsItsOwn` and `EveryImportIsItsOwn` (and the types, `TypeCorrect`) for any finite number of
handlers and any document roots, however the statements of their modules interleave, from
`LoadingAssumption`. `AppIsOwn` speaks of one handler, but what could break it is another that
shares its namespace, so the invariant is about namespaces: each belongs to one file
(`OneFile`), what is bound in it comes from a handler of that file (`GlobalsAreOfFile`), `config` before
`app` (`ConfigComesFirst`). For `ImportsOwn`, the document root of a running handler is on
`sys.path` in front of the interpreter's own entry (`RootIsOnPath`, `SystemComesLast`), and
`HelperIsExplained` remembers, after the import, why the first provider could be the interpreter.

`ConversionsProofs` proves `HeadersReachTheScope` and `HeadIsTheApplications` for any number of headers and
items and any plain texts, from `ConversionsAssumption`. The invariant (`InvariantHolds`, a lemma) only says that each
value is what the conversion makes of the one before; the work is in what two recursive functions
compute. `PairsAreKept`: the loop over the items of a `response.start` (`StartHeaders`) gives one header
for each, in order, if all are pairs. `MapHasItems`: the map built from them (`HeaderMap`) has, for each name, as many
values as there are items of it, the k-th item of a name being the k-th value (`AppendedKeeps`, `ItemsAreCounted`). Induction over data is out of reach in general, since the
library's induction theorems take an operator as a parameter; here it is replaced by the
least counterexample. `LeastElement`, that a set of numbers that is not empty has a least one, is proved
from the well-foundedness of inclusion on finite sets (of the intervals `1..i`), and
`SameRecursion`, that two functions with the same first value and the same step agree, from it.
`AppLoadingProofs` uses the same lemma for the first provider on `sys.path`.

`RequestTaskProofs` is about the composition, and proves nothing about the halves again.
`HalvesAreImplemented` shows that each step of a request of Node.js is a step of `HttpRequestBody` or leaves its
variables alone, and the same of `HttpResponse`; so the theorems of the two hold of the composition
(`RequestHalfIsSafe`, `ResponseHalfIsSafe`), the refinement of `ResponseContract` too (`ContractHolds`). An instance of a proof module has definitions of its own;
`SameResponseSpecs` and `SameRequestSpecs` say that they are those of `Req` and `Resp`. `BufferedResultIsWhole` needs one
more invariant, `ResultIsRead`: once the result is there the stream has ended and is read. That it
stays so is `NothingAfterEnd`, and that the end means the whole response is `EndMeansComplete`, both
from `HttpResponseProofs`. The assumption is `RequestTaskAssumption`, those of the two halves together.

What is only model-checked is liveness under fairness, which is out of the prover's reach: the
`~>` and `<>` properties of the runs and, of the refinement, the fairness in `Contract!FairSpec`, that is, that
the head of a compliant application is decided. `ENABLED`, and so freedom from
deadlock in `PatchBinary`, is checked by TLC alone, and so are the four statements that the code refutes.

## 5. Not modelled

Contents of bodies and frames, and of paths, query strings and addresses, which are copied;
wording of errors. The early failures of `handle()` before the coroutine is submitted
(mod.rs:545-559, 586-612), but for an unknown method, which return an error and leave nothing
behind. A body given with a WebSocket request, which `PythonStreamTask::compute` writes without shutting
the stream down. Aborting a NAPI task: an `AsyncTask` can be aborted only before it starts.
`handleRequestSync` (the same `compute()` on the caller's thread), the docroot getter
and `resolve()`. `ensure_python_initialized`: one `dlopen` and one initialisation behind a `OnceLock`.
`runtime_handle.rs`: a `OnceLock`. `lifespan.rs`: message types that no code constructs
(README.md:662, "implementation exists but not exposed"). Build scripts, CI and packaging.

## 6. Plan

Done: `HttpRequestBody`, `HttpResponse` with its contract, `RequestTask`,
`WebSocketExchange`, `EventLoopHandle`, `AppLoading`, `Conversions`, `PatchBinary`, each with its proofs.

All safety properties of the runs are theorems. Next, where the proofs can say more:

1. of `RequestTask`: the safety behind `ComputeEnds`, that a `compute()` still waiting has a step of
   one of the two halves to wait for;
2. of `EventLoopHandle` and `WebSocketExchange`: the state each liveness property waits in as an invariant
   (what is pending, and who is bound to move), so that only the fairness is left to TLC;
3. an abstract specification of a WebSocket connection, with the refinement proved as that of
   `HttpResponse` is.
