# TLA+ models of the lucida gRPC framework

This directory holds TLA+ models of the concurrency core of lucida
(`src/`). It also holds the TLC configurations that check them, and
`PROJECT.json`, which maps every model definition to the source lines it
translates. Every module is written from the C++ source. `refcount.h` is not
in the repository, so the one exception is RpcCall's reference count, which
is modelled from `spec.md`.

## The system

lucida has four concurrent pieces and some pure helpers.

- **Server: `AsyncServiceAcceptor`** (`service_acceptor.cpp`, with
  `TypedCall` in `call.h`).
  - `Start` sets `state_` to STARTED under `mu_` and then builds the gRPC
    server and its completion queue outside the lock. On failure `state_`
    becomes ERROR. On success the calling thread runs `HandleRpcs`.
  - `HandleRpcs` creates one listener `TypedCall` per RPC method. It then
    pulls `(tag, ok)` events, where a tag is a call's address:
    - a null tag (the shutdown alarm) shuts down the server and the queue;
    - an ok event on a PROCESS call first re-arms a fresh listener, unless
      shutdown has been seen, and then runs `Proceed`. `Proceed` calls the
      handler and the default `Finish`; a FINISH call deletes itself instead;
    - a failed event deletes the call.
  - When the queue is drained the loop sets STOPPED and fulfils a promise.
  - `Shutdown` moves STARTED to SHUTDOWN under the lock and posts the alarm.
  - `BlockUntilShutdown` checks the state under the lock and then waits on
    the promise, with or without a timeout.
- **Server: `ServiceAcceptor`** (synchronous, same file, lines 205-302).
  - `Start` sets STARTED under `mu_`, builds the server outside the lock
    (ERROR on failure) and blocks in `server_->Wait()`. When that returns
    it sets STOPPED and fulfils the promise.
  - `Shutdown` moves STARTED to SHUTDOWN under the lock and then calls
    `server_->Shutdown()` outside it.
  - `BlockUntilShutdown` is as above, but a timed wait returns whether the
    promise was set in time.
- Both acceptors share one header contract (`service_acceptor.h`): start
  and return after shutdown completes, shutdown from any thread, and
  `BlockUntilShutdown` returns true once shutdown has completed or false on
  timeout.
- **Client: `AsyncServiceConnector`** (`service_connector.cpp/.h`).
  - `Start` spawns a worker thread that drains the client queue.
  - For each event the worker stores `ok_`, sets the call's promise and
    `Unref`s the call. On the null tag it breaks out of the loop.
  - `xxxAsync` asserts the connector is running and creates a
    `TypedRpcCall` with count 1. It `Ref`s the call for the worker, calls
    `Finish` (which hands the tag to gRPC, then takes the future), and
    returns a `shared_ptr` whose deleter `Unref`s.
  - `Shutdown` loads `runningAsync_`, posts the alarm, joins the worker and
    clears the flag.
  - `Start` after `Shutdown` restarts the connector. It replaces `cq_` with a
    fresh queue and assigns `cqThread_` a new worker. The old queue is
    dropped with whatever it still holds.
  - `Wait(t)` waits on the call's future: without limit for t = 0,
    otherwise it returns false on timeout.
- **`RequestBuilder`** (`request_builder.cpp/.h`).
  - An arena and a reset barrier.
  - The owner registers waiter slots (`AddResetWaiter`) and calls
    `SyncReset`.
  - Workers build requests (`Prepare*Request`, two `New<T>` each) and
    check in with `WaitReset`.
- **`path_ops`**: string algorithms (`Basename`, `Dirname`), and making
  paths or URLs absolute and relative over boost::filesystem.

The server and the client share no state. They interact only through gRPC,
which each module treats as its environment: an arriving client request, a
cancelled listen, a completed finish, an answer to a client call.

`LucidaRpc` puts the two together as the test `SimpleAsyncClientAsyncServer`
(`client_server.cpp` lines 114-145) runs them, with the test handler
(`handler.cpp`). It takes `AsyncServiceConnector` as `C` and
`AsyncServiceAcceptor` as `S` by `INSTANCE ... WITH`, renaming the variables
and constants the two share (`cq`, `spc`, `Shutdowners`). Each step of
either program is a step of its module with the other's variables
unchanged. The environment steps are joined:

- `ClientIssue`: `inferAsync` sends the request (`req` becomes sent).
- `Serve`: gRPC matches a sent request with a listener of its method; this
  is `S!ClientArrives` for that tag.
- `ServerReply`: `S!FinishCompletes` for the serving tag; the response is
  on its way.
- `ClientAnswer`: `C!Respond`, for a replied request or for a sent request
  no server will take (`Unservable`: the server is not built yet, failed to
  build, or was shut down).
- `TestHandle`: `S!Handle` restricted to the test handler. `OnCreate` and
  `OnLearn` call `Finish`; `OnInfer` only fills `response_`.
- `ServerShutdownLock`: the test calls `server->Shutdown()` only after its
  caller has its answer.

## Modules

| Module | Models | State (code) | Actions (code) |
|---|---|---|---|
| `AsyncServiceAcceptor` | acceptor, TypedCall, handler callbacks | `state` (`state_`), `start`, `cqState`, `serverDown`, `call[tag]` (TypedCall status, method, outstanding gRPC op), `cq` (bag of events), `alarm`, per-dispatcher `dpc`/`cur`/`sd` (the local `shutdown`), `signalled` (promise), per-caller `spc`, `bpc`, `bres` | `StartLock`, `StartBuild`; `InitListeners`, `DispatchAlarm`, `DispatchOk` (re-arm via `Relisten`, then Proceed), `DispatchFail`, `Handle`, `FinishDefault`, `LoopExit`, `Stop`, `Signal`; `ShutdownLock`, `ShutdownAlarm`; `BlockCheck`, `BlockReturn`; environment: `ClientArrives`, `ListenCancelled`, `FinishCompletes` |
| `AsyncServiceConnector` | connector, RpcCall, RefCounted | `starts`, `running` (`runningAsync_`), `worker` (`cqThread_`), `cq` (events of the current `cq_`), `qgen` (queues created so far), `alarms`, `errs` (`errorCount_`), per call `cgen` (its queue), `rc`, `live`, `pending`, `resolved` (promise), `okv` (`ok_`), per caller `cpc`, `wtimed` (timed Wait), per Shutdown caller `spc`/`scount` | `Start` (restart included), `WorkerResolve`, `WorkerExit`, `ShutdownLoad`, `ShutdownAlarm`, `ShutdownJoin`, `ShutdownClear`, `Issue`, `TakeWorkerRef`, `RequestFinish`, `Wait`, `WaitReturn`, `WaitTimeout`, `Release`; environment: `Respond`, which delivers to the call's own queue |
| `RequestBuilder` | arena and reset barrier | `gen` (arena generation), `waiters` (`waiters_`), `checkedIn` (waiter promises), `holds` (generation of the object each worker uses), `wpc`, `wt`, `opc`, `oi` (loop iterator) | `AddResetWaiter`, `SyncResetBegin`, `CollectWait`, `ArenaReset`, `PrepareRequest` (through `New`), `WaitResetSignal`, `WaitResetTimeout` |
| `ServerLifecycle` | the contract of `service_acceptor.h` (lines 54-101) | `state`, `stopped` (shutdown completed), `blocked` (kind of wait each caller is in), `results` (BlockUntilShutdown returns) | `Start`, `StartFails`, `Shutdown`, `Stop`, `Release`, `Block`, `ReturnFalse`, `ReturnTrue`, `TimeOut`; weak fairness on `Stop`, `Release` and every `ReturnTrue` |
| `ServiceAcceptor` | synchronous acceptor | `state`, `start` (Start's thread), `server` (`server_`: null, up, shut down), `signalled`, `spc`, `bpc`, `btimed`, `bres` | `StartLock`, `StartBuild`, `ServerWait`, `Signal`; `ShutdownLock`, `ServerShutdown`; `BlockCheck`, `BlockReturn` |
| `LucidaRpc` | the asynchronous client and server together, as `SimpleAsyncClientAsyncServer` | all the variables of both modules (`ccq`, `cspc` and `scq`, `sspc` for the renamed ones), and `req[c]`: each caller's request, not sent, sent, served by a tag, replied or answered | `ClientIssue`, `Serve`, `ServerReply`, `ClientAnswer`, `TestHandle`, `ServerShutdownLock`; the other steps of both modules unchanged |
| `PathOps` | Basename, Dirname, `relative()` fallback, MakeRelativePathOrUrl, MakeAbsolutePathOrUrl | `call` (the function and its arguments), `result` | `ScanBack` (the `--p` loop), `Basename`, `Dirname`, `Diverge`, `relative`, `Normalize` (boost's `normalize`), `AfterScheme` (the URL prefix cut), `Absolute` (boost's `absolute`), `MakeRelativePathOrUrl`, `MakeAbsolutePathOrUrl` as operators, checked against reference definitions; one action, `Return`, applies the called function |

Each `MC_*` module instantiates its module with model values: methods,
dispatcher threads, Shutdown callers and waiters; client callers; worker
threads.

Some steps were left out on purpose:

- Logging and `#ifdef DEBUG` blocks.
- Request and response contents: a handler is a choice between calling
  `Finish` itself or leaving it to the default.
- Wire formats.

Every state change of the modelled functions is in an action.

## Runs

| Run | Expect | What it shows |
|---|---|---|
| `AcceptorLifecycle` | pass | One dispatcher, two methods, up to 3 client requests, 5 tags, Start that may fail, and two Shutdown calls then two BlockUntilShutdown calls (the tests' and the destructor's).<br>Checks:<ul><li>`TagOwnership`: each live tag has exactly one owner (a pending gRPC op, one queued event, or the thread handling it), and a deleted tag has none.</li><li>`AcceptCapacity`: while the server is up, every method has an armed listener.</li><li>`NoCallOutlivesStop`.</li><li>`SecondBlockReturnsFalse`.</li><li>Liveness: `ShutdownCompletes` and `BlockReturns`.</li><li>Refinement: `ImplementsLifecycle`, i.e. `ServerLifecycle!Spec` with `stopped <- signalled > 0`, `blocked` from `bpc` and `btimed`, and `results <- bres`. Every step of the acceptor is a lifecycle step or a stutter, and a shut-down server stops and releases its waiters.</li></ul> |
| `AcceptorEarlyShutdown` | violation | `Shutdown` between Start's state change (line 61) and `cq_`'s creation (line 67) posts an alarm on a null queue (`AlarmOnLiveQueue`). |
| `AcceptorBlockTimeout` | violation | `BlockUntilShutdown(t)` with t > 0 after `Shutdown`: the wait times out while the server drains and line 202 returns true anyway. The header says false on timeout, so the run breaks `ImplementsLifecycle`. |
| `SyncLifecycle` | pass | The synchronous acceptor: a Start that may fail, two Shutdown callers (tests and destructor), two threads calling `BlockUntilShutdown` twice with or without timeout, in the tests' order.<br>Checks:<ul><li>`NoNullServer`: `Shutdown` never calls `server_->Shutdown()` on a null `server_`.</li><li>`ImplementsLifecycle`: the same abstract lifecycle, with timed waits. The synchronous code returns false on timeout.</li></ul> |
| `SyncEarlyShutdown` | violation | `Shutdown` from another thread (the header's signal handler) after Start set STARTED but before `server_` is assigned (line 228). `did_shutdown` is set and `server_->Shutdown()` dereferences null (`NoNullServer`). |
| `EndToEnd` | pass | `LucidaRpc` with the test's single `inferAsync` caller, one `HandleRpcs` thread, and a server build that may fail. The client's owner may start it twice and shut it down twice, while no call is outstanding. The caller waits with or without a timeout, or drops its handle.<br>Checks:<ul><li>`TypeOK`.</li><li>`RefCountSound`: the client call's count equals the number of holders, and a freed call has no holder and no event in flight, with the answers now coming from the server.</li><li>`NoLiveThreadReplaced`: a restart assigns `cqThread_` only once the previous worker has been joined, since assigning to a joinable `std::thread` terminates.</li><li>`NoRequestAbandoned`: the server never reaches STOPPED with a request it accepted still unanswered.</li><li>`CallAnswered`: a caller blocked in `Wait(0)` gets its answer. This needs the server to take the request, the handler and the default `Finish` to reply, and the client worker to resolve the call.</li></ul> |
| `ConnectorFireAndForgetLeak` | violation | A dropped call whose answer arrives after the alarm is never resolved, so it is never deleted (`CallFreed`). |
| `BuilderTimedReset` | pass | Two workers; `SyncReset(1)`; `WaitReset` with and without a timeout. `ResetAfterCheckIn`: the arena is reset only after every registered waiter has checked in. |
| `BuilderUntimedReset` | violation | `SyncReset(0)`, the default, skips the wait loop (`&& timeoutInSecs`, line 77). The arena is reset under a worker still using it (`NoUseAfterReset`). |
| `BuilderResetHangs` | violation | `SyncReset` with waiters never returns: `reset_promise_` is never set (`SyncResetReturns`). |
| `PathSplit` | pass | Every pathname over {a, /} of up to 5 characters. `Basename` is the last component (`BasenameCorrect`). For a pathname containing '/', `Dirname` + "/" + `Basename` rebuilds it (`DirnameSplit`).<br>`AbsoluteResolves`: for every relative path of up to two elements (".." included) and every absolute working directory, plain or `file:///`, `MakeAbsolutePathOrUrl` succeeds, keeps the `file://` prefix and names the directory that walking the relative path reaches. |
| `PathRelative` | violation | The `relative()` fallback emits one ".." too few, and the substring test at line 187 accepts `/ab` under `/a`. The result does not lead back to abspath (`RelativeResolves`). |

Every property of a passing run has a mutant in `PROJECT.json`: a plausible
bug in the mapped code that TLC must find. Examples are a missing `Ref`, an
`Unref` that frees at one, a `Proceed` without the default `Finish` (which
`OnInfer` relies on), an inverted FINISH guard, and a re-arm after Proceed.

### Findings that no run checks

These were met while modelling. They are recorded as hazards in
`PROJECT.json` but have no run of their own, because the project is limited
to twelve runs:

- `HandleRpcs` on two threads, which the comment at line 122 allows
  (`Dispatchers <- MCTwoDispatchers`). A finish fails on one thread while
  the other is still in the call's `Proceed`, so the call is deleted under
  it (`TagOwnership`). `Start` runs `HandleRpcs` on one thread only.
- `BlockUntilShutdown(0)` during `Start` (`TestOrder = FALSE`) passes its
  STARTED check; then the build fails and it waits for ever
  (`BlockReturns`).
- Two concurrent connector `Shutdown` calls both join the worker.
- After a timed-out `WaitReset`, a worker may build requests again although
  its check-in is already counted. A second `WaitReset` on the same pair
  throws `std::future_error`.
- `Dirname` of a name without '/' returns the name, and `level` is never
  used.
- `MakeRelativePath` is defined with three parameters, while the header
  declares two.
- Every call without an explicit context shares the connector's `context_`.
- A connector call issued after a concurrent `Shutdown` has loaded
  `runningAsync_` is never resolved, and its waiter hangs. This shows with
  `ShutdownWhenIdle = FALSE`.
- `MakeRelativePathOrUrl` fails for every URL working directory, although
  the header describes URLs with the same prefix. Line 166 rejects an
  abspath containing "://", so the "file://" protocol is never found in it.
  For any other scheme, `workdir.substr(n)` starts with "://" and has no
  root directory.
- `MakeAbsolutePathOrUrl` with a relative working directory returns a path
  rooted at the current directory. boost's `absolute()` makes the base
  absolute first. path_test.cpp (lines 20-27) expects "./path/to/file.ext"
  for workdir ".". For an `http://` workdir the result is the scheme glued
  to a local path.
- A handler that finishes a call later, from another thread, races the
  default `Finish` that `Proceed` makes when the handler returns.
- `SimpleAsyncClientAsyncServer` calls `inferAsync` right after starting the
  server thread. If the server has not bound its port yet, the request fails.
  `Wait(3)` still returns true, but `Get` gives an empty response rather than
  "got infer". `LucidaRpc` reaches this state (`Unservable` before
  `StartBuild`). `CallAnswered` still holds, because the caller does get an
  answer.

## Bounds

- **Acceptor.** The bounds allow the following:
  - a request arriving on each method;
  - a re-armed listener and a second request;
  - a failing finish;
  - shutdown with listens still pending.

  `MaxTags` counts every call ever created. Raising `MaxCalls` only repeats
  these cases.
- **Synchronous acceptor.** Two Shutdown callers and two waiters give:
  - a second Shutdown that finds the state already changed;
  - a timed and an untimed wait pending together;
  - a second `BlockUntilShutdown` after the first returned.

  A failing build covers the ERROR path.
- **Client and server (`EndToEnd`).** One caller, as in the test, is
  enough for:
  - both orders of worker and caller release;
  - an answer racing the alarm;
  - a timed-out Wait followed by a release;
  - a restart with an answer still due to the replaced queue, and a restart
    by a Start that finds the connector running;
  - a request sent before the server is built, after its build failed, and
    while it runs.

  A second caller on a second restartable connector multiplies the state
  space by about ninety (2.5 million states without liveness). Re-arming
  for concurrent requests is checked on the server alone by
  `AcceptCapacity`. `ConnectorFireAndForgetLeak` runs the connector alone
  with two callers.
- **Builder.** Two workers give a registered waiter that has checked in
  and one that has not, which is the case the reset must distinguish.
- **PathOps.** Pathnames cover:
  - no '/';
  - a leading, inner and trailing '/';
  - consecutive '/'.

  Absolute paths use the names a, b and ab, whose strings contain one
  another. Working directories are plain paths, `file://` URLs and
  `http://` URLs, each rooted or not and up to two names deep. Relative
  paths have up to two elements, so ".." can climb above the working
  directory and, from a one-name directory, above the root.

## Fairness

Every thread of the code (dispatcher, worker, Shutdown and Block callers,
callers of the client) is a real OS thread. Each therefore gets weak fairness
on its steps.

gRPC delivers every requested completion, so its completions (finish, cancel,
respond) are weakly fair too. New client requests (`ClientArrives`) are not
fair in `AsyncServiceAcceptor`: clients need not call. In `LucidaRpc` a
request has been sent, so `Serve` is weakly fair per caller: gRPC hands a
sent request to a listener of its method while one is armed. The server's
`Shutdown` follows the test: it comes after the caller has its answer. So
`CallAnswered` cannot hold merely because a shutdown cancels the request.

`ServerLifecycle` has weak fairness only on what the header promises will
happen: a server in SHUTDOWN stops (`Stop`), a stopped server releases its
waiters (`Release`), and a blocked caller returns once released
(`ReturnTrue`). Nothing forces a Start, a Shutdown or a call to
`BlockUntilShutdown`. An implementation that satisfies this fairness under
the refinement mapping keeps these promises.

`Quiescent` is the stutter step of a finished system. It lets TLC tell a
program that has legitimately stopped from a deadlock. A thread blocked for
ever is judged by the liveness properties, not by the deadlock check. The
RequestBuilder runs disable deadlock checking because `SyncReset` really
blocks for ever (`BuilderResetHangs`). The PathOps runs disable it too: a behaviour
is one call of a pure function, and the program stops once it returns.

In the connector, the owner thread's `Start` calls are weakly fair like
every other thread. A caller's timed `Wait` may time out again and again,
but the runtime's answer and the worker are fair. So an answered call is
eventually resolved, and after that `WaitTimeout` is disabled.

## Not modelled

- The synchronous client calls: single stub calls into gRPC.
- `ServiceNames` (`service_names.h`): constant string tables and
  `isTypeName`/`isCommandName`, pure membership tests with no state.
  `request_builder.cpp` uses the constants only as field values. `spec.md`
  (line 4) leaves the name vocabulary out as a collaborator. Nothing in it
  depends on an order of steps.
- The synchronous-client tests, and the synchronous server's requests: the
  blocking stub and the synchronous gRPC server are gRPC.
- `MakeAbsolutePath` and `MakeRelativePath`, which only pass
  `current_path()` on.
- A concurrent `Start` and `Shutdown` on a connector. The FIXME at line 60
  says `Start` is not thread-safe. In the model the thread that owns the
  connector makes both calls.
- The protobuf fields `Prepare*Request` fills: only the arena they come
  from matters.

## Plan

1. A property for a single `shutdownPromise_.set_value()` with two
   `HandleRpcs` threads.
2. The response status (`IsOK`, `GetStatus`) in `LucidaRpc`, with the
   test's expectation stated as a property.
