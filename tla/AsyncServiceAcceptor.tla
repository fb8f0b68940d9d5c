------------------------ MODULE AsyncServiceAcceptor ------------------------
(***************************************************************************)
(* The asynchronous gRPC server of lucida: AsyncServiceAcceptor            *)
(* (src/main/cpp/lucida/service_acceptor.cpp) driving the per-call state   *)
(* machine TypedCall (src/include/lucida/call.h).                          *)
(*                                                                         *)
(* Actors: the thread calling Start, which then runs HandleRpcs (one       *)
(* "dispatcher" per thread running HandleRpcs), threads calling Shutdown,  *)
(* threads calling BlockUntilShutdown, and the gRPC runtime, which         *)
(* completes the operations a TypedCall starts and posts (tag, ok) events  *)
(* to the completion queue.  A TypedCall is identified by its tag (its     *)
(* address); tags are numbered in allocation order and never reused.       *)
(***************************************************************************)
EXTENDS Naturals, Sequences, FiniteSets, Functions, Bags, BagsExt

CONSTANTS
    Methods,         \* the RPC methods with a listener (create, learn, infer)
    Dispatchers,     \* threads running HandleRpcs on the one completion queue
    Shutdowners,     \* threads calling Shutdown()
    Waiters,         \* threads calling BlockUntilShutdown() twice, as the tests do
    Timed,           \* the timeouts a waiter may pass: FALSE is 0, TRUE is > 0
    MaxCalls,        \* bound on client calls the runtime delivers
    MaxTags,         \* bound on TypedCall allocations
    BuildMayFail,    \* whether BuildAndStart may fail (bind error)
    TestOrder        \* TRUE: callers keep the tests' order (see ShutdownLock, BlockCheck)

ASSUME /\ Methods # {} /\ Dispatchers # {}
       /\ Timed \subseteq BOOLEAN /\ Timed # {}
       /\ MaxCalls \in Nat /\ MaxTags \in Nat
       /\ BuildMayFail \in BOOLEAN /\ TestOrder \in BOOLEAN

Tags == 1..MaxTags

\* UntypedCall::CallState, plus the two states of memory that holds no call
CallStates == {"NONE", "CREATE", "PROCESS", "FINISH", "DELETED"}
\* the operation a call has outstanding in the gRPC runtime
Ops == {"none", "listen", "finish"}
NoTag == 0

VARIABLES
    state,      \* AsyncServiceAcceptor::state_
    start,      \* progress of the thread in Start()
    cqState,    \* cq_: not yet created, up, or shut down
    serverDown, \* server_->Shutdown() was called
    call,       \* tag -> [st, m, op]: status_, listen_/handler_ binding, outstanding op
    nextTag,    \* tags allocated so far
    cq,         \* bag of completed (tag, ok) events not yet returned by Next
    alarm,      \* the null-tag shutdown alarm is in the queue
    arrived,    \* client calls delivered so far
    dpc,        \* program counter of each HandleRpcs thread
    cur,        \* the tag a HandleRpcs thread is processing
    sd,         \* HandleRpcs local variable `shutdown`
    signalled,  \* number of shutdownPromise_.set_value() calls
    spc,        \* program counter of each Shutdown() caller
    bpc,        \* program counter of each BlockUntilShutdown() caller
    btimed,     \* whether the pending BlockUntilShutdown call has a timeout
    bres        \* the values BlockUntilShutdown has returned to each waiter

vars == <<state, start, cqState, serverDown, call, nextTag, cq, alarm, arrived,
          dpc, cur, sd, signalled, spc, bpc, btimed, bres>>

Event(t, ok) == [tag |-> t, ok |-> ok]
Events == [tag : Tags, ok : BOOLEAN]

-----------------------------------------------------------------------------
(* TypedCall                                                               *)

\* `new TypedCall(...)->Proceed(true)`: the constructor sets CREATE and
\* Proceed moves it to PROCESS and requests the next call of method m
\* (listen_), tagged with the new call's address.
\* Mutant: the new listener loses its method binding.
ListenerUnbound(m) == [st |-> "PROCESS", m |-> NoTag, op |-> "listen"]

Listener(m) == [st |-> "PROCESS", m |-> m, op |-> "listen"]

Arm(c, t, m) == [c EXCEPT ![t] = Listener(m)]

\* TypedCall::Finish / FinishWithError: a no-op once FINISH, otherwise mark
\* FINISH and start responder_.Finish tagged with the call.
\* Mutant: Finish without the FINISH != status_ guard.
FinishUnguarded(c, t) == [c EXCEPT ![t].st = "FINISH", ![t].op = "finish"]

\* Mutant: the FINISH != status_ test inverted.
FinishInverted(c, t) ==
    IF c[t].st = "FINISH"
    THEN [c EXCEPT ![t].st = "FINISH", ![t].op = "finish"]
    ELSE c

Finish(c, t) ==
    IF c[t].st # "FINISH"
    THEN [c EXCEPT ![t].st = "FINISH", ![t].op = "finish"]
    ELSE c

\* `delete` of a call: by Proceed in FINISH (after assert(status_ == FINISH))
\* or by HandleRpcs on a failed event.
Delete(c, t) == [c EXCEPT ![t].st = "DELETED"]

-----------------------------------------------------------------------------
(* AsyncServiceAcceptor::Start                                             *)

\* The check-and-set of state_ under mu_.
StartLock ==
    /\ start = "idle"
    /\ state = "INIT"
    /\ state' = "STARTED"
    /\ start' = "locked"
    /\ UNCHANGED <<cqState, serverDown, call, nextTag, cq, alarm, arrived,
                   dpc, cur, sd, signalled, spc, bpc, btimed, bres>>

\* AddCompletionQueue and BuildAndStart, outside the lock; on failure state_
\* becomes ERROR, on success the thread enters HandleRpcs.
StartBuild ==
    /\ start = "locked"
    /\ cqState' = "up"
    /\ \/ /\ start' = "built"
          /\ dpc' = [d \in Dispatchers |-> "init"]
          /\ UNCHANGED state
       \/ /\ BuildMayFail
          /\ start' = "failed"
          /\ state' = "ERROR"
          /\ UNCHANGED dpc
    /\ UNCHANGED <<serverDown, call, nextTag, cq, alarm, arrived, cur, sd,
                   signalled, spc, bpc, btimed, bres>>

-----------------------------------------------------------------------------
(* AsyncServiceAcceptor::HandleRpcs, one thread d                          *)

\* One listener per method, each armed with a fresh tag.
InitListeners(d) ==
    LET n     == Cardinality(Methods)
        order == CHOOSE f \in [1..n -> Methods] : Range(f) = Methods
    IN /\ dpc[d] = "init"
       /\ nextTag + n <= MaxTags
       /\ call' = [t \in Tags |->
                     IF t > nextTag /\ t <= nextTag + n
                     THEN Listener(order[t - nextTag])
                     ELSE call[t]]
       /\ nextTag' = nextTag + n
       /\ dpc' = [dpc EXCEPT ![d] = "loop"]
       /\ UNCHANGED <<state, start, cqState, serverDown, cq, alarm, arrived,
                      cur, sd, signalled, spc, bpc, btimed, bres>>

\* Next returns the null tag: the first time, shut the server and then the
\* queue down; later null tags are ignored.
DispatchAlarm(d) ==
    /\ dpc[d] = "loop"
    /\ alarm
    /\ alarm' = FALSE
    /\ IF ~sd[d]
       THEN /\ serverDown' = TRUE
            /\ cqState' = "shutdown"
            /\ sd' = [sd EXCEPT ![d] = TRUE]
       ELSE UNCHANGED <<serverDown, cqState, sd>>
    /\ UNCHANGED <<state, start, call, nextTag, cq, arrived, dpc, cur,
                   signalled, spc, bpc, btimed, bres>>

\* Mutant: the status test made after tag->Proceed, when it is FINISH.
RelistenAfterProceed(d, t) == ~sd[d] /\ call[t].st = "FINISH"

\* The test before CreateListener: not shutting down and the call in PROCESS.
Relisten(d, t) == ~sd[d] /\ call[t].st = "PROCESS"

\* Next returns (tag, true): if Relisten, first arm a new listener for the
\* same method, then tag->Proceed(true): in PROCESS run the handler, in
\* FINISH delete the call.
DispatchOk(d, t) ==
    LET relisten == Relisten(d, t)
        armed    == IF relisten THEN Arm(call, nextTag + 1, call[t].m) ELSE call
    IN /\ dpc[d] = "loop"
       /\ CopiesIn(Event(t, TRUE), cq) > 0
       /\ relisten => nextTag < MaxTags
       /\ cq' = BagRemove(cq, Event(t, TRUE))
       /\ nextTag' = IF relisten THEN nextTag + 1 ELSE nextTag
       /\ IF call[t].st = "PROCESS"
          THEN /\ call' = armed
               /\ dpc' = [dpc EXCEPT ![d] = "handler"]
               /\ cur' = [cur EXCEPT ![d] = t]
          ELSE /\ call' = Delete(armed, t)
               /\ UNCHANGED <<dpc, cur>>
       /\ UNCHANGED <<state, start, cqState, serverDown, alarm, arrived, sd,
                      signalled, spc, bpc, btimed, bres>>

\* Mutant: the failed call is only logged, not deleted.
DispatchFailKeep(d, t) ==
    /\ dpc[d] = "loop"
    /\ CopiesIn(Event(t, FALSE), cq) > 0
    /\ cq' = BagRemove(cq, Event(t, FALSE))
    /\ UNCHANGED <<state, start, cqState, serverDown, call, nextTag, alarm, arrived,
                   dpc, cur, sd, signalled, spc, bpc, btimed, bres>>

\* Next returns (tag, false): the call is deleted whatever its state.
DispatchFail(d, t) ==
    /\ dpc[d] = "loop"
    /\ CopiesIn(Event(t, FALSE), cq) > 0
    /\ cq' = BagRemove(cq, Event(t, FALSE))
    /\ call' = Delete(call, t)
    /\ UNCHANGED <<state, start, cqState, serverDown, nextTag, alarm, arrived,
                   dpc, cur, sd, signalled, spc, bpc, btimed, bres>>

\* Proceed in PROCESS: the handler (OnCreate/OnLearn/OnInfer via the
\* Callback, ok being true) may call Finish or FinishWithError itself.
Handle(d) ==
    /\ dpc[d] = "handler"
    /\ \/ call' = Finish(call, cur[d])
       \/ UNCHANGED call
    /\ dpc' = [dpc EXCEPT ![d] = "finish"]
    /\ UNCHANGED <<state, start, cqState, serverDown, nextTag, cq, alarm,
                   arrived, cur, sd, signalled, spc, bpc, btimed, bres>>

\* Mutant: Proceed returns after the handler without the default Finish().
FinishDefaultSkipped(d) ==
    /\ dpc[d] = "finish"
    /\ dpc' = [dpc EXCEPT ![d] = "loop"]
    /\ cur' = [cur EXCEPT ![d] = NoTag]
    /\ UNCHANGED <<state, start, cqState, serverDown, call, nextTag, cq, alarm,
                   arrived, sd, signalled, spc, bpc, btimed, bres>>

\* Proceed in PROCESS, after the handler: the default Finish().
FinishDefault(d) ==
    /\ dpc[d] = "finish"
    /\ call' = Finish(call, cur[d])
    /\ dpc' = [dpc EXCEPT ![d] = "loop"]
    /\ cur' = [cur EXCEPT ![d] = NoTag]
    /\ UNCHANGED <<state, start, cqState, serverDown, nextTag, cq, alarm,
                   arrived, sd, signalled, spc, bpc, btimed, bres>>

\* Next returns false once the queue is shut down and fully drained; a thread
\* that never saw the alarm shuts server and queue down itself.
LoopExit(d) ==
    /\ dpc[d] = "loop"
    /\ cqState = "shutdown"
    /\ BagToSet(cq) = {}
    /\ ~alarm
    /\ \A t \in Tags : call[t].op = "none"
    /\ dpc' = [dpc EXCEPT ![d] = "stopping"]
    /\ serverDown' = TRUE
    /\ UNCHANGED <<state, start, cqState, call, nextTag, cq, alarm, arrived,
                   cur, sd, signalled, spc, bpc, btimed, bres>>

\* Mutant: state_ is never set to STOPPED.
StopWithoutState(d) ==
    /\ dpc[d] = "stopping"
    /\ dpc' = [dpc EXCEPT ![d] = "signal"]
    /\ UNCHANGED <<state, start, cqState, serverDown, call, nextTag, cq, alarm,
                   arrived, cur, sd, signalled, spc, bpc, btimed, bres>>

\* state_ = STOPPED under mu_.
Stop(d) ==
    /\ dpc[d] = "stopping"
    /\ state' = "STOPPED"
    /\ dpc' = [dpc EXCEPT ![d] = "signal"]
    /\ UNCHANGED <<start, cqState, serverDown, call, nextTag, cq, alarm,
                   arrived, cur, sd, signalled, spc, bpc, btimed, bres>>

\* Mutant: shutdownPromise_ is never set.
SignalMissing(d) ==
    /\ dpc[d] = "signal"
    /\ dpc' = [dpc EXCEPT ![d] = "done"]
    /\ UNCHANGED <<state, start, cqState, serverDown, call, nextTag, cq, alarm,
                   arrived, cur, sd, signalled, spc, bpc, btimed, bres>>

\* shutdownPromise_.set_value(), after which Start returns true.
Signal(d) ==
    /\ dpc[d] = "signal"
    /\ signalled' = signalled + 1
    /\ dpc' = [dpc EXCEPT ![d] = "done"]
    /\ UNCHANGED <<state, start, cqState, serverDown, call, nextTag, cq, alarm,
                   arrived, cur, sd, spc, bpc, btimed, bres>>

-----------------------------------------------------------------------------
(* The gRPC runtime                                                        *)

\* A client calls the method a listener waits for: its request completes ok.
ClientArrives(t) ==
    /\ call[t].op = "listen"
    /\ ~serverDown
    /\ arrived < MaxCalls
    /\ arrived' = arrived + 1
    /\ call' = [call EXCEPT ![t].op = "none"]
    /\ cq' = BagAdd(cq, Event(t, TRUE))
    /\ UNCHANGED <<state, start, cqState, serverDown, nextTag, alarm, dpc, cur,
                   sd, signalled, spc, bpc, btimed, bres>>

\* After server_->Shutdown() every outstanding request fails.
ListenCancelled(t) ==
    /\ call[t].op = "listen"
    /\ serverDown
    /\ call' = [call EXCEPT ![t].op = "none"]
    /\ cq' = BagAdd(cq, Event(t, FALSE))
    /\ UNCHANGED <<state, start, cqState, serverDown, nextTag, alarm, arrived,
                   dpc, cur, sd, signalled, spc, bpc, btimed, bres>>

\* responder_.Finish completes, ok unless the client went away.
FinishCompletes(t) ==
    /\ call[t].op = "finish"
    /\ \E ok \in BOOLEAN :
          cq' = BagAdd(cq, Event(t, ok))
    /\ call' = [call EXCEPT ![t].op = "none"]
    /\ UNCHANGED <<state, start, cqState, serverDown, nextTag, alarm, arrived,
                   dpc, cur, sd, signalled, spc, bpc, btimed, bres>>

-----------------------------------------------------------------------------
(* AsyncServiceAcceptor::Shutdown and BlockUntilShutdown                   *)

\* Mutant: the state check is state_ != INIT instead of state_ == STARTED.
ShutdownLockUnchecked(s) ==
    /\ spc[s] = "idle"
    /\ TestOrder => start \in {"built", "failed"}
    /\ IF state # "INIT"
       THEN state' = "SHUTDOWN" /\ spc' = [spc EXCEPT ![s] = "alarm"]
       ELSE UNCHANGED state /\ spc' = [spc EXCEPT ![s] = "done"]
    /\ UNCHANGED <<start, cqState, serverDown, call, nextTag, cq, alarm,
                   arrived, dpc, cur, sd, signalled, bpc, btimed, bres>>

\* Under mu_: STARTED -> SHUTDOWN, remembered in did_shutdown.  In the
\* tests' order Shutdown is called once Start has built the server or failed.
ShutdownLock(s) ==
    /\ spc[s] = "idle"
    /\ TestOrder => start \in {"built", "failed"}
    /\ IF state = "STARTED"
       THEN state' = "SHUTDOWN" /\ spc' = [spc EXCEPT ![s] = "alarm"]
       ELSE UNCHANGED state /\ spc' = [spc EXCEPT ![s] = "done"]
    /\ UNCHANGED <<start, cqState, serverDown, call, nextTag, cq, alarm,
                   arrived, dpc, cur, sd, signalled, bpc, btimed, bres>>

\* Mutant: did_shutdown is not acted on; no alarm is posted.
ShutdownAlarmDropped(s) ==
    /\ spc[s] = "alarm"
    /\ spc' = [spc EXCEPT ![s] = "done"]
    /\ UNCHANGED <<state, start, cqState, serverDown, call, nextTag, cq, alarm,
                   arrived, dpc, cur, sd, signalled, bpc, btimed, bres>>

\* new grpc::Alarm(cq_.get(), now, nullptr): a null-tag event on cq_.
ShutdownAlarm(s) ==
    /\ spc[s] = "alarm"
    /\ alarm' = TRUE
    /\ spc' = [spc EXCEPT ![s] = "done"]
    /\ UNCHANGED <<state, start, cqState, serverDown, call, nextTag, cq,
                   arrived, dpc, cur, sd, signalled, bpc, btimed, bres>>

\* Under mu_: return false unless SHUTDOWN or STARTED, else wait on the
\* future.  In the tests' order it is called after a Shutdown() returned.
BlockCheck(w) ==
    /\ bpc[w] = "idle"
    /\ Len(bres[w]) < 2
    /\ TestOrder => \E s \in Shutdowners : spc[s] = "done"
    /\ IF state \in {"SHUTDOWN", "STARTED"}
       THEN /\ bpc' = [bpc EXCEPT ![w] = "wait"]
            /\ \E timed \in Timed : btimed' = [btimed EXCEPT ![w] = timed]
            /\ UNCHANGED bres
       ELSE /\ bres' = [bres EXCEPT ![w] = Append(@, FALSE)]
            /\ UNCHANGED <<bpc, btimed>>
    /\ UNCHANGED <<state, start, cqState, serverDown, call, nextTag, cq, alarm,
                   arrived, dpc, cur, sd, signalled, spc>>

\* wait() returns once the promise is set; wait_for(timeout) also returns
\* when the timeout elapses first; both paths return true.
BlockReturn(w) ==
    /\ bpc[w] = "wait"
    /\ signalled > 0 \/ btimed[w]
    /\ bres' = [bres EXCEPT ![w] = Append(@, TRUE)]
    /\ bpc' = [bpc EXCEPT ![w] = "idle"]
    /\ UNCHANGED <<state, start, cqState, serverDown, call, nextTag, cq, alarm,
                   arrived, dpc, cur, sd, signalled, spc, btimed>>

-----------------------------------------------------------------------------

Init ==
    /\ state = "INIT"
    /\ start = "idle"
    /\ cqState = "none"
    /\ serverDown = FALSE
    /\ call = [t \in Tags |-> [st |-> "NONE", m |-> CHOOSE m \in Methods : TRUE, op |-> "none"]]
    /\ nextTag = 0
    /\ cq = EmptyBag
    /\ alarm = FALSE
    /\ arrived = 0
    /\ dpc = [d \in Dispatchers |-> "idle"]
    /\ cur = [d \in Dispatchers |-> NoTag]
    /\ sd = [d \in Dispatchers |-> FALSE]
    /\ signalled = 0
    /\ spc = [s \in Shutdowners |-> "idle"]
    /\ bpc = [w \in Waiters |-> "idle"]
    /\ btimed = [w \in Waiters |-> FALSE]
    /\ bres = [w \in Waiters |-> <<>>]

\* Start and every Shutdown have returned, and each waiter has made both its
\* calls or is blocked on the future; a blocked waiter is judged by
\* BlockReturns, not reported as a deadlock.
Quiescent ==
    /\ start = "failed" \/ \A d \in Dispatchers : dpc[d] = "done"
    /\ \A s \in Shutdowners : spc[s] = "done"
    /\ \A w \in Waiters : Len(bres[w]) = 2 \/ bpc[w] = "wait"
    /\ UNCHANGED vars

Dispatch(d) ==
    \/ InitListeners(d)
    \/ DispatchAlarm(d)
    \/ \E t \in Tags : DispatchOk(d, t) \/ DispatchFail(d, t)
    \/ Handle(d) \/ FinishDefault(d)
    \/ LoopExit(d) \/ Stop(d) \/ Signal(d)

Runtime ==
    \E t \in Tags : ListenCancelled(t) \/ FinishCompletes(t)

Next ==
    \/ StartLock \/ StartBuild
    \/ \E d \in Dispatchers : Dispatch(d)
    \/ Runtime
    \/ \E t \in Tags : ClientArrives(t)
    \/ \E s \in Shutdowners : ShutdownLock(s) \/ ShutdownAlarm(s)
    \/ \E w \in Waiters : BlockCheck(w) \/ BlockReturn(w)
    \/ Quiescent

\* Every thread and the runtime keep running; clients need not call.
Fairness ==
    /\ WF_vars(StartLock) /\ WF_vars(StartBuild)
    /\ \A d \in Dispatchers : WF_vars(Dispatch(d))
    /\ WF_vars(Runtime)
    /\ \A s \in Shutdowners : WF_vars(ShutdownLock(s) \/ ShutdownAlarm(s))
    /\ \A w \in Waiters : WF_vars(BlockCheck(w) \/ BlockReturn(w))

Spec == Init /\ [][Next]_vars /\ Fairness

-----------------------------------------------------------------------------
(* Properties                                                              *)

TypeOK ==
    /\ state \in {"INIT", "STARTED", "SHUTDOWN", "STOPPED", "ERROR"}
    /\ start \in {"idle", "locked", "built", "failed"}
    /\ cqState \in {"none", "up", "shutdown"}
    /\ serverDown \in BOOLEAN
    /\ call \in [Tags -> [st : CallStates, m : Methods, op : Ops]]
    /\ nextTag \in 0..MaxTags
    /\ IsABag(cq) /\ BagToSet(cq) \subseteq Events
    /\ alarm \in BOOLEAN
    /\ arrived \in 0..MaxCalls
    /\ dpc \in [Dispatchers -> {"idle", "init", "loop", "handler", "finish",
                                "stopping", "signal", "done"}]
    /\ cur \in [Dispatchers -> Tags \cup {NoTag}]
    /\ sd \in [Dispatchers -> BOOLEAN]
    /\ signalled \in Nat
    /\ spc \in [Shutdowners -> {"idle", "alarm", "done"}]
    /\ bpc \in [Waiters -> {"idle", "wait"}]
    /\ btimed \in [Waiters -> BOOLEAN]
    /\ bres \in [Waiters -> Seq(BOOLEAN)]

\* A HandleRpcs thread is inside tag->Proceed for call t.
Held(t) == \E d \in Dispatchers : dpc[d] \in {"handler", "finish"} /\ cur[d] = t

\* Completions of t still to come out of Next: an outstanding operation or
\* an event already in the queue.
Pending(t) ==
    (IF call[t].op # "none" THEN 1 ELSE 0)
      + CopiesIn(Event(t, TRUE), cq) + CopiesIn(Event(t, FALSE), cq)

\* The tag-as-address discipline of HandleRpcs and TypedCall: a deleted call
\* is neither in a thread's hands nor named by any completion still to come
\* (no use after `delete`), and a live call is named by at most one
\* completion and, unless a thread is processing it, by exactly one (it can
\* be neither deleted twice nor leaked).
TagOwnership ==
    \A t \in Tags :
        IF call[t].st \in {"NONE", "DELETED"}
        THEN Pending(t) = 0 /\ ~Held(t)
        ELSE Pending(t) <= 1 /\ (Pending(t) = 1 \/ Held(t))

\* Re-arming before dispatching: while HandleRpcs runs and the server is up,
\* every method has a call waiting for, or holding, a request that no thread
\* has yet taken, also while a handler runs.
AcceptCapacity ==
    (\E d \in Dispatchers : dpc[d] \in {"loop", "handler", "finish"}) /\ ~serverDown
      => \A m \in Methods :
            \E t \in Tags :
                /\ call[t].m = m /\ call[t].st = "PROCESS" /\ ~Held(t)
                /\ call[t].op = "listen" \/ CopiesIn(Event(t, TRUE), cq) > 0

\* When HandleRpcs has stopped, every TypedCall it allocated has been deleted.
NoCallOutlivesStop ==
    state = "STOPPED" => \A t \in Tags : call[t].st \in {"NONE", "DELETED"}

\* The tests' "can't shutdown twice": a BlockUntilShutdown call made after
\* one that returned true returns false (STOPPED is set before the promise).
SecondBlockReturnsFalse ==
    \A w \in Waiters : Len(bres[w]) = 2 /\ bres[w][1] => ~bres[w][2]

\* Shutdown() posts its alarm on a completion queue that exists: Start
\* creates cq_ after it has set STARTED, outside the lock.
AlarmOnLiveQueue ==
    [][\A s \in Shutdowners :
         spc[s] = "alarm" /\ spc'[s] = "done" => cqState # "none"]_vars

\* Once Shutdown moved the acceptor to SHUTDOWN, HandleRpcs drains the queue
\* and reaches STOPPED.
ShutdownCompletes == state = "SHUTDOWN" ~> state = "STOPPED"

\* Every BlockUntilShutdown call that blocks returns.
BlockReturns == \A w \in Waiters : bpc[w] = "wait" ~> bpc[w] = "idle"


\* The acceptor implements the lifecycle its header promises: under the
\* mapping below every step of Start, HandleRpcs, Shutdown and
\* BlockUntilShutdown is a step of ServerLifecycle or leaves its state
\* alone, and a shut-down server stops and fulfils shutdownPromise_.
Blocked ==
    [w \in Waiters |-> IF bpc[w] = "wait"
                       THEN IF btimed[w] THEN "timed" ELSE "untimed"
                       ELSE "no"]

Lifecycle == INSTANCE ServerLifecycle
                 WITH stopped <- signalled > 0, blocked <- Blocked, results <- bres

ImplementsLifecycle == Lifecycle!Spec

=============================================================================
