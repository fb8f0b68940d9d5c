------------------------ MODULE AsyncServiceConnector ------------------------
(***************************************************************************)
(* The asynchronous gRPC client of lucida: AsyncServiceConnector           *)
(* (src/main/cpp/lucida/service_connector.cpp) and its reference-counted   *)
(* calls RpcCall / TypedRpcCall (src/include/lucida/service_connector.h).  *)
(*                                                                         *)
(* Actors: caller threads, each issuing one asynchronous call (learnAsync, *)
(* createAsync and inferAsync differ only in the stub method) and then     *)
(* waiting on it or dropping its handle; threads calling Start and         *)
(* Shutdown; the worker thread Start spawns to drain the completion queue; *)
(* and the gRPC runtime, which answers each call with a (tag, ok) event.   *)
(* A call is named by its caller.  RefCounted (refcount.h, not in the      *)
(* repository) is modelled from the spec: a count starting at 1 for the    *)
(* caller's shared_ptr, Ref adds one, Unref deletes the call at zero.      *)
(***************************************************************************)
EXTENDS Naturals, Integers, FiniteSets, Bags, BagsExt

CONSTANTS
    Callers,          \* caller threads, one asynchronous call each
    Shutdowners,      \* threads calling Shutdown()
    ShutdownRepeat,   \* Shutdown() calls per thread (an explicit one, the destructor's)
    FireAndForget,    \* callers may drop their handle without waiting
    ShutdownWhenIdle, \* Shutdown() and calls do not overlap: Shutdown is
                      \* made while no call is outstanding, and no call is
                      \* issued while a Shutdown is under way
    MaxStarts         \* Start() calls by the thread owning the connector

ASSUME /\ Callers # {} /\ Shutdowners # {}
       /\ ShutdownRepeat \in Nat \ {0}
       /\ FireAndForget \in BOOLEAN /\ ShutdownWhenIdle \in BOOLEAN
       /\ MaxStarts \in Nat \ {0}

VARIABLES
    starts,    \* Start() calls made
    running,   \* runningAsync_
    worker,    \* the worker thread: not spawned, in its loop, exited, joined
    cq,        \* bag of (tag, ok) events in the completion queue cq_
    qgen,      \* how many queues Start has created: cq_ is the qgen-th
    cgen,      \* the queue each call was issued on
    alarms,    \* null-tag alarm events in the completion queue
    errs,      \* errorCount_
    rc,        \* the reference count of each call
    live,      \* each call's memory: not allocated, live, deleted
    pending,   \* rpc_->Finish requested and not yet answered
    resolved,  \* promise_.set_value() done
    okv,       \* ok_
    wtimed,    \* whether a caller's pending Wait has a timeout
    cpc,       \* program counter of each caller
    spc,       \* program counter of each Shutdown() caller
    scount     \* Shutdown() calls each thread has completed

vars == <<starts, running, worker, cq, qgen, cgen, alarms, errs, rc, live,
          pending, resolved, okv, wtimed, cpc, spc, scount>>

\* The variables of Start, of the queue each call was issued on and of Wait,
\* which most steps leave alone.
qvars == <<starts, qgen, cgen, wtimed>>

Event(c, ok) == [tag |-> c, ok |-> ok]

-----------------------------------------------------------------------------
(* RefCounted, from the spec                                               *)

\* Mutant: the call is deleted when the count drops to one, not zero.
UnrefEarly(c) ==
    /\ rc' = [rc EXCEPT ![c] = @ - 1]
    /\ live' = [live EXCEPT ![c] = IF rc[c] <= 2 THEN "FREED" ELSE @]

\* Unref: drop one reference, delete the call when none is left.
Unref(c) ==
    /\ rc' = [rc EXCEPT ![c] = @ - 1]
    /\ live' = [live EXCEPT ![c] = IF rc[c] = 1 THEN "FREED" ELSE @]

-----------------------------------------------------------------------------
(* Start, Shutdown and the worker thread                                   *)

\* runningAsync_.exchange(true): return if it was running.  Otherwise
\* cq_.reset(new CompletionQueue) drops the previous queue with whatever
\* events it still holds, and cqThread_ is assigned a new worker draining the
\* new queue.  Start is called by the thread owning the connector, which
\* also calls Shutdown, so no Shutdown is under way; callers issue once
\* Start has returned, so its three steps are one action here.
Start ==
    /\ starts < MaxStarts
    /\ \A s \in Shutdowners : spc[s] = "idle"
    /\ starts' = starts + 1
    /\ IF running
       THEN UNCHANGED <<running, worker, cq, qgen, alarms>>
       ELSE /\ running' = TRUE
            /\ worker' = "loop"
            /\ cq' = EmptyBag
            /\ qgen' = qgen + 1
            /\ alarms' = 0
    /\ UNCHANGED <<cgen, wtimed, errs, rc, live, pending, resolved, okv, cpc,
                   spc, scount>>

\* Mutant: the worker does not drop its reference.
WorkerResolveNoUnref(c) ==
    /\ worker = "loop"
    /\ \E ok \in BOOLEAN :
          /\ CopiesIn(Event(c, ok), cq) > 0
          /\ cq' = BagRemove(cq, Event(c, ok))
          /\ errs' = IF ok THEN errs ELSE errs + 1
          /\ okv' = [okv EXCEPT ![c] = ok]
    /\ resolved' = [resolved EXCEPT ![c] = TRUE]
    /\ UNCHANGED <<qvars, running, worker, alarms, rc, live, pending, cpc, spc, scount>>

\* The worker's Next returns a call's event: count errors, store ok_, set
\* the promise, drop the worker's reference.
WorkerResolve(c) ==
    /\ worker = "loop"
    /\ \E ok \in BOOLEAN :
          /\ CopiesIn(Event(c, ok), cq) > 0
          /\ cq' = BagRemove(cq, Event(c, ok))
          /\ errs' = IF ok THEN errs ELSE errs + 1
          /\ okv' = [okv EXCEPT ![c] = ok]
    /\ resolved' = [resolved EXCEPT ![c] = TRUE]
    /\ Unref(c)
    /\ UNCHANGED <<qvars, running, worker, alarms, pending, cpc, spc, scount>>

\* The worker's Next returns the null tag: break, then cq->Shutdown().
WorkerExit ==
    /\ worker = "loop"
    /\ alarms > 0
    /\ alarms' = alarms - 1
    /\ worker' = "exited"
    /\ UNCHANGED <<qvars, running, cq, errs, rc, live, pending, resolved, okv,
                   cpc, spc, scount>>

\* runningAsync_.load(): if running, go on to post the alarm.
ShutdownLoad(s) ==
    /\ spc[s] = "idle"
    /\ scount[s] < ShutdownRepeat
    /\ ShutdownWhenIdle => \A c \in Callers : cpc[c] \in {"idle", "done"}
    /\ IF running
       THEN spc' = [spc EXCEPT ![s] = "alarm"] /\ UNCHANGED scount
       ELSE scount' = [scount EXCEPT ![s] = @ + 1] /\ UNCHANGED spc
    /\ UNCHANGED <<qvars, running, worker, cq, alarms, errs, rc, live, pending,
                   resolved, okv, cpc>>

\* new grpc::Alarm(cq_.get(), now, nullptr): a null-tag event.
ShutdownAlarm(s) ==
    /\ spc[s] = "alarm"
    /\ alarms' = alarms + 1
    /\ spc' = [spc EXCEPT ![s] = "join"]
    /\ UNCHANGED <<qvars, running, worker, cq, errs, rc, live, pending,
                   resolved, okv, cpc, scount>>

\* Mutant: Shutdown does not wait for the worker (a detach, or no join).
ShutdownJoinDetached(s) ==
    /\ spc[s] = "join"
    /\ spc' = [spc EXCEPT ![s] = "clear"]
    /\ UNCHANGED <<qvars, running, worker, cq, alarms, errs, rc, live, pending,
                   resolved, okv, cpc, scount>>

\* cqThread_.join() returns once the worker has exited.
ShutdownJoin(s) ==
    /\ spc[s] = "join"
    /\ worker \in {"exited", "joined"}
    /\ worker' = "joined"
    /\ spc' = [spc EXCEPT ![s] = "clear"]
    /\ UNCHANGED <<qvars, running, cq, alarms, errs, rc, live, pending,
                   resolved, okv, cpc, scount>>

\* runningAsync_ = false.
ShutdownClear(s) ==
    /\ spc[s] = "clear"
    /\ running' = FALSE
    /\ spc' = [spc EXCEPT ![s] = "idle"]
    /\ scount' = [scount EXCEPT ![s] = @ + 1]
    /\ UNCHANGED <<qvars, worker, cq, alarms, errs, rc, live, pending,
                   resolved, okv, cpc>>

-----------------------------------------------------------------------------
(* A caller: xxxAsync, then Wait/Get or not, then dropping the handle      *)

\* assert(runningAsync_); new TypedRpcCall(stub_->Asyncxxx(...)): count 1.
Issue(c) ==
    /\ cpc[c] = "idle"
    /\ running
    /\ ShutdownWhenIdle => \A s \in Shutdowners : spc[s] = "idle"
    /\ live' = [live EXCEPT ![c] = "LIVE"]
    /\ rc' = [rc EXCEPT ![c] = 1]
    /\ cgen' = [cgen EXCEPT ![c] = qgen]
    /\ cpc' = [cpc EXCEPT ![c] = "ref"]
    /\ UNCHANGED <<starts, qgen, wtimed, running, worker, cq, alarms, errs,
                   pending, resolved, okv, spc, scount>>

\* Mutant: the worker's reference is not taken.
TakeWorkerRefMissing(c) ==
    /\ cpc[c] = "ref"
    /\ cpc' = [cpc EXCEPT ![c] = "finish"]
    /\ UNCHANGED <<qvars, running, worker, cq, alarms, errs, rc, live, pending,
                   resolved, okv, spc, scount>>

\* tag->Ref(), one for the worker thread.
TakeWorkerRef(c) ==
    /\ cpc[c] = "ref"
    /\ rc' = [rc EXCEPT ![c] = @ + 1]
    /\ cpc' = [cpc EXCEPT ![c] = "finish"]
    /\ UNCHANGED <<qvars, running, worker, cq, alarms, errs, live, pending,
                   resolved, okv, spc, scount>>

\* TypedRpcCall::Finish: rpc_->Finish tagged with the call, then fut_ is
\* taken from the promise; the shared_ptr handle is returned.
RequestFinish(c) ==
    /\ cpc[c] = "finish"
    /\ pending' = [pending EXCEPT ![c] = TRUE]
    /\ cpc' = [cpc EXCEPT ![c] = "hold"]
    /\ UNCHANGED <<qvars, running, worker, cq, alarms, errs, rc, live,
                   resolved, okv, spc, scount>>

\* The caller calls Wait(timeoutInSeconds) on its handle, with 0 or with a
\* timeout; after a timeout it may wait again.
Wait(c) ==
    /\ cpc[c] \in {"hold", "timedout"}
    /\ cpc' = [cpc EXCEPT ![c] = "waiting"]
    /\ \E timed \in BOOLEAN : wtimed' = [wtimed EXCEPT ![c] = timed]
    /\ UNCHANGED <<starts, qgen, cgen, running, worker, cq, alarms, errs, rc,
                   live, pending, resolved, okv, spc, scount>>

\* fut_.wait() returns true once the promise is set, and so does
\* fut_.wait_for() when it is set in time; Get then reads response_.
WaitReturn(c) ==
    /\ cpc[c] = "waiting"
    /\ resolved[c]
    /\ cpc' = [cpc EXCEPT ![c] = "got"]
    /\ UNCHANGED <<qvars, running, worker, cq, alarms, errs, rc, live, pending,
                   resolved, okv, spc, scount>>

\* fut_.wait_for() times out before the promise is set: Wait returns false.
WaitTimeout(c) ==
    /\ cpc[c] = "waiting"
    /\ wtimed[c] /\ ~resolved[c]
    /\ cpc' = [cpc EXCEPT ![c] = "timedout"]
    /\ UNCHANGED <<qvars, running, worker, cq, alarms, errs, rc, live, pending,
                   resolved, okv, spc, scount>>

\* The last shared_ptr copy goes: RefDeleter unrefs the call.  A caller
\* drops its handle after Get, after a Wait that timed out, or, firing and
\* forgetting, without waiting.
Release(c) ==
    /\ \/ cpc[c] \in {"got", "timedout"}
       \/ (cpc[c] = "hold" /\ FireAndForget)
    /\ Unref(c)
    /\ cpc' = [cpc EXCEPT ![c] = "done"]
    /\ UNCHANGED <<qvars, running, worker, cq, alarms, errs, pending, resolved,
                   okv, spc, scount>>

\* The runtime answers a requested call, ok unless the RPC failed, on the
\* queue the call was issued on: an answer for a queue a restart has
\* replaced is left in that queue, which no worker drains any more.
Respond(c) ==
    /\ pending[c]
    /\ pending' = [pending EXCEPT ![c] = FALSE]
    /\ IF cgen[c] = qgen
       THEN \E ok \in BOOLEAN : cq' = BagAdd(cq, Event(c, ok))
       ELSE UNCHANGED cq
    /\ UNCHANGED <<qvars, running, worker, alarms, errs, rc, live, resolved,
                   okv, cpc, spc, scount>>

-----------------------------------------------------------------------------

Init ==
    /\ starts = 0
    /\ running = FALSE
    /\ worker = "none"
    /\ cq = EmptyBag
    /\ qgen = 0
    /\ cgen = [c \in Callers |-> 0]
    /\ alarms = 0
    /\ errs = 0
    /\ rc = [c \in Callers |-> 0]
    /\ live = [c \in Callers |-> "NONE"]
    /\ pending = [c \in Callers |-> FALSE]
    /\ resolved = [c \in Callers |-> FALSE]
    /\ okv = [c \in Callers |-> FALSE]
    /\ wtimed = [c \in Callers |-> FALSE]
    /\ cpc = [c \in Callers |-> "idle"]
    /\ spc = [s \in Shutdowners |-> "idle"]
    /\ scount = [s \in Shutdowners |-> 0]

\* Every Shutdown() call has returned and each caller is done, blocked in
\* Wait, or never issued because the connector stopped running first (its
\* assert); a blocked caller is judged by CallAnswered (LucidaRpc).
Quiescent ==
    /\ starts = MaxStarts
    /\ \A s \in Shutdowners : spc[s] = "idle" /\ scount[s] = ShutdownRepeat
    /\ \A c \in Callers : cpc[c] \in {"done", "waiting"} \/ (cpc[c] = "idle" /\ ~running)
    /\ UNCHANGED vars

Caller(c) ==
    \/ Issue(c) \/ TakeWorkerRef(c) \/ RequestFinish(c)
    \/ Wait(c) \/ WaitReturn(c) \/ WaitTimeout(c) \/ Release(c)

Worker == WorkerExit \/ \E c \in Callers : WorkerResolve(c)

Shutdowner(s) ==
    ShutdownLoad(s) \/ ShutdownAlarm(s) \/ ShutdownJoin(s) \/ ShutdownClear(s)

Next ==
    \/ Start
    \/ Worker
    \/ \E c \in Callers : Caller(c) \/ Respond(c)
    \/ \E s \in Shutdowners : Shutdowner(s)
    \/ Quiescent

\* Threads and the runtime are scheduled; a caller that got its answer or
\* holds a handle moves on.
Fairness ==
    /\ WF_vars(Start) /\ WF_vars(Worker)
    /\ \A c \in Callers : WF_vars(Caller(c)) /\ WF_vars(Respond(c))
    /\ \A s \in Shutdowners : WF_vars(Shutdowner(s))

Spec == Init /\ [][Next]_vars /\ Fairness

-----------------------------------------------------------------------------
(* Properties                                                              *)

CallerStates ==
    {"idle", "ref", "finish", "hold", "waiting", "timedout", "got", "done"}

\* Every variable holds a value of its type; in particular no Unref drives a
\* call's reference count below zero.
TypeOK ==
    /\ starts \in 0..MaxStarts /\ running \in BOOLEAN
    /\ qgen \in 0..MaxStarts /\ cgen \in [Callers -> 0..MaxStarts]
    /\ wtimed \in [Callers -> BOOLEAN]
    /\ worker \in {"none", "loop", "exited", "joined"}
    /\ BagToSet(cq) \subseteq [tag : Callers, ok : BOOLEAN]
    /\ alarms \in Nat /\ errs \in Nat
    /\ rc \in [Callers -> Nat]
    /\ live \in [Callers -> {"NONE", "LIVE", "FREED"}]
    /\ pending \in [Callers -> BOOLEAN] /\ resolved \in [Callers -> BOOLEAN]
    /\ okv \in [Callers -> BOOLEAN]
    /\ cpc \in [Callers -> CallerStates]
    /\ spc \in [Shutdowners -> {"idle", "alarm", "join", "clear"}]
    /\ scount \in [Shutdowners -> 0..ShutdownRepeat]

\* The caller's shared_ptr handle still refers to the call.
CallerHolds(c) == cpc[c] \in {"ref", "finish", "hold", "waiting", "timedout", "got"}

\* The worker's reference (tag->Ref() in xxxAsync) is still to be dropped by
\* the worker's Unref after it resolves the call.
WorkerHolds(c) == cpc[c] \notin {"idle", "ref"} /\ ~resolved[c]

\* The call's tag is still in gRPC's hands: requested or queued as an event.
InFlight(c) == pending[c] \/ \E ok \in BOOLEAN : CopiesIn(Event(c, ok), cq) > 0

\* The reference counting of RpcCall is sound across the caller thread, the
\* worker thread and the runtime: a live call's count is exactly the number
\* of holders (caller handle, worker reference), and a deleted call is
\* referred to by no handle and no event or request still in flight, so
\* neither the worker's set_value nor the caller's Wait/Get touches freed
\* memory, whichever of them lets go first.
RefCountSound ==
    \A c \in Callers :
       /\ live[c] = "LIVE" =>
             rc[c] = (IF CallerHolds(c) THEN 1 ELSE 0) + (IF WorkerHolds(c) THEN 1 ELSE 0)
       /\ live[c] = "FREED" => ~CallerHolds(c) /\ ~WorkerHolds(c) /\ ~InFlight(c)

\* Start assigns cqThread_ a new worker only when the previous worker has
\* been joined (or there was none): assigning to a joinable std::thread
\* calls std::terminate.  It rests on Shutdown joining the worker before it
\* clears runningAsync_, over any order of restarts and Shutdown calls.
NoLiveThreadReplaced ==
    [][~running /\ running' => worker \in {"none", "joined"}]_vars

\* Every call that is issued is eventually deleted: the worker's reference is
\* dropped even when the caller dropped its handle first.
CallFreed == \A c \in Callers : live[c] = "LIVE" ~> live[c] = "FREED"

=============================================================================
