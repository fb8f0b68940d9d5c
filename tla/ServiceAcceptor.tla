--------------------------- MODULE ServiceAcceptor ---------------------------
(***************************************************************************)
(* The synchronous gRPC server of lucida: ServiceAcceptor                  *)
(* (src/main/cpp/lucida/service_acceptor.cpp, lines 205-302).  Start sets  *)
(* STARTED under mu_, builds the server outside the lock and blocks in     *)
(* server_->Wait(); Shutdown moves STARTED to SHUTDOWN under mu_ and then  *)
(* calls server_->Shutdown() outside it; BlockUntilShutdown checks the     *)
(* state under mu_ and waits on shutdownFuture_.  gRPC's request handling  *)
(* happens inside the server and is not part of this model.               *)
(***************************************************************************)
EXTENDS Naturals, Sequences

CONSTANTS
    Shutdowners,   \* threads calling Shutdown() (the tests' and the destructor's)
    Waiters,       \* threads calling BlockUntilShutdown() twice
    Timed,         \* the timeouts a waiter may pass: FALSE is 0, TRUE is > 0
    BuildMayFail,  \* whether BuildAndStart may return null
    TestOrder      \* TRUE: Shutdown is called once Start has built or failed

ASSUME /\ Timed \subseteq BOOLEAN /\ Timed # {}
       /\ BuildMayFail \in BOOLEAN /\ TestOrder \in BOOLEAN

VARIABLES
    state,      \* ServiceAcceptor::state_
    start,      \* program counter of the thread in Start()
    server,     \* server_: null, built and serving, or shut down
    signalled,  \* number of shutdownPromise_.set_value() calls
    spc,        \* program counter of each Shutdown() caller
    bpc,        \* program counter of each BlockUntilShutdown() caller
    btimed,     \* whether the pending BlockUntilShutdown call has a timeout
    bres        \* the values BlockUntilShutdown has returned to each waiter

vars == <<state, start, server, signalled, spc, bpc, btimed, bres>>

Init ==
    /\ state = "INIT"
    /\ start = "idle"
    /\ server = "null"
    /\ signalled = 0
    /\ spc = [s \in Shutdowners |-> "idle"]
    /\ bpc = [w \in Waiters |-> "idle"]
    /\ btimed = [w \in Waiters |-> FALSE]
    /\ bres = [w \in Waiters |-> <<>>]

-----------------------------------------------------------------------------
(* Start(hostAndPort) and Start(builder): the same steps                   *)

\* Under mu_: return false unless INIT, else STARTED.
StartLock ==
    /\ start = "idle"
    /\ IF state = "INIT"
       THEN state' = "STARTED" /\ start' = "locked"
       ELSE start' = "refused" /\ UNCHANGED state
    /\ UNCHANGED <<server, signalled, spc, bpc, btimed, bres>>

\* server_ = builder.BuildAndStart(); on null, ERROR under mu_ and return
\* false, whatever state_ has become meanwhile.
StartBuild ==
    /\ start = "locked"
    /\ \/ server' = "up" /\ start' = "waiting" /\ UNCHANGED state
       \/ BuildMayFail /\ start' = "failed" /\ state' = "ERROR" /\ UNCHANGED server
    /\ UNCHANGED <<signalled, spc, bpc, btimed, bres>>

\* server_->Wait() returns once the server has been shut down; then STOPPED
\* under mu_.
ServerWait ==
    /\ start = "waiting"
    /\ server = "down"
    /\ state' = "STOPPED"
    /\ start' = "signal"
    /\ UNCHANGED <<server, signalled, spc, bpc, btimed, bres>>

\* shutdownPromise_.set_value(); Start returns true.
Signal ==
    /\ start = "signal"
    /\ signalled' = signalled + 1
    /\ start' = "done"
    /\ UNCHANGED <<state, server, spc, bpc, btimed, bres>>

-----------------------------------------------------------------------------
(* Shutdown and BlockUntilShutdown                                         *)

\* Mutant: the state check is state_ != INIT instead of state_ == STARTED.
ShutdownLockUnchecked(s) ==
    /\ spc[s] = "idle"
    /\ TestOrder => start \notin {"idle", "locked"}
    /\ IF state # "INIT"
       THEN state' = "SHUTDOWN" /\ spc' = [spc EXCEPT ![s] = "shut"]
       ELSE spc' = [spc EXCEPT ![s] = "done"] /\ UNCHANGED state
    /\ UNCHANGED <<start, server, signalled, bpc, btimed, bres>>

\* Under mu_: STARTED -> SHUTDOWN, remembered in did_shutdown.
ShutdownLock(s) ==
    /\ spc[s] = "idle"
    /\ TestOrder => start \notin {"idle", "locked"}
    /\ IF state = "STARTED"
       THEN state' = "SHUTDOWN" /\ spc' = [spc EXCEPT ![s] = "shut"]
       ELSE spc' = [spc EXCEPT ![s] = "done"] /\ UNCHANGED state
    /\ UNCHANGED <<start, server, signalled, bpc, btimed, bres>>

\* if (did_shutdown) server_->Shutdown(), outside the lock.  A server_ that
\* Start has not yet assigned is null, and the call dereferences it.
ServerShutdown(s) ==
    /\ spc[s] = "shut"
    /\ IF server = "null"
       THEN spc' = [spc EXCEPT ![s] = "nullderef"] /\ UNCHANGED server
       ELSE spc' = [spc EXCEPT ![s] = "done"] /\ server' = "down"
    /\ UNCHANGED <<state, start, signalled, bpc, btimed, bres>>

\* Under mu_: return false unless STARTED or SHUTDOWN, else wait on the
\* future.  In the tests' order it is called after a Shutdown() returned.
BlockCheck(w) ==
    /\ bpc[w] = "idle"
    /\ Len(bres[w]) < 2
    /\ TestOrder => \E s \in Shutdowners : spc[s] = "done"
    /\ IF state \in {"STARTED", "SHUTDOWN"}
       THEN /\ bpc' = [bpc EXCEPT ![w] = "wait"]
            /\ \E timed \in Timed : btimed' = [btimed EXCEPT ![w] = timed]
            /\ UNCHANGED bres
       ELSE /\ bres' = [bres EXCEPT ![w] = Append(@, FALSE)]
            /\ UNCHANGED <<bpc, btimed>>
    /\ UNCHANGED <<state, start, server, signalled, spc>>

\* Mutant: the timed wait returns true also when it times out.
BlockReturnAlwaysTrue(w) ==
    /\ bpc[w] = "wait"
    /\ signalled > 0 \/ btimed[w]
    /\ bres' = [bres EXCEPT ![w] = Append(@, TRUE)]
    /\ bpc' = [bpc EXCEPT ![w] = "idle"]
    /\ UNCHANGED <<state, start, server, signalled, spc, btimed>>

\* wait() returns true once the promise is set; wait_for(t) returns
\* ready == status: true if the promise was set in time, false on timeout.
BlockReturn(w) ==
    /\ bpc[w] = "wait"
    /\ \/ signalled > 0 /\ bres' = [bres EXCEPT ![w] = Append(@, TRUE)]
       \/ btimed[w] /\ signalled = 0 /\ bres' = [bres EXCEPT ![w] = Append(@, FALSE)]
    /\ bpc' = [bpc EXCEPT ![w] = "idle"]
    /\ UNCHANGED <<state, start, server, signalled, spc, btimed>>

-----------------------------------------------------------------------------

\* Start and every Shutdown have returned, and each waiter has made both its
\* calls or is blocked on the future.
Quiescent ==
    /\ start \in {"done", "failed", "refused"}
    /\ \A s \in Shutdowners : spc[s] \in {"done", "nullderef"}
    /\ \A w \in Waiters : Len(bres[w]) = 2 \/ bpc[w] = "wait"
    /\ UNCHANGED vars

Starter == StartLock \/ StartBuild \/ ServerWait \/ Signal

Next ==
    \/ Starter
    \/ \E s \in Shutdowners : ShutdownLock(s) \/ ServerShutdown(s)
    \/ \E w \in Waiters : BlockCheck(w) \/ BlockReturn(w)
    \/ Quiescent

\* Every caller is a thread of its own and keeps running.
Spec ==
    /\ Init /\ [][Next]_vars
    /\ WF_vars(Starter)
    /\ \A s \in Shutdowners : WF_vars(ShutdownLock(s) \/ ServerShutdown(s))
    /\ \A w \in Waiters : WF_vars(BlockCheck(w) \/ BlockReturn(w))

-----------------------------------------------------------------------------
(* Properties                                                              *)

\* Shutdown() never calls server_->Shutdown() on a server_ that is still
\* null: did_shutdown is only set in STARTED, and STARTED with a null
\* server_ lasts only while Start is building it.
NoNullServer == \A s \in Shutdowners : spc[s] # "nullderef"

Blocked ==
    [w \in Waiters |-> IF bpc[w] = "wait"
                       THEN IF btimed[w] THEN "timed" ELSE "untimed"
                       ELSE "no"]

\* The synchronous acceptor implements the lifecycle the header promises,
\* timed BlockUntilShutdown included: every step of Start, Shutdown and
\* BlockUntilShutdown is a ServerLifecycle step or a stutter, and a shut-down
\* server stops and releases its blocked callers.
Lifecycle == INSTANCE ServerLifecycle
                 WITH stopped <- signalled > 0, blocked <- Blocked, results <- bres

ImplementsLifecycle == Lifecycle!Spec

=============================================================================
