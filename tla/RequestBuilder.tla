--------------------------- MODULE RequestBuilder ---------------------------
(***************************************************************************)
(* The arena request builder of lucida and its reset barrier               *)
(* (src/main/cpp/lucida/request_builder.cpp, include/lucida/               *)
(* request_builder.h).  One owner thread registers a waiter slot for each  *)
(* worker thread (AddResetWaiter, "call before running thread") and later  *)
(* resets the arena (SyncReset); each worker allocates from the arena      *)
(* (New<T>), uses the object, and checks in at a safe point (WaitReset).   *)
(* The arena is a generation number: an object is valid while its          *)
(* generation is the current one.  The barrier barrier_ is the future of   *)
(* reset_promise_; no code sets that promise, so a wait on it returns only *)
(* by timing out.                                                          *)
(***************************************************************************)
EXTENDS Integers, Sequences, FiniteSets, SequencesExt

CONSTANTS
    Workers,       \* worker threads, one waiter slot each
    SyncTimeouts,  \* timeoutInSecs values the owner passes to SyncReset
    WaitTimeouts,  \* timeoutInSecs values workers pass to WaitReset
    MaxResets      \* bound on arena generations

ASSUME /\ SyncTimeouts \subseteq Nat /\ WaitTimeouts \subseteq Nat
       /\ SyncTimeouts # {} /\ WaitTimeouts # {} /\ MaxResets \in Nat \ {0}

NoObj == -1

VARIABLES
    gen,        \* arena generation: the number of arena_->Reset() calls
    waiters,    \* waiters_, the workers in registration order
    checkedIn,  \* each worker's waiter promise has been set
    holds,      \* generation of the arena object each worker is using, or NoObj
    wpc,        \* program counter of each worker
    wt,         \* the timeout of each worker's pending WaitReset
    opc,        \* program counter of the owner
    oi          \* the owner's position in waiters_ while collecting

vars == <<gen, waiters, checkedIn, holds, wpc, wt, opc, oi>>

Registered(w) == w \in ToSet(waiters)

-----------------------------------------------------------------------------
(* The owner thread                                                        *)

\* AddResetWaiter: a new promise pushed onto waiters_, paired with barrier_.
AddResetWaiter(w) ==
    /\ opc = "run"
    /\ ~Registered(w)
    /\ waiters' = Append(waiters, w)
    /\ UNCHANGED <<gen, checkedIn, holds, wpc, wt, opc, oi>>

\* Mutant: the collection loop starts one before the first waiter.
SyncResetBeginFromZero(t) ==
    /\ opc = "run"
    /\ gen < MaxResets
    /\ IF waiters = <<>>
       THEN gen' = gen + 1 /\ UNCHANGED <<opc, oi>>
       ELSE /\ opc' = IF t # 0 THEN "collect" ELSE "reset"
            /\ oi' = 0
            /\ UNCHANGED gen
    /\ UNCHANGED <<waiters, checkedIn, holds, wpc, wt>>

\* Mutant: the collection loop is skipped whatever the timeout.
SyncResetBeginNoWait(t) ==
    /\ opc = "run"
    /\ gen < MaxResets
    /\ IF waiters = <<>>
       THEN gen' = gen + 1 /\ UNCHANGED <<opc, oi>>
       ELSE opc' = "reset" /\ UNCHANGED <<gen, oi>>
    /\ UNCHANGED <<waiters, checkedIn, holds, wpc, wt>>

\* SyncReset(t): with no waiters, reset at once and return.  Otherwise, for
\* t # 0, wait on every waiter's promise; for t = 0 the loop condition
\* `it != waiters_.end() && timeoutInSecs` is false at once and nobody is
\* waited for.
SyncResetBegin(t) ==
    /\ opc = "run"
    /\ gen < MaxResets
    /\ IF waiters = <<>>
       THEN gen' = gen + 1 /\ UNCHANGED <<opc, oi>>
       ELSE /\ opc' = IF t # 0 THEN "collect" ELSE "reset"
            /\ oi' = 1
            /\ UNCHANGED gen
    /\ UNCHANGED <<waiters, checkedIn, holds, wpc, wt>>

\* (*it)->get_future().wait() returns once that waiter has checked in.
CollectWait ==
    /\ opc = "collect"
    /\ checkedIn[waiters[oi]]
    /\ IF oi = Len(waiters)
       THEN opc' = "reset" /\ UNCHANGED oi
       ELSE oi' = oi + 1 /\ UNCHANGED opc
    /\ UNCHANGED <<gen, waiters, checkedIn, holds, wpc, wt>>

\* arena_->Reset(), then barrier_.wait(): blocks on a promise nobody sets.
ArenaReset ==
    /\ opc = "reset"
    /\ gen' = gen + 1
    /\ opc' = "barrier"
    /\ UNCHANGED <<waiters, checkedIn, holds, wpc, wt, oi>>

-----------------------------------------------------------------------------
(* A worker thread                                                         *)

\* New<T>(): arena_ is never null (the constructor creates it and Reset keeps
\* it), so every object comes from the current arena generation.
New == gen

\* PrepareLearnRequest / PrepareInferRequest / BuildCreateRequest: a Request
\* and its QuerySpec, both from New; the worker uses them until check-in.
PrepareRequest(w) ==
    /\ wpc[w] = "idle"
    /\ Registered(w)
    /\ holds' = [holds EXCEPT ![w] = New]
    /\ wpc' = [wpc EXCEPT ![w] = "using"]
    /\ UNCHANGED <<gen, waiters, checkedIn, wt, opc, oi>>

\* WaitReset(pair, t): pair.first->set_value() at the safe point, where the
\* worker has stopped using arena objects; a second set_value on the same
\* promise throws std::future_error out of the thread.
WaitResetSignal(w) ==
    /\ wpc[w] = "using"
    /\ \E t \in WaitTimeouts :
          /\ wt' = [wt EXCEPT ![w] = t]
          /\ IF checkedIn[w]
             THEN wpc' = [wpc EXCEPT ![w] = "threw"] /\ UNCHANGED <<checkedIn, holds>>
             ELSE /\ checkedIn' = [checkedIn EXCEPT ![w] = TRUE]
                  /\ holds' = [holds EXCEPT ![w] = NoObj]
                  /\ wpc' = [wpc EXCEPT ![w] = "barrier"]
    /\ UNCHANGED <<gen, waiters, opc, oi>>

\* pair.second.wait_for(t) times out and WaitReset returns false; the worker
\* goes back to work.  With t = 0, pair.second.wait() never returns.
WaitResetTimeout(w) ==
    /\ wpc[w] = "barrier"
    /\ wt[w] # 0
    /\ wpc' = [wpc EXCEPT ![w] = "idle"]
    /\ UNCHANGED <<gen, waiters, checkedIn, holds, wt, opc, oi>>

-----------------------------------------------------------------------------

Init ==
    /\ gen = 0
    /\ waiters = <<>>
    /\ checkedIn = [w \in Workers |-> FALSE]
    /\ holds = [w \in Workers |-> NoObj]
    /\ wpc = [w \in Workers |-> "idle"]
    /\ wt = [w \in Workers |-> 0]
    /\ opc = "run"
    /\ oi = 1

Owner ==
    \/ \E w \in Workers : AddResetWaiter(w)
    \/ \E t \in SyncTimeouts : SyncResetBegin(t)
    \/ CollectWait
    \/ ArenaReset

Worker(w) == PrepareRequest(w) \/ WaitResetSignal(w) \/ WaitResetTimeout(w)

Next == Owner \/ \E w \in Workers : Worker(w)

\* Real threads: each runs when it can.
Spec == Init /\ [][Next]_vars /\ WF_vars(Owner) /\ \A w \in Workers : WF_vars(Worker(w))

-----------------------------------------------------------------------------
(* Properties                                                              *)

\* Every variable holds a value of its type; the owner's cursor stays within
\* waiters_.
TypeOK ==
    /\ gen \in 0..MaxResets
    /\ waiters \in Seq(Workers) /\ IsInjective(waiters)
    /\ checkedIn \in [Workers -> BOOLEAN]
    /\ holds \in [Workers -> {NoObj} \cup 0..MaxResets]
    /\ wpc \in [Workers -> {"idle", "using", "barrier", "threw"}]
    /\ wt \in [Workers -> WaitTimeouts \cup {0}]
    /\ opc \in {"run", "collect", "reset", "barrier"}
    /\ oi \in 1..Cardinality(Workers)

\* SyncReset resets the arena only after every thread registered with
\* AddResetWaiter has checked in with WaitReset: the quiescence the barrier
\* exists for.
ResetAfterCheckIn ==
    [][ArenaReset => \A i \in 1..Len(waiters) : checkedIn[waiters[i]]]_vars

\* No worker is ever left using an arena object of a generation that a
\* SyncReset has since reset, whatever the owner's and the workers' timeouts.
NoUseAfterReset == \A w \in Workers : holds[w] \in {NoObj, gen}

\* A SyncReset that began eventually returns to its caller.
SyncResetReturns == opc \in {"collect", "reset", "barrier"} ~> opc = "run"

=============================================================================
