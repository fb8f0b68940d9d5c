--------------------------- MODULE ServerLifecycle ---------------------------
(***************************************************************************)
(* What the acceptors of lucida promise their users, written from the      *)
(* declarations and comments of include/lucida/service_acceptor.h, which   *)
(* AsyncServiceAcceptor and ServiceAcceptor share word for word.           *)
(*   - Start serves requests and, if successful, returns after shutdown    *)
(*     completes; it returns false when it fails.                          *)
(*   - Shutdown initiates shutdown.                                        *)
(*   - BlockUntilShutdown blocks the calling thread until shutdown has     *)
(*     completed and returns true then, or false on timeout.  Called when  *)
(*     there is nothing to wait for, it returns false at once.            *)
(***************************************************************************)
EXTENDS Sequences

CONSTANT Waiters   \* threads calling BlockUntilShutdown

VARIABLES
    state,    \* INIT, STARTED, SHUTDOWN, STOPPED or ERROR
    stopped,  \* shutdown has completed and the waiters are released
    blocked,  \* per waiter: "no", or the kind of wait it is blocked in
    results   \* the values BlockUntilShutdown has returned to each waiter

lvars == <<state, stopped, blocked, results>>

Serving == {"STARTED", "SHUTDOWN"}

Init ==
    /\ state = "INIT"
    /\ stopped = FALSE
    /\ blocked = [w \in Waiters |-> "no"]
    /\ results = [w \in Waiters |-> <<>>]

Move(from, to) == state = from /\ state' = to /\ UNCHANGED <<stopped, blocked, results>>

Start == Move("INIT", "STARTED")

StartFails == Move("STARTED", "ERROR")

Shutdown == Move("STARTED", "SHUTDOWN")

Stop == Move("SHUTDOWN", "STOPPED")

Release ==
    /\ state = "STOPPED" /\ ~stopped
    /\ stopped' = TRUE
    /\ UNCHANGED <<state, blocked, results>>

Return(w, r) ==
    /\ results' = [results EXCEPT ![w] = Append(@, r)]
    /\ blocked' = [blocked EXCEPT ![w] = "no"]
    /\ UNCHANGED <<state, stopped>>

\* A call made while the server is serving blocks, with or without timeout.
Block(w, how) ==
    /\ blocked[w] = "no" /\ state \in Serving
    /\ blocked' = [blocked EXCEPT ![w] = how]
    /\ UNCHANGED <<state, stopped, results>>

\* A call made while the server is not serving returns false at once.
ReturnFalse(w) == blocked[w] = "no" /\ state \notin Serving /\ Return(w, FALSE)

\* A blocked call returns true once shutdown has completed.
ReturnTrue(w) == blocked[w] # "no" /\ stopped /\ Return(w, TRUE)

\* A call with a timeout returns false if shutdown has not completed.
TimeOut(w) == blocked[w] = "timed" /\ ~stopped /\ Return(w, FALSE)

Next ==
    \/ Start \/ StartFails \/ Shutdown \/ Stop \/ Release
    \/ \E w \in Waiters :
          \/ \E how \in {"untimed", "timed"} : Block(w, how)
          \/ ReturnFalse(w) \/ ReturnTrue(w) \/ TimeOut(w)

\* A server asked to shut down stops, and then releases every blocked caller.
Spec ==
    /\ Init /\ [][Next]_lvars
    /\ WF_lvars(Stop) /\ WF_lvars(Release)
    /\ \A w \in Waiters : WF_lvars(ReturnTrue(w))

=============================================================================
