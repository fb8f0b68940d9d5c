----------------------------- MODULE LucidaRpc -----------------------------
(***************************************************************************)
(* The asynchronous client talking to the asynchronous server, as the test *)
(* SimpleAsyncClientAsyncServer (src/test/cpp/lucida/client_server.cpp)   *)
(* runs them: one thread starts an AsyncServiceAcceptor with the test      *)
(* handler (handler.cpp), the test thread starts an AsyncServiceConnector, *)
(* issues calls, waits on them and reads the responses, and only then      *)
(* shuts the server down.                                                  *)
(*                                                                         *)
(* Each side is its own module, taken here by INSTANCE:                    *)
(* AsyncServiceConnector as C and AsyncServiceAcceptor as S.  What the two *)
(* modules leave to "the runtime" is joined here: a client request        *)
(* reaches a listener of its method (Serve), the server's                  *)
(* responder_.Finish gives the client its answer (ServerReply, then        *)
(* ClientAnswer), and a request no server will take fails (ClientAnswer on *)
(* a request that was never served).                                       *)
(***************************************************************************)
EXTENDS Naturals, FiniteSets, Bags, BagsExt

CONSTANTS
    Callers, ClientShutdowners, ShutdownRepeat, FireAndForget, MaxStarts,
    Methods, Dispatchers, ServerShutdowners, MaxCalls, MaxTags, BuildMayFail,
    MethodOf,      \* the method each caller calls (inferAsync, learnAsync, ...)
    FinishingMethods \* the methods whose On<Method> handler calls Finish itself

ASSUME /\ MethodOf \in [Callers -> Methods]
       /\ FinishingMethods \subseteq Methods

VARIABLES
    \* AsyncServiceConnector (the client)
    starts, running, worker, ccq, qgen, cgen, alarms, errs, rc, live,
    pending, resolved, okv, wtimed, cpc, cspc, scount,
    \* AsyncServiceAcceptor (the server)
    state, start, cqState, serverDown, call, nextTag, scq, alarm, arrived,
    dpc, cur, sd, signalled, sspc, bpc, btimed, bres,
    \* the wire
    req      \* each caller's request: not sent, sent, served by a tag, answered

cvars == <<starts, running, worker, ccq, qgen, cgen, alarms, errs, rc, live,
           pending, resolved, okv, wtimed, cpc, cspc, scount>>
svars == <<state, start, cqState, serverDown, call, nextTag, scq, alarm,
           arrived, dpc, cur, sd, signalled, sspc, bpc, btimed, bres>>
vars == <<cvars, svars, req>>

C == INSTANCE AsyncServiceConnector
         WITH cq <- ccq, spc <- cspc, Shutdowners <- ClientShutdowners,
              ShutdownWhenIdle <- TRUE

S == INSTANCE AsyncServiceAcceptor
         WITH cq <- scq, spc <- sspc, Shutdowners <- ServerShutdowners,
              Waiters <- {}, Timed <- {FALSE}, TestOrder <- TRUE

NoTag == S!NoTag
Requests == [st : {"none", "sent", "replied", "answered"}, tag : {NoTag}]
              \cup [st : {"served"}, tag : S!Tags]

-----------------------------------------------------------------------------
(* Joint steps                                                             *)

\* xxxAsync: stub_->Asyncxxx sends the request as it creates the call.
ClientIssue(c) ==
    /\ C!Issue(c)
    /\ req' = [req EXCEPT ![c] = [st |-> "sent", tag |-> NoTag]]
    /\ UNCHANGED svars

\* The runtime matches the request with a listener the server armed for the
\* caller's method (listen_ with the call's address as tag).
Serve(c, t) ==
    /\ req[c].st = "sent"
    /\ call[t].m = MethodOf[c]
    /\ S!ClientArrives(t)
    /\ req' = [req EXCEPT ![c] = [st |-> "served", tag |-> t]]
    /\ UNCHANGED cvars

\* responder_.Finish completes: the response leaves the server.
ServerReply(t) ==
    /\ S!FinishCompletes(t)
    /\ req' = [c \in Callers |->
                 IF req[c].st = "served" /\ req[c].tag = t
                 THEN [st |-> "replied", tag |-> NoTag] ELSE req[c]]
    /\ UNCHANGED cvars

\* A request fails when no server will take it: Start has not built the
\* server (fail fast on a refused connection), it failed to, or the server
\* was shut down.
Unservable ==
    start \in {"idle", "locked", "failed"} \/ serverDown

\* The client's Finish completes on its queue, with the server's response or
\* the failure of an unserved request.
ClientAnswer(c) ==
    /\ req[c].st = "replied" \/ (req[c].st = "sent" /\ Unservable)
    /\ C!Respond(c)
    /\ req' = [req EXCEPT ![c] = [st |-> "answered", tag |-> NoTag]]
    /\ UNCHANGED svars

\* Proceed in PROCESS runs the test handler's On<Method>: OnCreate and
\* OnLearn call Finish, OnInfer only fills response_ and leaves the call to
\* the default Finish.
TestHandle(d) ==
    /\ S!Handle(d)
    /\ (call'[cur[d]].st = "FINISH") = (call[cur[d]].m \in FinishingMethods)

\* The test shuts the server down once it holds its answers.
ServerShutdownLock(s) ==
    /\ \A c \in Callers : cpc[c] \in {"idle", "done"}
    /\ S!ShutdownLock(s)

-----------------------------------------------------------------------------

Init == C!Init /\ S!Init /\ req = [c \in Callers |-> [st |-> "none", tag |-> NoTag]]

ClientCaller(c) ==
    \/ ClientIssue(c)
    \/ /\ \/ C!TakeWorkerRef(c) \/ C!RequestFinish(c) \/ C!Wait(c)
          \/ C!WaitReturn(c) \/ C!WaitTimeout(c) \/ C!Release(c)
       /\ UNCHANGED <<svars, req>>

ClientStart == C!Start /\ UNCHANGED <<svars, req>>
ClientWorker == C!Worker /\ UNCHANGED <<svars, req>>
ClientShutdown(s) == C!Shutdowner(s) /\ UNCHANGED <<svars, req>>

ServerDispatch(d) ==
    \/ TestHandle(d) /\ UNCHANGED <<cvars, req>>
    \/ /\ \/ S!InitListeners(d) \/ S!DispatchAlarm(d)
          \/ \E t \in S!Tags : S!DispatchOk(d, t) \/ S!DispatchFail(d, t)
          \/ S!FinishDefault(d) \/ S!LoopExit(d) \/ S!Stop(d) \/ S!Signal(d)
       /\ UNCHANGED <<cvars, req>>

ServerThreads ==
    /\ \/ S!StartLock \/ S!StartBuild
       \/ \E s \in ServerShutdowners : ServerShutdownLock(s) \/ S!ShutdownAlarm(s)
    /\ UNCHANGED <<cvars, req>>

ServerRuntime ==
    \/ \E t \in S!Tags : ServerReply(t)
    \/ \E t \in S!Tags : S!ListenCancelled(t) /\ UNCHANGED <<cvars, req>>

\* Both programs have finished: the client as C!Quiescent, the server's
\* threads have returned.
Quiescent ==
    /\ C!Quiescent
    /\ start = "failed" \/ \A d \in Dispatchers : dpc[d] = "done"
    /\ \A s \in ServerShutdowners : sspc[s] = "done"
    /\ UNCHANGED vars

Next ==
    \/ \E c \in Callers : ClientCaller(c) \/ ClientAnswer(c)
    \/ \E c \in Callers, t \in S!Tags : Serve(c, t)
    \/ ClientStart \/ ClientWorker \/ \E s \in ClientShutdowners : ClientShutdown(s)
    \/ \E d \in Dispatchers : ServerDispatch(d)
    \/ ServerThreads
    \/ ServerRuntime
    \/ Quiescent

\* The threads of both programs are scheduled, and the runtime delivers: a
\* sent request reaches an armed listener of its method, a finished
\* response reaches the client.
Fairness ==
    /\ WF_vars(ClientStart) /\ WF_vars(ClientWorker)
    /\ \A s \in ClientShutdowners : WF_vars(ClientShutdown(s))
    /\ \A c \in Callers : WF_vars(ClientCaller(c)) /\ WF_vars(ClientAnswer(c))
    /\ \A c \in Callers : WF_vars(\E t \in S!Tags : Serve(c, t))
    /\ \A d \in Dispatchers : WF_vars(ServerDispatch(d))
    /\ WF_vars(ServerThreads) /\ WF_vars(ServerRuntime)

Spec == Init /\ [][Next]_vars /\ Fairness

-----------------------------------------------------------------------------
(* Properties                                                              *)

TypeOK == C!TypeOK /\ S!TypeOK /\ req \in [Callers -> Requests]

\* The client's reference counting (C!RefCountSound) with the answers now
\* coming from the server.
RefCountSound == C!RefCountSound

\* No Start of the connector assigns cqThread_ over a joinable worker.
NoLiveThreadReplaced == C!NoLiveThreadReplaced

\* The server never stops with a request it accepted still unanswered: a
\* call that reached a listener has had its response sent by the time
\* HandleRpcs sets STOPPED, whether or not the handler called Finish.
NoRequestAbandoned ==
    state = "STOPPED" => \A c \in Callers : req[c].st # "served"

\* End to end: a caller blocked in Wait(0) gets its answer.  The server
\* must take the request (a listener of its method is re-armed for every
\* call it dispatches), the handler and the default Finish must reply, and
\* the client worker must resolve the call; the server is shut down only
\* after the test has its answers, so nothing else unblocks the caller.
CallAnswered ==
    \A c \in Callers : cpc[c] = "waiting" /\ ~wtimed[c] ~> cpc[c] = "got"

=============================================================================
