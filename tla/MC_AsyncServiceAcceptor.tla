---------------------- MODULE MC_AsyncServiceAcceptor ----------------------
(* Model values and bounds for checking AsyncServiceAcceptor with TLC.     *)
EXTENDS AsyncServiceAcceptor

CONSTANTS m1, m2, d1, d2, s1, s2, w1

MCMethods == {m1, m2}
MCOneMethod == {m1}
MCOneDispatcher == {d1}
MCTwoDispatchers == {d1, d2}
MCShutdowners == {s1, s2}
MCWaiters == {w1}
=============================================================================
