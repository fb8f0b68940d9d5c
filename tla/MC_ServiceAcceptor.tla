------------------------- MODULE MC_ServiceAcceptor -------------------------
(* Model values for checking ServiceAcceptor with TLC.                     *)
EXTENDS ServiceAcceptor

CONSTANTS s1, s2, w1, w2

MCShutdowners == {s1, s2}
MCWaiters == {w1, w2}
=============================================================================
