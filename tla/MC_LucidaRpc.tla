---------------------------- MODULE MC_LucidaRpc ----------------------------
(* Instances of LucidaRpc for TLC: callers, threads and methods as model   *)
(* values.                                                                 *)
EXTENDS LucidaRpc

CONSTANTS c1, cs1, ss1, d1, infer

MCCallers == {c1}
MCClientShutdowners == {cs1}
MCServerShutdowners == {ss1}
MCDispatchers == {d1}
MCMethods == {infer}
\* The test calls inferAsync; OnInfer leaves Finish to the default.
MCMethodOf == [c \in MCCallers |-> infer]
MCFinishing == {}
=============================================================================
