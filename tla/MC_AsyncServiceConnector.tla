---------------------- MODULE MC_AsyncServiceConnector ----------------------
(* Instances of AsyncServiceConnector for TLC: callers and Shutdown()      *)
(* threads as model values.                                                *)
EXTENDS AsyncServiceConnector

CONSTANTS c1, c2, s1, s2

MCCallers == {c1, c2}
MCOneShutdowner == {s1}
MCTwoShutdowners == {s1, s2}

=============================================================================
