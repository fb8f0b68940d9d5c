------------------------- MODULE MC_RequestBuilder -------------------------
(* Instances of RequestBuilder for TLC: worker threads as model values.     *)
EXTENDS RequestBuilder

CONSTANTS w1, w2

MCWorkers == {w1, w2}

=============================================================================
