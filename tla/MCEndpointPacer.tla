--------------------------- MODULE MCEndpointPacer ---------------------------
(* Instances of EndpointPacer for TLC.  A tick is one second of the short      *)
(* windows and some minutes of the long one; the ratios of the windows to the  *)
(* longest wait are what matters.                                              *)
EXTENDS EndpointPacer, TLC

CONSTANTS t1, t2

EndpointNames == {"history", "orders", "performance"}
\* /iserver/marketdata/history has two limits at once, /iserver/account/orders one,
\* /pa/performance one with a window beyond the longest wait.
Endpoints ==
    ("history" :> {<<2, 1>>, <<3, 4>>}) @@ ("orders" :> {<<1, 3>>}) @@ ("performance" :> {<<1, 6>>})
\* _BASE_BACKOFF * 2 ** attempt
Doubling == [n \in 0..MaxRetries |-> 2 ^ n]
=============================================================================
