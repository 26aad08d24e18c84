---------------------------- MODULE MCRetryPolicy ----------------------------
(* Small instances of RetryPolicy: configurations that make sense, that cap *)
(* the backoff at once, and that do not make sense.                         *)
EXTENDS RetryPolicy

ConfigsMC ==
    [maxAttempts : {-1, 0, 1, 4}, initial : {0, 3, 5, 40}, max : {-1, 5, 17},
     jitter : {-10, 0, 20, 150}, picky : BOOLEAN]
=============================================================================
