--------------------------- MODULE MCRateLimiter ---------------------------
(* Small instances of RateLimiter: two callers, a minute of two ticks and a midnight     *)
(* (MCRateLimiter.cfg); three callers with requests as the scarce resource, so that      *)
(* reservations, debts and blocks pile up (MCRateLimiterPace.cfg).                       *)
EXTENDS RateLimiter, TLC

MCEstimates == {1, 3, 4}
MCActuals == {1, 4}
MCRetryAfters == {1, 3, None}
MCRemaining == {1, None}
MCUsed == {2, None}

\* Callers are interchangeable: nothing in the limiter names one.
Symmetry == Permutations(Threads)
=============================================================================
