---------------------------- MODULE MCLlmClient ----------------------------
(* A small instance of LlmClient: three attempts, and a retry-after of nothing, at the   *)
(* longest wait and beyond it, the backoff's ceiling below the longest wait.             *)
EXTENDS LlmClient

MCRetryAfters == {0, 2, 3}
=============================================================================
