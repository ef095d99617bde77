--------------------------- MODULE MCLlmGateway ---------------------------
(* A small instance of LlmGateway: three calls of two questions, and one restart.        *)
EXTENDS LlmGateway, TLC

\* Nothing in the gateway names a call or a question.
Symmetry == Permutations(Calls) \cup Permutations(Questions)
=============================================================================
