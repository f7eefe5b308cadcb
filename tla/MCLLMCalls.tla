----------------------------- MODULE MCLLMCalls -----------------------------
(* LLMBudgets: two threads of one process share the semaphore, the quota latch  *)
(* and what was learnt of the endpoint, with calls of one attempt.              *)
(* LLMRetries: one thread, with the four attempts and the limit of three 5xx of *)
(* the code, a fallback model and an endpoint that refuses both parameters.     *)
EXTENDS LLMCalls

TwoThreads == {"a", "b"}
OneThread == {"a"}
OneProcess == {"p"}
AtHome == [t \in TwoThreads |-> "p"]
OneAtHome == [t \in OneThread |-> "p"]
OneKey == {"k"}
BothParams == {"json", "temperature"}
StreamedParams == {"temperature"}
=============================================================================
