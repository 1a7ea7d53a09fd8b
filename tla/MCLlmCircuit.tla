--------------------------- MODULE MCLlmCircuit ---------------------------
(* Small instances of LlmCircuit: two providers, and enough requests to trip  *)
(* a circuit, probe it, and have a late answer to an older request.           *)
EXTENDS LlmCircuit, TLC

CONSTANTS c1, c2, c3, s1, openai, anthropic, none

MCCalls == {c1, c2, c3}
MCStream == {s1}
MCKeys == {openai, anthropic}

\* Everyone prefers openai; the last call has no registered fallback.
MCPrimary == [r \in Requests |-> openai]
MCFallback == [r \in Requests |-> IF r = c3 THEN none ELSE anthropic]
===========================================================================
