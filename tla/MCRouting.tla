----------------------------- MODULE MCRouting -----------------------------
(* Routing for TLC: three models of two providers, and the prices of          *)
(* lib/pricing.ts; one A/B variant has a weight that coerceAbConfig drops.    *)
EXTENDS Routing

MCPricing == [m \in {"gpt-4o", "gpt-4o-mini", "gemini-1.5-pro", "gemini-1.5-flash",
                     "claude-3-5-sonnet", "claude-3-5-haiku"} |->
                 CASE m = "gpt-4o" -> [inp |-> 5000, out |-> 15000]
                   [] m = "gpt-4o-mini" -> [inp |-> 150, out |-> 600]
                   [] m = "claude-3-5-sonnet" -> [inp |-> 3000, out |-> 15000]
                   [] m = "claude-3-5-haiku" -> [inp |-> 800, out |-> 4000]
                   [] m = "gemini-1.5-pro" -> [inp |-> 1250, out |-> 5000]
                   [] m = "gemini-1.5-flash" -> [inp |-> 75, out |-> 300]]
MCRules == [m \in {"gpt-4o", "gpt-4o-mini", "gemini-1.5-pro"} |->
               IF m = "gemini-1.5-pro" THEN "gemini" ELSE "openai"]
MCCandidates == <<"gpt-4o", "gemini-1.5-pro", "gpt-4o-mini">>
MCRawAb == << <<"gpt-4o", 1>>, <<"gpt-4o-mini", 0>>, <<"gemini-1.5-pro", 2>> >>
=============================================================================
