------------------------------- MODULE MCTier -------------------------------
(* Requests of two turns: the first turn also with a prompt that has grown *)
(* beyond what smaller models take, and with no fallback allowed.          *)
EXTENDS TierJudgment

CONSTANTS a1, a2, u1, u2

Short(u)   == [state |-> u, bounded |-> FALSE, floor |-> 0, structural |-> 1]
Grown(u)   == [Short(u) EXCEPT !.floor = 2, !.structural = 2]
Bounded(u) == [Short(u) EXCEPT !.bounded = TRUE]

Turns == {Short(u1), Short(u2), Grown(u1), Bounded(u1)}

Said(n, sure, reasoning) == [choice |-> n, sure |-> sure, reasoning |-> reasoning]

Opinions == {Said(0, TRUE, "weak"), Said(1, FALSE, "weak"), Said(0, TRUE, "strong"),
             Said(0, TRUE, "very")}
=============================================================================
