----------------------------- MODULE MCAgentCells -----------------------------
(* Two cells, one of an unauthorized task, asked at most twice; a run may  *)
(* be resumed with the second cell only, and a configuration whose counts  *)
(* disagree is refused.                                                    *)
EXTENDS AgentCells

CONSTANTS c1, c2

Modes == [c \in {c1, c2} |-> IF c = c1 THEN "thinking_high" ELSE "nonthinking"]

RunConfigs ==
  {[cells |-> <<c1, c2>>, expected |-> 2, maximum |-> 2],
   [cells |-> <<c2>>, expected |-> 1, maximum |-> 2],
   [cells |-> <<c1, c2>>, expected |-> 2, maximum |-> 1]}
=============================================================================
