----------------------------- MODULE MCResearch -----------------------------
(* Two error pages, the first linked by more incidents.                    *)
EXTENDS ResearchPasses

CONSTANTS p1, p2

ErrorPages == {p1, p2}
FirstIsHotter == [p \in ErrorPages |-> IF p = p1 THEN 2 ELSE 1]
=============================================================================
