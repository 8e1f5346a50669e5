--------------------------- MODULE MCAnalystQueue ---------------------------
(* Small instances of AnalystQueue: two requests, of one day or of two.    *)
EXTENDS AnalystQueue, TLC

AnyAnalyst == Permutations(Analysts)

Scenario(team, requests, day, until, faults, killed) ==
    [team |-> team, requests |-> requests, day |-> day,
     until |-> until, failures |-> faults, kills |-> killed]
SameDay == [r \in Requests |-> 1]
TwoDays == [r \in Requests |-> r]

(* Two analysts race for the requests of a day; they are slower than the   *)
(* stale budget; one meets failures and a kill.                            *)
Race  == {Scenario(Analysts, Requests, SameDay, 0, 0, 0)}
Slow  == {Scenario(Analysts, {1}, SameDay, 2, 0, 0)}
Days  == {Scenario({a}, Requests, TwoDays, 1, 1, 1) : a \in Analysts}
AllOfThem == Race \cup Slow \cup Days

Killed == {Scenario(Analysts, {1}, SameDay, 3, 1, 2)}
=============================================================================
