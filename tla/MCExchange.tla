----------------------------- MODULE MCExchange -----------------------------
(* Small instances of Exchange.                                            *)
EXTENDS Exchange, TLC

OneOfEach == <<"ORA-00600", "ORA-00600", "oracle-docs">>
TwoPages == <<"ORA-00600", "ORA-04031">>

Scenario(team, pages, leaky, until, faults) ==
    [team |-> team, pages |-> pages, leaky |-> leaky, until |-> until,
     failures |-> faults, kills |-> faults]
AnyResearcher == Permutations(Researchers)

(* Two researchers that race and are slow; one with faults; a source page  *)
(* due as well, whose request leaks or does not.                           *)
FaultsAndRaces ==
    {Scenario(Researchers, {"ORA-00600"}, {}, 1, 0)}
    \cup UNION {{Scenario({a}, {"ORA-00600"}, {}, 2, 1),
                 Scenario({a}, Keys, {"oracle-docs"}, 0, 0),
                 Scenario({a}, Keys, {"ORA-00600"}, 0, 0)} : a \in Researchers}
KilledRound == {[Scenario(Researchers, Keys, {}, 0, 1) EXCEPT !.failures = 0]}
=============================================================================
