------------------------------- MODULE MCTick -------------------------------
(* Small instances of Tick: days of two instants, one notable event per     *)
(* constant e, and routine ones.                                            *)
EXTENDS Tick

\* The scheduler, `ingest` and `retry`, without the operator's compacts and
\* backfills (MCProgress has those).
Night ==
    \/ Advance
    \/ \E e \in Events, db \in Dbs : Log(e, db)
    \/ TickStarts \/ RetryStarts
    \/ \E k \in Keys : IngestStarts(k)
    \/ Steps
    \/ Kill

NightSpec == /\ Init /\ [][Night]_vars
             /\ WF_vars(Advance) /\ SF_vars(TickStarts) /\ WF_vars(Steps)
=============================================================================
