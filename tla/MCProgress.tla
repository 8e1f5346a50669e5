----------------------------- MODULE MCProgress -----------------------------
(***************************************************************************)
(* What must eventually happen, in the two components where cron starts    *)
(* commands again and again: a small instance of the analyst queue beside  *)
(* one of the tick, and beside them one of what such commands leave for    *)
(* the automation screens.  Each behaviour is a behaviour of one of them,  *)
(* under the fairness that component states, the others stand still.       *)
(***************************************************************************)
EXTENDS Integers, Sequences, Bags

CONSTANTS
    a1, onprem, NoOne,     \* an analyst host, the on-prem host
    database, event, Nothing  \* a database and an event of its log

VARIABLES
    component,             \* whose behaviour this is
    remote, seen, clone, step, asked, job, tries, folded, removed, period, failures,
    kills, scenario,
    now, log, known, digest, watermark, ledger, wiki, orphans, spent, cmd, pc, todo,
    key, t1, consolidate, before, held, got, upto, copy, opc, okey, ogot, oupto, ocopy,
    clock, starts, health, agents, live, watermarks, decided, did, deaths

queueing == <<remote, seen, clone, step, asked, job, tries, folded, removed, period,
              failures, kills, scenario>>
ticking == <<now, log, known, digest, watermark, ledger, wiki, orphans, spent, cmd, pc,
             todo, key, t1, consolidate, before, held, got, upto, copy, opc, okey, ogot,
             oupto, ocopy>>
recording == <<clock, starts, health, agents, live, watermarks, decided, did, deaths>>
vars == <<component, queueing, ticking, recording>>

\* One analyst, one of two requests, three periods; one failure and one kill.
Asked == {1, 2}
Hosts == {a1}
Killed == {[team |-> Hosts, requests |-> {1}, day |-> [r \in Asked |-> 1],
            until |-> 3, failures |-> 1, kills |-> 1]}
Queue == INSTANCE AnalystQueue WITH
    Requests <- Asked, Analysts <- Hosts, OnPrem <- onprem, Scenarios <- Killed,
    pc <- step, now <- period

\* One day of two instants, one compact and one backfill.
OneDb == {database}
OneEvent == {event}
Ticks == INSTANCE Tick WITH
    Dbs <- OneDb, Events <- OneEvent, Notable <- OneEvent, DayLength <- 2,
    LastInstant <- 1, MaxFailures <- 0, MaxKills <- 0, MaxCompacts <- 1,
    MaxBackfills <- 1, Unlogged <- Nothing

\* Three commands over a midnight, two ticks among them: the second
\* finds two databases, the others one; a retry that takes a database twice.
TickOrder == <<<<"db1">>, <<"db1", "db2">>, <<"db1">>>>
Calendar == <<2, 2, 3>>
FailedDigests == <<[db |-> "db1", day |-> 1], [db |-> "db1", day |-> 2]>>
OneResult == {[id |-> <<"stage", 1, "report", "analyst", 0>>, run |-> 1]}
Ends == {"compact", "skip", "ingest", "ingested"}
Midnights == {"none", "ingest"}
Budgets == [run |-> 1, report |-> 2, lint |-> 1]
Spans == {1, 2}
OneClosing == {[html |-> "(render failed)", alerted |-> {1}]}
Screens == INSTANCE AutomationScreens WITH
    Discovered <- TickOrder, Today <- Calendar, Digests <- FailedDigests,
    Results <- OneResult, DbEnds <- Ends, CatchUps <- Midnights, Closings <- OneClosing,
    StaleAfter <- Budgets, Hours <- Spans, MaxRuns <- 3, MaxTicks <- 2, MaxKills <- 1,
    ledger <- decided, kills <- deaths
Init ==
    /\ component \in {"queue", "tick", "events"}
    /\ Queue!Init /\ Ticks!Init /\ Screens!Init

InQueue(A) == component = "queue" /\ A /\ UNCHANGED <<component, ticking, recording>>
InTick(A) == component = "tick" /\ A /\ UNCHANGED <<component, queueing, recording>>
InScreens(A) == component = "events" /\ A /\ UNCHANGED <<component, queueing, ticking>>

\* After the last command there is nothing more to record.
Done == clock > 3 /\ live = Screens!NoRun /\ UNCHANGED recording

Next == InQueue(Queue!Next) \/ InTick(Ticks!Next) \/ InScreens(Screens!Next) \/ InScreens(Done)

\* The conjuncts of AnalystQueue!FairSpec and of Tick!FairSpec.
FairSpec ==
    /\ Init /\ [][Next]_vars
    /\ WF_vars(InQueue(a1 \in scenario.team /\ Queue!Claim(a1)))
    /\ WF_vars(InQueue(a1 \in scenario.team /\ Queue!Answer(a1)))
    /\ WF_vars(InQueue(Queue!Tick))
    /\ WF_vars(InQueue(Queue!Elapses))
    /\ WF_vars(InTick(Ticks!Advance))
    /\ SF_vars(InTick(Ticks!TickStarts))
    /\ WF_vars(InTick(Ticks!Steps))
    /\ WF_vars(InTick(Ticks!OperatorEmits \/ Ticks!OperatorMarks \/ Ticks!OperatorSaves))

----------------------------------------------------------------------------

\* Every request ends, or waits for a human (AnalystQueue).
EveryRequestEnds == Queue!EveryRequestEnds
\* While its day lasts, a notable event gets to the wiki (Tick).
TodayReachesTheWiki == Ticks!TodayReachesTheWiki
\* The automation screens tell what the commands did (AutomationScreens).
TheScreensTellTheTruth == component = "events" => Screens!TheScreensTellTheTruth
=============================================================================
