------------------------- MODULE AutomationScreens -------------------------
(***************************************************************************)
(* The three screens the portal draws from the logs under .state           *)
(* (portal/api.py runs, run and agents, portal/wire.py): the list of runs, *)
(* one run, what the agents did lately.  Nothing here writes.  The wiki    *)
(* half of the agents screen is ReadModel's; the ledger's backlog and the  *)
(* recurring failures on the list are left out.                            *)
(***************************************************************************)
EXTENDS RunEvents

CONSTANTS
    StaleAfter,     \* task -> health.stage_stale_hours
    Hours           \* what a page asks the agents screen for

AgentMaxHours == 2          \* AGENT_MAX_HOURS, 90 days
NoAnswer == "404 unknown_run"
Refused == "400 bad_hours"

----------------------------------------------------------------------------
(* What all three are made of.                                             *)

\* Coverage: a log at its cap says that it has lost lines.
Coverage(log, cap) ==
    [lines |-> Len(log), cap |-> cap,
     oldest |-> IF log = <<>> THEN 0 ELSE Min({log[i].at : i \in DOMAIN log}),
     newest |-> IF log = <<>> THEN 0 ELSE Max({log[i].at : i \in DOMAIN log}),
     truncated |-> Len(log) >= cap]
LogCoverage ==
    [run_health |-> Coverage(health, MaxEvents),
     agent_runs |-> Coverage(agents, MaxAgentEvents),
     run_starts |-> Coverage(starts, MaxRunStartEvents)]

\* _children_by_run: what shares a run's id, whenever it was recorded.
Children(evs, kind, run) == {e \in OfKind(evs, kind) : e.run = run}

\* _run_head: one count for the list, the run's own screen and the compare
\* column.
RunHead(run, dbs) ==
    [run |-> run.run, command |-> run.command, started |-> run.at,
     outcome |-> IF run.kind = "start" THEN "" ELSE run.outcome,
     ingested |-> Cardinality({d \in dbs : d.outcome = "ingested"}),
     skipped |-> Cardinality({d \in dbs : d.decision = "skip"})]

----------------------------------------------------------------------------
(* The list: GET /api/runs.                                                *)

\* FRESHNESS_PROOF: what a run must show for a task to count as having run.
Proves(task, run, dbs) ==
    \/ task = "run" /\ \E d \in dbs : d.decision # None
    \/ task = "report" /\ run.facts.report = "written"
    \/ task = "lint" /\ run.command = "lint" /\ run.outcome = "ok"

\* _freshness: a task that no run proves is never stale.
Freshness(evs) ==
    [task \in DOMAIN StaleAfter |->
        LET proofs == {run.at : run \in {run \in OfKind(evs, "run") :
                                            Proves(task, run, Children(evs, "db_run", run.run))}}
            at == IF proofs = {} THEN 0 ELSE Max(proofs)
        IN [at |-> at, stale |-> at # 0 /\ clock - at > StaleAfter[task]]]

RunRow(evs, run) ==
    LET dbs == Children(evs, "db_run", run.run)
    IN RunHead(run, dbs) @@ [stages |-> Timeline(run, dbs)]

Runs(evs) ==
    [coverage |-> LogCoverage, freshness |-> Freshness(evs),
     runs |-> {RunRow(evs, run) : run \in OfKind(evs, "run")},
     pending |-> {e.run : e \in Pending(evs)}, trend |-> Days(evs)]

----------------------------------------------------------------------------
(* One run: GET /api/run.                                                  *)

\* _newest_by_digest: the one run the ledger's last decision may speak for.
NewestByDigest(evs, db, day) ==
    Max({e.run : e \in {e \in OfKind(evs, "db_run") : e.db = db /\ e.day = day}})

\* Mutant: the ledger's reasoning on every run that touched the digest.
EvidenceAnyway(evs, row) ==
    IF row.decision = None \/ <<row.db, row.day>> \notin DOMAIN ledger THEN 0
    ELSE ledger[<<row.db, row.day>>]

\* The evidence behind a row's reasons, named by the run whose decision it is;
\* 0 for none.
Evidence(evs, row) ==
    IF \/ row.decision = None \/ <<row.db, row.day>> \notin DOMAIN ledger
       \/ NewestByDigest(evs, row.db, row.day) # row.run
    THEN 0 ELSE ledger[<<row.db, row.day>>]

\* The usage of the newest ingest stage of the database in the run; an
\* unknown one is never a zero.
UsageOf(row) ==
    LET lines == {i \in DOMAIN agents : /\ agents[i].run = row.run /\ agents[i].db = row.db
                                        /\ agents[i].task = "ingest"}
        newest == agents[Max(lines)]
    IN IF lines = {} THEN [measured |-> FALSE]
       ELSE [measured |-> TRUE, known |-> newest.known, tokens |-> newest.tokens]

DbRun(evs, row) ==
    [id |-> row.id, db |-> row.db, day |-> row.day, decision |-> row.decision,
     outcome |-> row.outcome, evidence |-> Evidence(evs, row), usage |-> UsageOf(row)]

\* _compare: the run before, counted as its own screen counts it.
Compare(evs, run) ==
    {RunHead(p, Children(evs, "db_run", p.run))
        @@ [totals |-> Totals(SelectSeq(evs, LAMBDA e : e.run = p.run))] :
        p \in PreviousRun(evs, run)}

Run(evs, run) ==
    LET found == IF \E e \in OfKind(evs, "run") : e.run = run THEN "run" ELSE "start"
        lines == Children(evs, found, run)
        head == CHOOSE e \in lines : TRUE
        dbs == Children(evs, "db_run", run)
    IN IF lines = {} THEN [answer |-> NoAnswer]
       ELSE [answer |-> "run", run |-> RunHead(head, dbs), stages |-> Timeline(head, dbs),
             dbs |-> {DbRun(evs, d) : d \in dbs},
             totals |-> Totals(SelectSeq(evs, LAMBDA e : e.run = run)),
             compare |-> Compare(evs, head)]

----------------------------------------------------------------------------
(* The agents: GET /api/agents.                                            *)

\* tick_json: the span of a tick is its stages', its command "" once neither
\* its RUN nor its START line is held.
TickRow(evs, run, stages) ==
    LET named == {e.command : e \in Children(evs, "run", run) \cup Children(evs, "start", run)}
    IN [run |-> run, command |-> IF named = {} THEN "" ELSE CHOOSE c \in named : TRUE,
        started |-> Min({s.at : s \in stages}), finished |-> Max({s.at : s \in stages}),
        totals |-> Totals(SetToSeq(stages))]

\* by_model: one row for each model, of the stages that named it.
ByModel(stages) ==
    {LET same == {s \in stages : s.model = model}
     IN [model |-> model, ok |-> Cardinality({s \in same : s.ok}),
         failed |-> Cardinality({s \in same : ~s.ok}), totals |-> Totals(SetToSeq(same))] :
        model \in {s.model : s \in stages}}

Agents(evs, hours) ==
    LET inside == {s \in OfKind(evs, "stage") : s.at >= clock - hours}
    IN IF hours \notin 1..AgentMaxHours THEN [answer |-> Refused]
       ELSE [answer |-> "agents", coverage |-> LogCoverage,
             ticks |-> {TickRow(evs, run, {s \in inside : s.run = run}) :
                            run \in {s.run : s \in inside}},
             models |-> ByModel(inside), totals |-> Totals(SetToSeq(inside))]

----------------------------------------------------------------------------
(* What the screens must tell.                                             *)

Ended == {r \in DOMAIN did : did[r].ended}
Ends(r) == did[r].ends
\* Which of the run's databases the digest is, of today or of yesterday.
Tried(end) == end \in {"ingest", "ingested"}
Decides(r, db, day) ==
    \E i \in DOMAIN Ends(r) :
        /\ Discovered[r][i] = db
        /\ \/ day = Today[r] /\ Ends(r)[i] # "compact"
           \/ day = Today[r] - 1 /\ did[r].caught[i] \notin Undecided
CaughtUp(r, db, day) == Decides(r, db, day) /\ day # Today[r]

\* The list: a run that ended is on it, with the counts of what it did, or
\* the coverage says that lines are gone; a task is as fresh as the last run
\* that did it, or unknown because that run is gone.
TheListTellsTheTruth(evs) ==
    LET list == Runs(evs)
        gone == list.coverage.run_health.truncated
        did_it(task) ==
            {r \in Ended : \/ task = "run" /\ \E i \in DOMAIN Ends(r) : Ends(r)[i] # "compact"
                           \/ task = "report" /\ did[r].report = "written"
                           \/ task = "lint" /\ did[r].command = "lint" /\ ~did[r].failed}
    IN /\ \A r \in Ended : gone \/ \E row \in list.runs : row.run = r
       /\ \A row \in list.runs :
             /\ row.run \in Ended
             /\ row.command = "run" =>
                   /\ row.ingested = Cardinality({i \in DOMAIN Ends(row.run) :
                                                     Ends(row.run)[i] = "ingested"})
                   /\ row.skipped = Cardinality({i \in DOMAIN Ends(row.run) :
                                                    Ends(row.run)[i] \in {"skip", "record"}})
       /\ \A task \in DOMAIN StaleAfter :
             LET row == list.freshness[task]
             IN IF row.at = 0 THEN (did_it(task) # {} => gone) /\ ~row.stale
                ELSE row.at = Max(did_it(task))

\* One run: known while either log holds it; its reasons are backed by its
\* own decision, or by that of a later tick that was killed or that caught
\* the digest up after midnight, never by an earlier one's, and are backed
\* as long as nothing later took the digest up; a measured use of tokens is
\* one of its database's.
TheRunTellsTheTruth(evs) ==
    \A r \in DOMAIN did :
        LET answer == Run(evs, r)
            lost == LogCoverage.agent_runs.truncated
        IN /\ answer.answer = NoAnswer => LogCoverage.run_starts.truncated
           /\ answer.answer # NoAnswer /\ did[r].command = "run" => \A row \in answer.dbs :
                 LET i == CHOOSE i \in DOMAIN Ends(r) : Discovered[r][i] = row.db
                 IN /\ row.evidence # 0 =>
                         \/ row.evidence = r
                         \/ /\ row.evidence > r
                            /\ \/ row.evidence \notin Ended
                               \/ CaughtUp(row.evidence, row.db, row.day)
                    /\ /\ row.decision # None
                       /\ \A later \in DOMAIN did :
                             later > r => /\ ~Decides(later, row.db, row.day)
                                          /\ did[later].command # "retry"
                       => row.evidence = r
                    /\ row.usage.measured => Tried(Ends(r)[i]) \/ Tried(did[r].caught[i])
                    /\ Tried(Ends(r)[i]) /\ ~lost =>
                          row.usage.measured /\ row.usage.known = (Ends(r)[i] = "ingested")
           /\ answer.answer # NoAnswer => \A before \in answer.compare :
                 /\ before.run < r /\ before.command = did[r].command
                 /\ \A other \in Ended : other < r /\ other > before.run
                                          => did[other].command # did[r].command

\* The agents: each stage recorded within the window is on one tick and
\* under one model, so the three sums are one sum; a folded answer is on the
\* tick that asked for it; a tick loses its name only when its lines are gone.
SumOf(rows, of(_)) == FoldSet(LAMBDA row, sum : of(row) + sum, 0, rows)
TheAgentsTellTheTruth(evs) ==
    \A hours \in Hours :
        LET answer == Agents(evs, hours)
        IN answer.answer # Refused =>
              /\ answer.totals.stages =
                    Len(SelectSeq(agents, LAMBDA line : line.at >= clock - hours))
              /\ SumOf(answer.ticks, LAMBDA t : t.totals.stages) = answer.totals.stages
              /\ SumOf(answer.models, LAMBDA m : m.totals.stages) = answer.totals.stages
              /\ SumOf(answer.models, LAMBDA m : m.ok + m.failed) = answer.totals.stages
              /\ SumOf(answer.ticks, LAMBDA t : t.totals.tokens) = answer.totals.tokens
              /\ SumOf(answer.models, LAMBDA m : m.totals.tokens) = answer.totals.tokens
              /\ \A t \in answer.ticks :
                    /\ t.run <= t.started
                    /\ t.command \in {"", did[t.run].command}
                    /\ t.command = "" => answer.coverage.run_starts.truncated

\* Between commands: one that is killed at a step leaves what the screens
\* read while it is there.
TheScreensTellTheTruth ==
    live = NoRun =>
        LET evs == LoadEvents
        IN /\ ThePageTellsTheTruth
           /\ TheListTellsTheTruth(evs) /\ TheRunTellsTheTruth(evs) /\ TheAgentsTellTheTruth(evs)
=============================================================================
