----------------------------- MODULE RunEvents -----------------------------
(***************************************************************************)
(* What a command leaves in the three logs under .state while it runs      *)
(* (run_recorder and its callers in cli.py, health.py) and what the portal *)
(* reads back from them (events.py, portal/api.py): which runs are         *)
(* pending, how each stage of a tick went, what was spent, and why a       *)
(* database was woken.                                                     *)
(*                                                                         *)
(* Commands hold the single-flight lock, one at a time; one may be killed  *)
(* at any step, and then its only trace is its START line and the agent    *)
(* stages it had recorded.  Every log drops its oldest lines at its cap.   *)
(***************************************************************************)
EXTENDS Integers, Sequences, FiniteSets, SequencesExt, FiniteSetsExt, Functions

CONSTANTS
    Discovered,     \* run -> the databases it discovers, in order
    Today,          \* run -> the day it runs on
    Digests,        \* [db, day]: the failed digests a retry takes, in order
    Results,        \* analyst results: [id, run]; run is an earlier run's
    DbEnds,         \* how a database's share of a tick may end
    CatchUps,       \* how the catch-up of its yesterday may end
    Closings,       \* [html, alerted]: what rendering and alerting may leave
    MaxRuns,        \* commands (bound)
    MaxTicks,       \* ticks among them (bound)
    MaxKills        \* (bound)

VARIABLES
    clock,          \* commands started so far: the next run id and its instant
    starts,         \* elk/run_starts.jsonl
    health,         \* run_health.jsonl
    agents,         \* agent_runs.jsonl
    live,           \* the command under way: RunRecord and where it is
    watermarks,     \* db -> the day it was last compacted on
    ledger,         \* <<db, day>> -> the run whose last_decision the digest's entry holds
    did,            \* run -> what it really did (the model's own memory)
    kills

vars == <<clock, starts, health, agents, live, watermarks, ledger, did, kills>>
kept == <<watermarks, ledger>>

MaxEvents == 2              \* MAX_EVENTS, 2000
MaxRunStartEvents == 2      \* MAX_RUN_START_EVENTS, 2000
MaxAgentEvents == 5         \* MAX_AGENT_EVENTS, 5000
NoRun == [pc |-> "none"]
None == "none"

----------------------------------------------------------------------------
(* Recording.                                                              *)

\* _append_capped: the newest lines up to the cap.
Appended(log, line, cap) ==
    LET all == Append(log, line) IN SubSeq(all, Max({1, Len(all) - cap + 1}), Len(all))

\* RunRecord.fail and to_event.
Failed(record) == [record EXCEPT !.outcome = "failed"]
EventOf(record) ==
    [run |-> record.run, command |-> record.command, at |-> record.at,
     outcome |-> record.outcome, dbs |-> record.dbs, facts |-> record.facts]

NoFacts == [report |-> None, html |-> None, alerted |-> {}]

\* run_recorder: the start line first.
Start(command) ==
    /\ live = NoRun /\ clock <= MaxRuns
    /\ command = "run" =>
          Cardinality({r \in DOMAIN did : did[r].command = "run"}) < MaxTicks
    /\ clock' = clock + 1
    /\ starts' = Appended(starts, [run |-> clock, command |-> command, at |-> clock],
                          MaxRunStartEvents)
    /\ live' = [pc |-> "dbs", run |-> clock, command |-> command, at |-> clock,
                outcome |-> "ok", dbs |-> <<>>, facts |-> NoFacts]
    /\ did' = [r \in DOMAIN did \cup {clock} |->
                 IF r = clock THEN [command |-> command, ends |-> <<>>, caught |-> <<>>,
                                    report |-> None, ended |-> FALSE, failed |-> FALSE]
                 ELSE did[r]]
    /\ UNCHANGED <<health, agents, kept, kills>>

\* record_agent_run: a line for every attempted stage, failed ones too.
StageLine(task, db, ok, n) ==
    [id |-> <<"stage", live.run, task, db, n>>, run |-> live.run, at |-> live.at, task |-> task, db |-> db,
     ok |-> ok, model |-> task, tokens |-> IF ok THEN 1 ELSE 0, known |-> ok]

\* fold_results, through known_agent_event_ids: a result's line once, under
\* the run that asked for it.
KnownAgentEventIds == {agents[i].id : i \in DOMAIN agents}
Fold(result) ==
    /\ live.pc = "dbs" /\ live.command = "run" /\ live.dbs = <<>>
    /\ result.id \notin KnownAgentEventIds /\ result.run < live.run
    /\ agents' = Appended(agents, [id |-> result.id, run |-> result.run, at |-> live.at,
                                   task |-> "report", db |-> "", ok |-> TRUE,
                                   model |-> "analyst", tokens |-> 1, known |-> TRUE], MaxAgentEvents)
    /\ UNCHANGED <<clock, starts, health, live, kept, did, kills>>

\* The facts run_one_db and _db_failed leave for a database:
\*   compact      compaction raised before there was a decision
\*   record       the decision was to skip, writing it down raised
\*   skip         the trigger skipped it
\*   ingest       the agent stage raised
\*   unchanged    ingest had this content already
\*   ingested     it is in the wiki
Facts(db, end) ==
    [db |-> db, day |-> IF end = "compact" THEN 0 ELSE Today[live.run],
     decision |-> CASE end = "compact" -> None [] end \in {"skip", "record"} -> "skip"
                    [] OTHER -> "ingest",
     outcome |-> CASE end = "ingested" -> "ingested" [] end = "unchanged" -> "skipped"
                   [] OTHER -> None,
     error |-> end \in {"compact", "record", "ingest"}]

\* _catch_up, after midnight: yesterday's digest once more, decided anew.
\*   none         today's midnight was reached already
\*   compact      it raised before there was a decision
\*   skip         the trigger skipped it
\*   ingest       the agent stage raised
\*   ingested     it is in the wiki
Overdue(db) == db \in DOMAIN watermarks /\ watermarks[db] < Today[live.run]
CatchesUp(db, caught) == caught # "none" <=> Overdue(db)
Undecided == {"none", "compact"}
Noted(day, db, end) ==
    IF end \in Undecided THEN <<>> ELSE <<db, day>> :> live.run
Staged(db, end, n) ==
    IF end \in {"ingest", "ingested"} THEN <<StageLine("ingest", db, end = "ingested", n)>>
    ELSE <<>>

\* A failed catch-up fails the run, not the database's entry, and holds the
\* watermark back.
NextDb(end, caught) ==
    /\ live.pc = "dbs" /\ live.command = "run" /\ Len(live.dbs) < Len(Discovered[live.run])
    /\ LET db == Discovered[live.run][Len(live.dbs) + 1]
           today == Today[live.run]
           entry == Facts(db, end)
           failed == caught \in {"compact", "ingest"}
           noted == [live EXCEPT !.dbs = Append(@, entry)]
       IN /\ CatchesUp(db, caught)
          /\ live' = IF entry.error \/ failed THEN Failed(noted) ELSE noted
          /\ agents' = FoldLeft(LAMBDA log, line : Appended(log, line, MaxAgentEvents),
                                agents, Staged(db, caught, 1) \o Staged(db, end, 0))
          /\ watermarks' = IF end = "compact" \/ failed THEN watermarks
                           ELSE db :> today @@ watermarks
          /\ ledger' = Noted(today, db, end) @@ Noted(today - 1, db, caught) @@ ledger
          /\ did' = [did EXCEPT ![live.run].ends = Append(@, end),
                                ![live.run].caught = Append(@, caught),
                                ![live.run].failed = @ \/ entry.error \/ failed]
    /\ UNCHANGED <<clock, starts, health, kills>>

\* cmd_retry: one entry per digest, so a database may come twice; an attempt
\* without a decision leaves the digest's ledger entry without one.
NextRetry(ok) ==
    /\ live.pc = "dbs" /\ live.command = "retry" /\ Len(live.dbs) < Len(Digests)
    /\ LET next == Digests[Len(live.dbs) + 1]
           noted == [live EXCEPT !.dbs = Append(@,
                        [db |-> next.db, day |-> next.day, decision |-> None,
                         outcome |-> IF ok THEN "ingested" ELSE "failed", error |-> FALSE])]
       IN /\ live' = IF ok THEN noted ELSE Failed(noted)
          /\ agents' = Appended(agents, StageLine("ingest", next.db, ok, Len(live.dbs)),
                                MaxAgentEvents)
          /\ ledger' = Restrict(ledger, DOMAIN ledger \ {<<next.db, next.day>>})
          /\ did' = [did EXCEPT ![live.run].failed = @ \/ ~ok]
    /\ UNCHANGED <<clock, starts, health, watermarks, kills>>

\* _report_run, when something was ingested; its failure is contained.
Ingested == {i \in DOMAIN live.dbs : live.dbs[i].outcome \in {"ingested", "skipped"}}
Report(ok) ==
    /\ live.pc = "dbs" /\ live.command = "run" /\ Len(live.dbs) = Len(Discovered[live.run])
    /\ LET told == [live EXCEPT !.pc = "render", !.facts.report = IF ok THEN "written" ELSE "failed"]
       IN IF Ingested = {} THEN ok /\ live' = [live EXCEPT !.pc = "render"] /\ UNCHANGED <<agents, did>>
          ELSE /\ live' = IF ok THEN told ELSE Failed(told)
               /\ agents' = Appended(agents, StageLine("report", "", ok, 0), MaxAgentEvents)
               /\ did' = [did EXCEPT ![live.run].report = IF ok THEN "written" ELSE "failed",
                                     ![live.run].failed = @ \/ ~ok]
    /\ UNCHANGED <<clock, starts, health, kept, kills>>

\* render_html and _alerts never fail the run; an alerting that raises, or
\* is off, leaves no count.
Closes(html, alerted) ==
    /\ live.pc = "render"
    /\ live' = [live EXCEPT !.pc = "end", !.facts.html = html, !.facts.alerted = alerted]
    /\ UNCHANGED <<clock, starts, health, agents, kept, did, kills>>

\* The end of run_recorder: the finish line, whatever escaped.
Finish(raised) ==
    /\ \/ live.pc = "end" /\ ~raised
       \/ live.pc = "dbs" /\ live.command = "retry" /\ Len(live.dbs) = Len(Digests) /\ ~raised
       \/ live.pc = "dbs" /\ live.command \notin {"run", "retry"}
       \/ live.pc = "dbs" /\ live.dbs = <<>> /\ raised
    /\ health' = Appended(health, EventOf(IF raised THEN Failed(live) ELSE live), MaxEvents)
    /\ did' = [did EXCEPT ![live.run].ended = TRUE, ![live.run].failed = @ \/ raised]
    /\ live' = NoRun
    /\ UNCHANGED <<clock, starts, agents, kept, kills>>

Kill ==
    /\ live # NoRun /\ kills < MaxKills
    /\ live' = NoRun /\ kills' = kills + 1
    /\ UNCHANGED <<clock, starts, health, agents, kept, did>>

Init ==
    /\ clock = 1 /\ starts = <<>> /\ health = <<>> /\ agents = <<>>
    /\ live = NoRun /\ watermarks = <<>> /\ ledger = <<>> /\ did = <<>> /\ kills = 0

Next ==
    \/ \E command \in {"run", "retry", "lint"} : Start(command)
    \/ \E result \in Results : Fold(result)
    \/ \E end \in DbEnds, caught \in CatchUps : NextDb(end, caught)
    \/ \E ok \in BOOLEAN : NextRetry(ok) \/ Report(ok) \/ Finish(ok)
    \/ \E last \in Closings : Closes(last.html, last.alerted)
    \/ Kill

Spec == Init /\ [][Next]_vars

----------------------------------------------------------------------------
(* Reading: load_events.                                                   *)

\* _fanout_id: by database, by the day of its digest where a database comes
\* twice, by its position as a last resort.
RECURSIVE FanoutIds(_, _, _)
FanoutIds(line, i, taken) ==
    IF i > Len(line.dbs) THEN <<>>
    ELSE LET entry == line.dbs[i]
             options == <<<<"db", line.run, entry.db, 0, 0>>>>
                        \o (IF entry.day # 0 THEN <<<<"db", line.run, entry.db, entry.day, 0>>>> ELSE <<>>)
                        \o <<<<"db", line.run, entry.db, 0, i>>>>
             free == SelectSeq(options, LAMBDA o : o \notin taken)
         IN <<free[1]>> \o FanoutIds(line, i + 1, taken \cup {free[1]})

\* _run_events, _stage_events, _start_events.
RunEvent(line) == line @@ [kind |-> "run", id |-> <<"run", line.run, "", "", 0>>]
DbEvents(line) ==
    [i \in DOMAIN line.dbs |->
        line.dbs[i] @@ [kind |-> "db_run", id |-> FanoutIds(line, 1, {})[i], run |-> line.run,
                        at |-> line.at, command |-> line.command]]
LoadEvents ==
    FlattenSeq([i \in DOMAIN health |-> <<RunEvent(health[i])>> \o DbEvents(health[i])])
    \o [i \in DOMAIN agents |-> agents[i] @@ [kind |-> "stage"]]
    \o [i \in DOMAIN starts |-> starts[i] @@ [kind |-> "start", id |-> <<"start", starts[i].run, "", "", 0>>]]

OfKind(evs, kind) == {evs[i] : i \in {i \in DOMAIN evs : evs[i].kind = kind}}

\* pending: started and never finished, as far as the logs go.
Pending(evs) ==
    {e \in OfKind(evs, "start") : \A r \in OfKind(evs, "run") : r.run # e.run}

\* previous_run: the run before of the same command.
PreviousRun(evs, run) ==
    LET earlier == {e \in OfKind(evs, "run") : e.command = run.command /\ e.run # run.run
                                                /\ e.at < run.at}
    IN {e \in earlier : \A f \in earlier : f.at <= e.at}

\* totals: unknown tokens are not a number, and not added up.
Totals(evs) ==
    LET stages == OfKind(evs, "stage")
        counted == {e \in stages : e.known}
    IN [stages |-> Cardinality(stages), counted |-> Cardinality(counted),
        tokens |-> FoldSet(LAMBDA e, sum : e.tokens + sum, 0, counted)]

\* days: one row for each day from the first to the last, empty ones too.
Days(evs) ==
    LET at == {evs[i].at : i \in DOMAIN evs}
    IN IF at = {} THEN <<>>
       ELSE [d \in 1..Max(at) - Min(at) + 1 |->
                LET same == SelectSeq(evs, LAMBDA e : e.at = Min(at) + d - 1)
                    runs == OfKind(same, "run")
                IN [runs |-> Cardinality(runs),
                    failed |-> Cardinality({e \in runs : e.outcome = "failed"}),
                    totals |-> Totals(same)]]

----------------------------------------------------------------------------
(* Reading: the timeline of one run.                                       *)

TickStage(run) == IF run.outcome = "ok" THEN "succeeded" ELSE "failed"

\* _discover_stage: an error without a decision died in compaction.
Broken(dbs) == {d \in dbs : d.error /\ d.decision = None}
DiscoverStage(dbs) ==
    IF dbs = {} THEN "skipped" ELSE IF Broken(dbs) # {} THEN "failed" ELSE "succeeded"
DecideStage(dbs) ==
    IF \E d \in dbs : d.decision # None THEN "succeeded" ELSE "skipped"

\* _ingest_stage.
Attempted(dbs) ==
    {d \in dbs : \/ d.outcome \in {"ingested", "skipped"}
                 \/ d.error /\ d.decision \notin {None, "skip"}}
IngestStage(dbs) ==
    LET attempted == Attempted(dbs)
        failed == {d \in attempted : d.error}
    IN IF attempted = {} THEN "skipped"
       ELSE IF failed = attempted THEN "failed"
       ELSE IF failed # {} THEN "warning" ELSE "succeeded"

ReportStage(run) ==
    CASE run.facts.report = "written" -> "succeeded"
      [] run.facts.report = "failed" -> "failed"
      [] OTHER -> "skipped"
RenderStage(run) ==
    CASE run.facts.html = None -> "skipped"
      [] run.facts.html = "(render failed)" -> "warning"
      [] OTHER -> "succeeded"
AlertsStage(run) == IF run.facts.alerted = {} THEN "skipped" ELSE "succeeded"

\* timeline: always all of its stages; other commands have only the first.
Timeline(run, dbs) ==
    IF run.kind = "start" THEN [tick |-> "pending", discover |-> "pending", decide |-> "pending",
                                ingest |-> "pending", report |-> "pending",
                                render |-> "pending", alerts |-> "pending"]
    ELSE IF run.command # "run"
    THEN [tick |-> TickStage(run), discover |-> "skipped", decide |-> "skipped",
          ingest |-> "skipped", report |-> "skipped", render |-> "skipped", alerts |-> "skipped"]
    ELSE [tick |-> TickStage(run), discover |-> DiscoverStage(dbs), decide |-> DecideStage(dbs),
          ingest |-> IngestStage(dbs), report |-> ReportStage(run),
          render |-> RenderStage(run), alerts |-> AlertsStage(run)]

----------------------------------------------------------------------------

\* What the tick did, in the words of the timeline.
Truth(run) ==
    LET ends == Range(did[run].ends)
        tried == ends \cap {"ingest", "unchanged", "ingested"}
    IN [discover |-> IF ends = {} THEN "skipped"
                     ELSE IF "compact" \in ends THEN "failed" ELSE "succeeded",
        ingest |-> IF tried = {} THEN "skipped"
                   ELSE IF tried = {"ingest"} THEN "failed"
                   ELSE IF "ingest" \in tried THEN "warning" ELSE "succeeded",
        report |-> CASE did[run].report = "written" -> "succeeded"
                     [] did[run].report = "failed" -> "failed" [] OTHER -> "skipped"]

\* The automation page tells what happened: a run is pending exactly when it
\* has not ended (as long as its START line is in the log), whatever the
\* caps dropped; a tick is failed exactly when something in it failed; each
\* inferred stage says what that stage did; every row is one event of its
\* own, with a name no other row has; and no stage is lost or counted twice
\* between the days.
ThePageTellsTheTruth ==
    LET evs == LoadEvents
        runs == OfKind(evs, "run")
    IN /\ \A e \in OfKind(evs, "start") : e \in Pending(evs) <=> ~did[e.run].ended
       /\ \A i, j \in DOMAIN evs : i # j => evs[i].id # evs[j].id
       /\ FoldSeq(LAMBDA day, sum : day.totals.stages + sum, 0, Days(evs)) = Len(agents)
       /\ \A run \in runs :
             LET line == Timeline(run, {d \in OfKind(evs, "db_run") : d.run = run.run})
             IN /\ line.tick = "failed" <=> did[run.run].failed
                /\ run.command = "run" =>
                      /\ line.discover = Truth(run.run).discover
                      /\ line.ingest = Truth(run.run).ingest
                      /\ line.report = Truth(run.run).report
                /\ \A p \in PreviousRun(evs, run) : p.run < run.run
=============================================================================
