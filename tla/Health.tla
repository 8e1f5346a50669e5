------------------------------- MODULE Health -------------------------------
(***************************************************************************)
(* The assessment of the pipeline (health.py) and what it alerts on        *)
(* (alerts.findings): sources ship events, commands run and record their   *)
(* facts in a capped log, and everything the assessment reads moves on its *)
(* own.  Instants are hours; an age is the difference of two.              *)
(***************************************************************************)
EXTENDS Integers, Sequences, FiniteSets, FiniteSetsExt

CONSTANTS
    Dbs, Sources,
    StaleHours,     \* health.stale_hours
    StageHours,     \* StageHours[stage]: health.stage_stale_hours
    FutureSlack,    \* FUTURE_SLACK_HOURS
    MaxEvents,      \* cap of run_health.jsonl
    Weather,        \* what the assessment depends on: down, note, tree, failing, owed
    Categories,     \* categories a failed ingest may have
    Outcomes,       \* what becomes of a compacted digest
    FarFuture,      \* an instant a misparsed event may carry
    LastInstant,    \* where the clock stops (bound)
    MaxSteps,       \* commands and changes (bound)
    Never

VARIABLES
    now,
    events,      \* <<source, instant>> in Elasticsearch
    unreachable, \* sources whose probe raises
    annotated,   \* .state/recovery_annotation.txt has text
    log,         \* run_health.jsonl
    ledger,      \* ledger[db]: the entry of its newest digest, or Never
    marks,       \* marks[db]: watermark, or Never
    wiki,        \* "ok", "missing", "nogit" or "dirty"
    claims,      \* instants of the claims of the queue and the exchange
    broken,      \* what `dependencies` finds
    owed,        \* what queue, exchange and review could not do
    steps,
    succeeded    \* succeeded[stage]: when it last did its work, or Never
vars == <<now, events, unreachable, annotated, log, ledger, marks, wiki, claims,
          broken, owed, steps, succeeded>>

Stages == DOMAIN StageHours

----------------------------------------------------------------------------
(* Collection                                                              *)

Instants(s) == {e[2] : e \in {x \in events : x[1] = s}}
Newest(times) == IF times = {} THEN Never ELSE Max(times)
Oldest(times) == IF times = {} THEN Never ELSE Min(times)
\* One event dated far ahead would be the newest for ever.
LatestAny(s) == Newest(Instants(s))
Latest(s) == Newest({t \in Instants(s) : t < now + FutureSlack})
FutureEvent(s) == Oldest({t \in Instants(s) : t >= now + FutureSlack})
Fresh(s) == Latest(s) # Never /\ now - Latest(s) <= StaleHours
Probed == Sources \ unreachable
State(s) ==
    IF s \in unreachable THEN "unknown"
    ELSE IF Fresh(s) THEN "ok"
    ELSE IF \E q \in Probed : Fresh(q) THEN "source_silent" ELSE "collection_failure"

\* A note of the operator, or flow that resumed after a gap.
Resumed(s) ==
    LET first == Oldest({t \in Instants(s) : t >= now - StaleHours})
        previous == Newest({t \in Instants(s) : t < now - StaleHours})
    IN  first # Never /\ previous # Never /\ first - previous >= StaleHours
Evidence ==
    IF annotated THEN "operator_annotation"
    ELSE IF \E s \in Sources : State(s) = "ok" /\ Resumed(s) THEN "resumed_flow"
    ELSE "unknown"

----------------------------------------------------------------------------
(* Stages                                                                  *)

Entries == {log[n] : n \in DOMAIN log}
\* Success is read from the facts of a run, not from its outcome; lint,
\* research and review have no facts to read a part of a success from.
SucceedsByOutcome(e, stage) == e.ok /\ e.stage = stage /\ ~e.dry
Succeeds(e, stage) ==
    CASE stage = "run" -> e.stage = "run" /\ e.compacted # {}
      [] stage = "report" -> e.stage = "run" /\ e.report
      [] OTHER -> e.ok /\ e.stage = stage /\ ~e.dry
LedgerSuccess(stage) ==
    IF stage # "run" THEN {}
    ELSE {ledger[db].at : db \in {d \in Dbs : ledger[d] # Never /\ ledger[d].status = "ingested"}}
LastSuccess(stage) ==
    Newest({e.at : e \in {x \in Entries : Succeeds(x, stage)}} \cup LedgerSuccess(stage))
\* A stage that never succeeded is no regression.
StaleStages ==
    {g \in Stages : LastSuccess(g) # Never /\ now - LastSuccess(g) > StageHours[g]}

----------------------------------------------------------------------------
(* The assessment                                                          *)

StaleMarks == {d \in Dbs : marks[d] # Never /\ now - marks[d] > StaleHours}
Failures == {d \in Dbs : ledger[d] # Never /\ ledger[d].status = "failed"}
\* A digest the trigger skipped is an answer, not a debt.
DeliberateSkip(entry) == entry.status = "skip"
Backlog == {d \in Dbs : /\ ledger[d] # Never /\ ledger[d].status \notin {"failed", "ingested"}
                        /\ ~DeliberateSkip(ledger[d])}
StaleClaims == {t \in claims : now - t > StaleHours}
EsUnknown == Sources \subseteq unreachable
NoLocalState == log = <<>> /\ \A d \in Dbs : marks[d] = Never /\ ledger[d] = Never

Blockers == CASE wiki = "ok" -> {}
              [] wiki = "dirty" -> {<<"dirty_tree", "-">>}
              [] OTHER -> {<<"wiki_missing", "-">>}
Problems ==
    {<<"future", s>> : s \in {q \in Probed : FutureEvent(q) # Never}}
    \cup {<<State(s), s>> : s \in {q \in Probed : ~Fresh(q)}}
    \cup {<<"stale_watermark", d>> : d \in StaleMarks}
    \cup {<<ledger[d].category, d>> : d \in Failures}
    \cup {<<"digest_backlog", d>> : d \in Backlog}
    \cup {<<"stale_claim", t>> : t \in StaleClaims}
    \cup {<<"stage_stale", g>> : g \in StaleStages}
    \cup {<<"dependency_failure", c>> : c \in broken} \cup {<<o, "-">> : o \in owed}
    \cup (IF EsUnknown THEN {<<"es_unreachable", "-">>} ELSE {})
ExitCode ==
    IF EsUnknown /\ NoLocalState THEN 2
    ELSE IF Problems # {} \/ Blockers # {} THEN 1 ELSE 0

\* What alerts reads from an assessment: neither future events, nor claims,
\* nor what queue and exchange owe.
Findings ==
    Blockers
    \cup {<<State(s), s>> : s \in {q \in Sources : State(q) \in {"collection_failure", "source_silent"}}}
    \cup (IF Sources # {} /\ \A s \in Sources : State(s) = "unknown"
          THEN {<<"es_unreachable", "-">>} ELSE {})
    \cup {<<"stale_watermark", d>> : d \in StaleMarks}
    \cup {<<ledger[d].category, d>> : d \in Failures}
    \cup {<<"digest_backlog", d>> : d \in Backlog}
    \cup {<<"stage_stale", g>> : g \in StaleStages}
    \cup {<<"dependency_failure", c>> : c \in broken}
    \cup {<<o, "-">> : o \in owed \cap {"delivery_failed"}}

----------------------------------------------------------------------------

Init ==
    /\ now = 0 /\ events = {} /\ unreachable = {} /\ annotated = FALSE
    /\ log = <<>> /\ ledger = [d \in Dbs |-> Never] /\ marks = [d \in Dbs |-> Never]
    /\ wiki = "ok" /\ claims = {} /\ broken = {} /\ owed = {} /\ steps = 0
    /\ succeeded = [g \in Stages |-> Never]

Step == steps < MaxSteps /\ steps' = steps + 1
Recorded(event) ==
    LET longer == Append(log, event)
    IN  IF Len(longer) > MaxEvents THEN Tail(longer) ELSE longer

Elapses ==
    /\ now < LastInstant /\ now' = now + 1
    /\ UNCHANGED <<events, unreachable, annotated, log, ledger, marks, wiki, claims,
                   broken, owed, steps, succeeded>>
Ships(s, at) ==
    /\ Step /\ events' = events \cup {<<s, at>>}
    /\ UNCHANGED <<now, unreachable, annotated, log, ledger, marks, wiki, claims, broken,
                   owed, succeeded>>

\* A tick: each database is compacted or dies in it; a compacted one is
\* ingested, skipped, deferred or fails.  One that fails fails the tick.
Tick(compacted, outcome, report) ==
    /\ Step
    /\ marks' = [d \in Dbs |-> IF d \in compacted THEN now ELSE marks[d]]
    /\ ledger' = [d \in Dbs |-> IF d \notin compacted THEN ledger[d]
                                ELSE [status |-> outcome[d], at |-> now,
                                      category |-> IF outcome[d] = "failed"
                                                   THEN CHOOSE c \in Categories : TRUE ELSE "-"]]
    /\ log' = Recorded([stage |-> "run", at |-> now, compacted |-> compacted,
                        report |-> report, dry |-> FALSE,
                        ok |-> report /\ compacted = Dbs /\ \A d \in Dbs : outcome[d] # "failed"])
    /\ succeeded' = [g \in Stages |->
            IF (g = "run" /\ compacted # {}) \/ (g = "report" /\ report) THEN now
            ELSE succeeded[g]]
    /\ UNCHANGED <<now, events, unreachable, annotated, wiki, claims, broken, owed>>

\* A single-shot command; a dry run proves nothing.
Command(g, ok, dry) ==
    /\ Step /\ g \notin {"run", "report"}
    /\ log' = Recorded([stage |-> g, at |-> now, compacted |-> {}, report |-> FALSE,
                        dry |-> dry, ok |-> ok])
    /\ succeeded' = IF ok /\ ~dry THEN [succeeded EXCEPT ![g] = now] ELSE succeeded
    /\ UNCHANGED <<now, events, unreachable, annotated, ledger, marks, wiki, claims, broken, owed>>

\* What the assessment depends on changes.
Changes(to, claimed) ==
    /\ Step
    /\ unreachable' = to.down /\ annotated' = to.note /\ wiki' = to.tree /\ broken' = to.failing /\ owed' = to.owed
    /\ claims' = IF claimed THEN claims \cup {now} ELSE {}
    /\ UNCHANGED <<now, events, log, ledger, marks, succeeded>>

Next ==
    \/ Elapses
    \/ \E s \in Sources, at \in {now, FarFuture} : Ships(s, at)
    \/ \E compacted \in SUBSET Dbs, report \in BOOLEAN :
           \E outcome \in [Dbs -> Outcomes] :
               Tick(compacted, outcome, report)
    \/ \E g \in Stages, ok, dry \in BOOLEAN : Command(g, ok, dry)
    \/ \E to \in Weather, claimed \in BOOLEAN : Changes(to, claimed)

----------------------------------------------------------------------------

\* The run log is full and no line of it is older than the stage's last success:
\* the success may be among the lines the cap dropped.
Outlived(g) ==
    Len(log) = MaxEvents /\ \A i \in DOMAIN log : log[i].at >= succeeded[g]

\* A working pipeline raises no alarm and a dead one is not called well, one
\* broken database, a dry run or a misdated event notwithstanding: a stage
\* reported stale did none of its work within its budget, and one that did
\* none since a success the log must still hold is reported; a source is called
\* ok exactly when it shipped something that is neither old nor ahead; and
\* the exit code is clean only when there is nothing to alert on.
HealthTellsTheTruth ==
    /\ \A g \in {h \in Stages : succeeded[h] # Never /\ ~Outlived(h)} :
           g \in StaleStages <=> now - succeeded[g] > StageHours[g]
    /\ \A g \in StaleStages : succeeded[g] # Never
    /\ \A s \in Probed : State(s) = "ok" <=>
           \E e \in events : e[1] = s /\ e[2] >= now - StaleHours /\ e[2] < now + FutureSlack
    /\ Findings \subseteq Problems \cup Blockers
    /\ ExitCode = 0 => Findings = {}
=============================================================================
