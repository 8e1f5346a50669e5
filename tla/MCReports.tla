---------------------------- MODULE MCReports ----------------------------
(***************************************************************************)
(* Small instances of the components that report, side by side: each       *)
(* behaviour is a behaviour of one of them, the others stand still.        *)
(* The reviews, the research passes, the portal and the result contract    *)
(* are extended, so their variables, constants and invariants are those of *)
(* their own modules; the others are instances.                            *)
(***************************************************************************)
EXTENDS ResearchPasses, Workbench, ResultContract, WeeklyReview, TLC

CONSTANTS
    c1, c2,                \* review commands
    p1, p2, k1, k2, sender, \* processes that queue scores, score ids, a sender
    d1, d2, source,        \* databases, a source
    b1,                    \* a page of the workbench
    e1, e2                 \* error pages

VARIABLES
    component,             \* whose behaviour this is
    queue, lock, estimate, at_work, rows, buffer, posted, landed, acts, faults, verdict, cut,
    hour, shipped, unreachable, annotated, health, ledger, marks, articles, claims, broken,
    owed, steps, succeeded

scoring == <<queue, lock, estimate, at_work, rows, buffer, posted, landed, acts, faults,
             verdict, cut>>
assessing == <<hour, shipped, unreachable, annotated, health, ledger, marks, articles,
               claims, broken, owed, steps, succeeded>>

\* Reviews that show one finding: an incident nobody touches, which turns
\* urgent with its age alone, a code that recurs, and in the third wiki an
\* overdue monitoring, with everything the ES alerts speak for behind one.
Commands == {c1, c2}
Thresholds == [
    enabled |-> TRUE, synthesis_tier |-> "cheap", cap |-> 1, per_db_cap |-> 1,
    keep_reviews |-> 2, history_weeks |-> 2, window_days |-> 14,
    stale_open_days |-> 7, stale_open_high_days |-> 14,
    monitoring_overdue_hours |-> 24, monitoring_overdue_high_hours |-> 168,
    worsening_min_increase |-> 2, worsening_high_increase |-> 4,
    recurring_min_occurrences |-> 2, recurring_high_occurrences |-> 4, recurring_window_days |-> 7,
    cross_db_min_databases |-> 2, cross_db_high_databases |-> 3,
    unfollowed_days |-> 28, unfollowed_high_days |-> 42]
Names == <<"-", "db1", "db2", "ORA-600", "stuck", "multi_db", "never_actioned", "no_action",
           "occurrences_up", "recovery_met", "repeat_occurrences", "stale_open", "window_elapsed">>
Incident(status, until) ==
    [db |-> "db1", status |-> status, opened |-> 24, updated |-> 0, until |-> until,
     signal |-> "error_absent", verdict |-> "quiet", acted |-> {}]
Occurred(days) == {[code |-> "ORA-600", day |-> d, db |-> "db1"] : d \in days}
Stuck(days) == [incidents |-> [stuck |-> Incident("open", 0)], occurrences |-> Occurred(days)]
ThreeWikis == <<Stuck({7, 8}), Stuck({7, 8, 14, 15}), Stuck({7, 8, 14, 15, 22})>>
Dirty == <<{}, {[category |-> "dirty_tree", db |-> "-"]}, {}>>
OneMail == [
    enabled |-> TRUE, external_enabled |-> TRUE, smtp_host |-> "relay", from_address |-> "dbwiki",
    recipients |-> <<[id |-> "ops", address |-> "ops", channels |-> {"inbox", "email"},
                      content_class |-> "internal_full", role |-> "viewer"]>>]
\* A queue of two lines, which a fourth verdict makes someone trim.
Recorders == {p1, p2}
Senders == {sender}
Keys == {k1, k2}
Scores == INSTANCE ScoreQueue WITH
    Cap <- 2, MaxActs <- 4, MaxFaults <- 1, Unknown <- Nothing, log <- queue, pc <- at_work

\* Budgets of an hour over three hours, and a log of two runs.
Databases == {d1, d2}
Sources == {source}
AnHour == [g \in {"run", "report", "lint"} |-> 1]
FairWeather == [down |-> {}, note |-> FALSE, tree |-> "ok", failing |-> {}, owed |-> {}]
FoulWeather == [down |-> Sources, note |-> TRUE, tree |-> "dirty", failing |-> {"disk"},
                owed |-> {"delivery_failed", "failed_request"}]
Skies == {FairWeather, FoulWeather}
Classes == {"harness_error"}
Endings == {"ingested", "skip", "failed"}
Assessment == INSTANCE Health WITH
    Dbs <- Databases, StaleHours <- 1, StageHours <- AnHour, FutureSlack <- 1,
    MaxEvents <- 2, Weather <- Skies, Categories <- Classes, Outcomes <- Endings,
    FarFuture <- 9, LastInstant <- 2, MaxSteps <- 3, Never <- Nothing,
    now <- hour, events <- shipped, log <- health, wiki <- articles

\* Two error pages, the first on more incidents, two runs of any pass.
ErrorPages == {e1, e2}
FirstIsHotter == [p \in ErrorPages |-> IF p = e1 THEN 2 ELSE 1]

\* Questions about a page that an answer may mend, and of a source, by an
\* agent that gets a field wrong; the notes of the page cite the other source.
TwoCodes == {"ORA-600", "ORA-1555"}
TwoSlugs == {"docs", "blog"}
OwnDomain == [s \in TwoSlugs |-> {s}]
Cite(slug, host, accessed) == [source |-> slug, host |-> host, accessed |-> accessed]
Found(refs) == [cause |-> "good", refs |-> refs, codes |-> "good", tele |-> "good"]
Cited == {Cite("docs", "docs", "date")}
Looked == [valid |-> "yes", checked |-> "date", notes |-> "good", proposed |-> "none"]
TheFindings ==
    {Found(refs) : refs \in {{}, Cited, {Cite("blog", "blog", "date")}, {Cite("docs", "blog", "date")},
                            {Cite("docs", "docs", "stamp")}, Cited \cup {Cite("blog", "blog", "date")}}}
    \cup {[Found(Cited) EXCEPT !.cause = "link"], [Found(Cited) EXCEPT !.codes = "other"],
          [Found(Cited) EXCEPT !.tele = "other"]}
TheVerdicts ==
    {[Looked EXCEPT !.checked = c] : c \in {"date", "stamp", "none"}}
    \cup {[Looked EXCEPT !.valid = "no", !.proposed = "deprecated"], [Looked EXCEPT !.notes = "long"]}
ReviewedOn == [docs |-> 1, blog |-> 2]
AsHeld(refs, day) == [refs |-> {}, notes |-> refs, run |-> 0, researched |-> day]
TwoHeld == [c \in TwoCodes |-> IF c = "ORA-600" THEN AsHeld({Cite("blog", "blog", "date")}, 0)
                              ELSE AsHeld({}, 1)]

AnyActor == Permutations(Commands)

\* One form of a patient operator, a resolve without its risk posted by a
\* script, one commit elsewhere and one lost answer, held lock, dirty tree
\* or broken lint.
OneBrowser == {b1}
TwoVerbs == {"record-action", "resolve"}
OneText == {"a"}
ScriptBody(verb, fields, reviewed) ==
    [verb |-> verb, fields |-> fields, base |-> reviewed, at |-> reviewed, keys |-> {}]
Wrong == {
    [ScriptBody("resolve", <<>>, Nothing) EXCEPT !.keys = {"actor"}],
    ScriptBody("resolve", [summary |-> "a"], Nothing),
    ScriptBody("resolve", [summary |-> "a"], 1) }
SuiteInit ==
    /\ component \in {"review", "scores", "health", "portal", "research", "contract"}
    /\ ReviewInit /\ Scores!Init /\ Assessment!Init /\ WorkbenchInit
    /\ Init /\ ContractInit

SuiteNext ==
    \/ component = "review" /\ ReviewNext
       /\ UNCHANGED <<component, scoring, assessing, publishing, vars, offloading>>
    \/ component = "scores" /\ Scores!Next
       /\ UNCHANGED <<component, reviewing, assessing, publishing, vars, offloading>>
    \/ component = "health" /\ Assessment!Next
       /\ UNCHANGED <<component, reviewing, scoring, publishing, vars, offloading>>
    \/ component = "portal" /\ WorkbenchNext
       /\ UNCHANGED <<component, reviewing, scoring, assessing, vars, offloading>>
    \/ component = "research" /\ Next
       /\ UNCHANGED <<component, reviewing, scoring, assessing, publishing, offloading>>
    \/ component = "contract" /\ ContractNext
       /\ UNCHANGED <<component, reviewing, scoring, assessing, publishing, vars>>

----------------------------------------------------------------------------

\* The last verdict on a page is shown, or waits (ScoreQueue).
LastVerdictStands == component = "scores" => Scores!LastVerdictStands
\* A working pipeline raises no alarm and a dead one does (Health).
HealthTellsTheTruth == component = "health" => Assessment!HealthTellsTheTruth
=============================================================================
