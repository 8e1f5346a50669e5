--------------------------- MODULE ReviewDetectors ---------------------------
(***************************************************************************)
(* What the weekly review finds in a wiki (review.py): six detectors read  *)
(* the incidents and the occurrences of a snapshot, and the monitoring     *)
(* verdicts beside it, against thresholds of the configuration.            *)
(*                                                                         *)
(* An instant is an hour, 0 an absent one; a snapshot holds incidents by   *)
(* slug and a set of occurrences.  A finding is named by its kind, slug,   *)
(* database and code; the evidence kept here is what its hash covers.      *)
(***************************************************************************)
EXTENDS Integers, Sequences, FiniteSets, FiniteSetsExt

CONSTANTS
    Rules,      \* the review block of the configuration
    Alphabet    \* names of databases, incidents and codes, in their order

\* Rules.resolve, which fails a run on a block that makes no sense.
Positive == {"cap", "per_db_cap", "keep_reviews", "history_weeks", "window_days"}
NotNegative ==
    {"stale_open_days", "stale_open_high_days", "monitoring_overdue_hours",
     "monitoring_overdue_high_hours", "worsening_min_increase", "worsening_high_increase",
     "recurring_min_occurrences", "recurring_high_occurrences", "recurring_window_days",
     "cross_db_min_databases", "cross_db_high_databases", "unfollowed_days",
     "unfollowed_high_days"}
Resolves(rules) ==
    /\ rules.synthesis_tier \in {"cheap", "strong"}
    /\ \A name \in Positive : rules[name] > 0
    /\ \A name \in NotNegative : rules[name] >= 0
    /\ rules.recurring_window_days <= rules.window_days

CalendarDay(hour) == hour \div 24
HoursBetween(then, now) == now - then
DaysBetween(then, now) == (now - then) \div 24
ShiftDays(now, days) == now - 24 * days

\* The kinds in their order, what the slug of each names, and the group of
\* alerts that already speak for it.
KindOrder == <<"stale_open", "monitoring_overdue", "worsening", "recurring", "cross_db", "unfollowed">>
Subject(kind) == IF kind \in {"worsening", "recurring", "cross_db"} THEN "error_code" ELSE "incident"
ShadowGroup(kind) == IF kind \in {"stale_open", "unfollowed"} THEN "wiki" ELSE "es"

----------------------------------------------------------------------------
(* The detectors: every candidate has its fingerprint, its place in the    *)
(* order a review shows them in (the high band first), and its evidence    *)
(* without what merely ages.                                               *)

Place(value, sequence) == CHOOSE i \in DOMAIN sequence : sequence[i] = value
Candidate(kind, code, slug, db, high, evidence) ==
    [name |-> <<kind, slug, db, code>>, evidence |-> evidence,
     key |-> <<IF high THEN 0 ELSE 1, Place(kind, KindOrder), Place(db, Alphabet),
               Place(slug, Alphabet), Place(code, Alphabet)>>]
Before(left, right) ==
    \E i \in DOMAIN left : left[i] < right[i] /\ \A j \in 1 .. i - 1 : left[j] = right[j]

WithStatus(snap, statuses) == {i \in DOMAIN snap.incidents : snap.incidents[i].status \in statuses}
LastTouch(inc) == IF inc.updated # 0 THEN inc.updated ELSE inc.opened
LastAction(inc) == IF inc.acted = {} THEN 0 ELSE Max(inc.acted)

\* Mutant: the age an operator reads is part of the evidence hashed.
StaleOpenAging(snap, now) ==
    {LET inc == snap.incidents[i]
         age == DaysBetween(LastTouch(inc), now)
     IN  Candidate("stale_open", "stale_open", i, inc.db, age >= Rules.stale_open_high_days,
                   [opened |-> inc.opened, updated |-> inc.updated, age_days |-> age]) :
       i \in {j \in WithStatus(snap, {"open"}) :
                 /\ LastTouch(snap.incidents[j]) # 0
                 /\ DaysBetween(LastTouch(snap.incidents[j]), now) >= Rules.stale_open_days}}
StaleOpen(snap, now) ==
    {LET inc == snap.incidents[i]
         age == DaysBetween(LastTouch(inc), now)
     IN  Candidate("stale_open", "stale_open", i, inc.db, age >= Rules.stale_open_high_days,
                   [opened |-> inc.opened, updated |-> inc.updated]) :
       i \in {j \in WithStatus(snap, {"open"}) :
                 /\ LastTouch(snap.incidents[j]) # 0
                 /\ DaysBetween(LastTouch(snap.incidents[j]), now) >= Rules.stale_open_days}}

\* The window is up, or the verdict says the signal was met.
MonitoringOverdue(snap, now) ==
    {LET inc == snap.incidents[i]
         overdue == HoursBetween(inc.until, now)
     IN  Candidate("monitoring_overdue", "window_elapsed", i, inc.db,
                   overdue >= Rules.monitoring_overdue_high_hours,
                   [until |-> inc.until, signal |-> inc.signal]) :
       i \in {j \in WithStatus(snap, {"monitoring"}) :
                 /\ snap.incidents[j].until # 0
                 /\ HoursBetween(snap.incidents[j].until, now) > Rules.monitoring_overdue_hours}}
    \cup
    {Candidate("monitoring_overdue", "recovery_met", i, snap.incidents[i].db, TRUE,
               [verdict |-> "met"]) :
       i \in {j \in WithStatus(snap, {"monitoring"}) : snap.incidents[j].verdict = "met"}}

\* _Context.build: the occurrences inside the window.
InWindow(snap, now) ==
    {o \in snap.occurrences : o.day \in CalendarDay(ShiftDays(now, Rules.window_days)) .. CalendarDay(now)}
OfCode(rows, code, db) == {o \in rows : o.code = code /\ o.db = db}
Places(rows) == {<<o.code, o.db>> : o \in rows}

Worsening(snap, now) ==
    LET rows == InWindow(snap, now)
        midpoint == CalendarDay(now - 12 * Rules.window_days)
        recent(p) == Cardinality({o \in OfCode(rows, p[1], p[2]) : o.day >= midpoint})
        prior(p) == Cardinality(OfCode(rows, p[1], p[2])) - recent(p)
        increase(p) == recent(p) - prior(p)
    IN  {Candidate("worsening", "occurrences_up", p[1], p[2],
                   increase(p) >= Rules.worsening_high_increase,
                   [recent |-> recent(p), prior |-> prior(p)]) :
           p \in {q \in Places(rows) : increase(q) >= Rules.worsening_min_increase}}

Recurring(snap, now) ==
    LET rows == {o \in InWindow(snap, now) :
                    o.day >= CalendarDay(ShiftDays(now, Rules.recurring_window_days))}
        count(p) == Cardinality(OfCode(rows, p[1], p[2]))
        days(p) == {o.day : o \in OfCode(rows, p[1], p[2])}
        shown(p) == {d \in days(p) :
                        Cardinality({e \in days(p) : e < d}) < Rules.recurring_high_occurrences}
    IN  {Candidate("recurring", "repeat_occurrences", p[1], p[2],
                   count(p) >= Rules.recurring_high_occurrences,
                   [count |-> count(p), days |-> shown(p)]) :
           p \in {q \in Places(rows) : count(q) >= Rules.recurring_min_occurrences}}

CrossDb(snap, now) ==
    LET rows == InWindow(snap, now)
        dbs(code) == {o.db : o \in {r \in rows : r.code = code}}
    IN  {Candidate("cross_db", "multi_db", code, "-",
                   Cardinality(dbs(code)) >= Rules.cross_db_high_databases,
                   [databases |-> dbs(code)]) :
           code \in {o.code : o \in {r \in rows :
                        Cardinality(dbs(r.code)) >= Rules.cross_db_min_databases}}}

\* Nobody acted since the last recorded action, or ever.
Unfollowed(snap, now) ==
    {LET inc == snap.incidents[i]
         last == LastAction(inc)
         age == DaysBetween(IF last # 0 THEN last ELSE inc.opened, now)
     IN  Candidate("unfollowed", IF last # 0 THEN "no_action" ELSE "never_actioned", i, inc.db,
                   age >= Rules.unfollowed_high_days,
                   [last_action_at |-> last, records |-> Cardinality(inc.acted)]) :
       i \in {j \in WithStatus(snap, {"open", "monitoring"}) :
                 LET inc == snap.incidents[j]
                     since == IF inc.acted # {} THEN LastAction(inc) ELSE inc.opened
                 IN  since # 0 /\ DaysBetween(since, now) >= Rules.unfollowed_days}}

\* DETECTORS.
Detected(snap, now) ==
    StaleOpen(snap, now) \cup MonitoringOverdue(snap, now) \cup Worsening(snap, now)
    \cup Recurring(snap, now) \cup CrossDb(snap, now) \cup Unfollowed(snap, now)

\* _ALERT_SHADOW.
AlertShadow ==
    [es |-> {"stale_watermark", "collection_failure", "source_silent", "es_unreachable",
             "digest_backlog", "stage_stale"},
     wiki |-> {"wiki_missing", "dirty_tree"}]
\* A live alert of the group speaks for its database, or for all of them.
ShadowedBy(name, alerts) ==
    \E a \in alerts : a.category \in AlertShadow[ShadowGroup(name[1])] /\ a.db \in {"-", name[3]}
=============================================================================
