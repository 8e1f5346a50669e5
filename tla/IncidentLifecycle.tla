------------------------- MODULE IncidentLifecycle -------------------------
(***************************************************************************)
(* What operators do to incident pages: the six verbs of lifecycle.build,  *)
(* the two sweeps of `dbwiki incident` and the ingests that write between  *)
(* them.  An act is pinned first (a preview fixes its command and its      *)
(* timestamp, which is the identity of its record) and published later,    *)
(* perhaps more than once: a retry of a pinned act on a newer base is the  *)
(* same act again.  Publishing is one step here, since a commit on a moved *)
(* base is refused (WikiTransaction).                                      *)
(*                                                                         *)
(* One act is written in up to five places: the page's frontmatter and its *)
(* action log, log.md, the section of index.md that lists the incident and *)
(* the Resolution history of the error pages it links.                     *)
(***************************************************************************)
EXTENDS Integers, FiniteSets, SequencesExt

CONSTANTS
    Incidents,   \* incident pages
    Db,          \* Db[i]: the database of a page
    Unreadable,  \* pages whose status is not in the vocabulary
    Codes,       \* error codes
    Mentions,    \* Mentions[i]: the codes the text of a page names
    Untils,      \* ends an operator gives to a monitoring window
    DayLength,   \* seconds in a day
    LastPin,     \* where the clock stops (bound)
    MaxActs,     \* acts pinned (bound)
    MaxIngests,  \* days ingested into incident pages (bound)
    NoWindow, NoPage

ASSUME LifecycleAssumption ==
    /\ NoPage \notin Incidents
    /\ DayLength \in Nat \ {0} /\ LastPin \in Nat /\ Untils \subseteq Nat
    /\ NoWindow \notin [start : Nat, until : Nat]
    /\ Mentions \in [Incidents -> SUBSET Codes]

VARIABLES
    instant,  \* the clock
    page,     \* page[i]: frontmatter, action log, evidence and updates
    listed,   \* listed[i]: the sections of index.md with a bullet for i
    log,      \* the lines of log.md
    linked,   \* linked[i]: codes the page links
    errors,   \* error pages that exist
    rows,     \* rows[c]: the Resolution history of an error page
    pinned,   \* acts somebody previewed
    replayed  \* pages on which an act was published again
lifecycle == <<instant, page, listed, log, linked, errors, rows, pinned, replayed>>

Status == {"open", "monitoring", "resolved"}
ACTIVE == {"open", "monitoring"}
Day(at) == at \div DayLength

TRANSITIONS ==
    {<<s, "record-action", s>> : s \in Status}
    \cup {<<s, "start-monitoring", "monitoring">> : s \in ACTIVE}
    \cup {<<"monitoring", "extend-monitoring", "monitoring">>}
    \cup {<<s, "resolve", "resolved">> : s \in ACTIVE}
    \cup {<<"resolved", "reopen", "open">>}
    \cup {<<s, "merge", "resolved">> : s \in ACTIVE}

\* until is read by the monitoring commands, pages (write Resolution history
\* rows) by resolve, into by merge.
Command(kind, until, pages, into) ==
    [kind |-> kind, until |-> until, pages |-> pages, into |-> into]
Commands ==
    {Command(k, 0, TRUE, NoPage) : k \in {"record-action", "reopen"}}
    \cup {Command("start-monitoring", u, TRUE, NoPage) : u \in Untils}
    \cup {Command("extend-monitoring", u, TRUE, NoPage) : u \in Untils}
    \cup {Command("resolve", 0, b, NoPage) : b \in BOOLEAN}
    \cup {Command("merge", 0, TRUE, i) : i \in Incidents}

MonitoringWindow(start, until) == [start |-> start, until |-> until]
\* What "## Action <at>" of page i holds.
Held(i, at) == {r \in ToSet(page[i].actions) : r.at = at}

----------------------------------------------------------------------------
(* Building a proposal.                                                    *)

\* A page whose status no reader can classify is not transitioned.
NextStatus(i, kind) ==
    IF i \in Unreadable THEN {}
    ELSE {t[3] : t \in {x \in TRANSITIONS : x[1] = page[i].status /\ x[2] = kind}}

\* A replay of an extend finds its own until in force.
Extends(i, c, at) ==
    LET window == page[i].window
        replay == \E r \in Held(i, at) : r.kind = "extend-monitoring"
    IN  /\ window # NoWindow
        /\ c.until >= window.until
        /\ c.until = window.until => replay
        /\ c.until > at

\* MonitoringWindow refuses a window that ends before it starts.
WindowHolds(i, c, at) ==
    /\ c.kind = "start-monitoring" => c.until > at
    /\ c.kind = "extend-monitoring" => Extends(i, c, at)

\* Mutant: reopening or merging leaves the window.
WindowUntilResolved(i, c, at) ==
    IF c.kind = "start-monitoring" THEN MonitoringWindow(at, c.until)
    ELSE IF c.kind = "extend-monitoring"
         THEN MonitoringWindow(page[i].window.start, c.until)
    ELSE IF c.kind = "resolve" THEN NoWindow
    ELSE page[i].window
WindowAfter(i, c, at) ==
    IF c.kind = "start-monitoring" THEN MonitoringWindow(at, c.until)
    ELSE IF c.kind = "extend-monitoring"
         THEN MonitoringWindow(page[i].window.start, c.until)
    ELSE IF c.kind \in {"resolve", "reopen", "merge"} THEN NoWindow
    ELSE page[i].window

\* Mutant: an incident merges into a closed one.
MergeKeepsAny(kept) == TRUE
MERGE_KEEPS(kept) == page[kept].status \in ACTIVE

MergeStands(i, kept) ==
    /\ kept # i
    /\ Db[kept] = Db[i]
    /\ kept \notin Unreadable
    /\ MERGE_KEEPS(kept)

Record(i, c, at, after) ==
    [at |-> at, kind |-> c.kind, after |-> after,
     window |-> WindowAfter(i, c, at), pages |-> c.pages, into |-> c.into]
\* The record a merge leaves on the page it keeps, whose status and window
\* it repeats.
KeptRecord(i, kept, at) ==
    [at |-> at, kind |-> "record-action", after |-> page[kept].status,
     window |-> page[kept].window, pages |-> TRUE, into |-> i]

\* at is the identity of a record: another one in its place is a collision.
Collides(i, r) == \E h \in Held(i, r.at) : h # r

\* A page with the record written in, and the status and window it leaves.
WrittenIn(i, r) ==
    [page[i] EXCEPT
        !.status = r.after,
        !.window = r.window,
        !.actions = IF Held(i, r.at) = {} THEN Append(@, r)
                    ELSE [k \in DOMAIN @ |-> IF @[k].at = r.at THEN r ELSE @[k]]]

\* The kept page takes the evidence and the daily updates it has none of.
Absorbs(kept, i, r) ==
    [WrittenIn(kept, r) EXCEPT
        !.evidence = @ \cup page[i].evidence,
        !.updates = @ \cup {u \in page[i].updates :
                               \A own \in @ : own.day # u.day}]

\* The record of an act, when lifecycle.build does not refuse it.
Buildable(i, c, at) ==
    /\ NextStatus(i, c.kind) # {}
    /\ WindowHolds(i, c, at)
    /\ c.kind = "merge" => MergeStands(i, c.into)
RecordOf(i, c, at) == Record(i, c, at, CHOOSE s \in NextStatus(i, c.kind) : TRUE)
Collision(i, c, at) ==
    \/ Collides(i, RecordOf(i, c, at))
    \/ c.kind = "merge" /\ Collides(c.into, KeptRecord(i, c.into, at))

\* index.md: the bullet moves, or is written where it should be.
MovedTo(i, frm, to) == (listed[i] \ {frm}) \cup {to}
Listed(i, c) ==
    IF c.kind \in {"resolve", "merge"} THEN MovedTo(i, "Open", "Resolved")
    ELSE IF c.kind = "reopen" THEN MovedTo(i, "Resolved", "Open")
    ELSE listed[i]

\* One row per day and incident: a second resolve rewrites it.
ResolutionRow(i, at) == [day |-> Day(at), incident |-> i, at |-> at]
WithRow(table, row) ==
    {r \in table : r.day # row.day \/ r.incident # row.incident} \cup {row}
RowsAfter(i, c, at) ==
    [e \in Codes |->
        IF c.kind = "resolve" /\ c.pages /\ e \in linked[i] \cap errors
        THEN WithRow(rows[e], ResolutionRow(i, at)) ELSE rows[e]]

----------------------------------------------------------------------------
(* The operators.                                                          *)

LifecycleInit ==
    /\ instant = 0
    /\ page = [i \in Incidents |->
                [status |-> "open", window |-> NoWindow, actions |-> <<>>,
                 evidence |-> {}, updates |-> {}]]
    /\ listed = [i \in Incidents |-> {"Open"}]
    /\ log = {}
    /\ linked = [i \in Incidents |-> {}]
    /\ errors = {}
    /\ rows = [e \in Codes |-> {}]
    /\ pinned = {}
    /\ replayed = {}

SecondElapses ==
    /\ instant < LastPin
    /\ instant' = instant + 1
    /\ UNCHANGED <<page, listed, log, linked, errors, rows, pinned, replayed>>

\* Two instants of a preview: the clock, or the first second after it that
\* the pages do not hold.
Pin(i, c) ==
    /\ Cardinality(pinned) < MaxActs
    /\ \E at \in instant .. LastPin :
        /\ Buildable(i, c, at)
        /\ ~Collision(i, c, at)
        /\ \A earlier \in instant .. at - 1 :
                Buildable(i, c, earlier) /\ Collision(i, c, earlier)
        /\ pinned' = pinned \cup {[incident |-> i, command |-> c, at |-> at]}
    /\ UNCHANGED <<instant, page, listed, log, linked, errors, rows, replayed>>

Publish(a) ==
    LET i == a.incident
        c == a.command
        r == RecordOf(i, c, a.at)
    IN  /\ Buildable(i, c, a.at)
        /\ ~Collision(i, c, a.at)
        /\ page' = [j \in Incidents |->
                        IF j = i THEN WrittenIn(i, r)
                        ELSE IF c.kind = "merge" /\ j = c.into
                             THEN Absorbs(j, i, KeptRecord(i, j, a.at))
                        ELSE page[j]]
        /\ listed' = [listed EXCEPT ![i] = Listed(i, c)]
        /\ log' = log \cup {<<a.at, i, c.kind>>}
        /\ rows' = RowsAfter(i, c, a.at)
        /\ replayed' = IF Held(i, a.at) = {} THEN replayed
                       ELSE replayed \cup ({i, c.into} \ {NoPage})
        /\ UNCHANGED <<instant, linked, errors, pinned>>

\* An ingest writes today's digest into an active page: it cites it and
\* replaces today's update.
Ingest(i) ==
    /\ i \notin Unreadable /\ page[i].status \in ACTIVE
    /\ Cardinality(UNION {page[j].updates : j \in Incidents}) < MaxIngests
    /\ page' = [page EXCEPT
         ![i].evidence = @ \cup {Day(instant)},
         ![i].updates = {u \in @ : u.day # Day(instant)} \cup {[day |-> Day(instant), of |-> i]}]
    /\ UNCHANGED <<instant, listed, log, linked, errors, rows, pinned, replayed>>

IngestError(e) ==
    /\ e \notin errors
    /\ errors' = errors \cup {e}
    /\ UNCHANGED <<instant, page, listed, log, linked, rows, pinned, replayed>>

\* `dbwiki incident link-codes`.
LinkCodes ==
    /\ linked' = [i \in Incidents |-> linked[i] \cup (Mentions[i] \cap errors)]
    /\ linked' # linked
    /\ UNCHANGED <<instant, page, listed, log, errors, rows, pinned, replayed>>

\* `dbwiki incident backfill-resolutions`: the rows the last resolve of every
\* resolved incident left out.
LastOf(actions, kinds) == SelectLastInSeq(actions, LAMBDA r : r.kind \in kinds)
LastResolve(i) == LastOf(page[i].actions, {"resolve"})
Owed(e) ==
    {i \in Incidents : /\ page[i].status = "resolved"
                       /\ LastResolve(i) # 0
                       /\ page[i].actions[LastResolve(i)].pages
                       /\ e \in linked[i] \cap errors}
OwedRow(i) == ResolutionRow(i, page[i].actions[LastResolve(i)].at)
BackfillResolutions ==
    /\ rows' = [e \in Codes |->
                  {r \in rows[e] :
                      ~ \E i \in Owed(e) :
                            r.incident = i /\ r.day = OwedRow(i).day}
                  \cup {OwedRow(i) : i \in Owed(e)}]
    /\ rows' # rows
    /\ UNCHANGED <<instant, page, listed, log, linked, errors, pinned, replayed>>

LifecycleNext ==
    \/ SecondElapses
    \/ \E i \in Incidents, c \in Commands : Pin(i, c)
    \/ \E a \in pinned : Publish(a)
    \/ \E i \in Incidents : Ingest(i)
    \/ \E e \in Codes : IngestError(e)
    \/ LinkCodes
    \/ BackfillResolutions

LifecycleSpec == LifecycleInit /\ [][LifecycleNext]_lifecycle

----------------------------------------------------------------------------

\* Every line of log.md has its record on the page and every record of an act
\* its line, whatever is retried: no act overwrites another in the page while
\* log.md keeps both.
LogTellsEveryAct ==
    \A i \in Incidents :
        /\ \A line \in log :
               line[2] = i => \E r \in Held(i, line[1]) : r.kind = line[3]
        /\ \A r \in ToSet(page[i].actions) :
               \/ <<r.at, i, r.kind>> \in log
               \/ r.kind = "record-action" /\ r.into # NoPage

\* The places an act is written agree.  Unless an act was published again, the
\* status is the one the last record left, an active page is listed as open
\* and a resolved one as resolved, a window is there exactly while monitoring;
\* and every row of an error page is the account of one resolve that wanted
\* it, the last of its day.
StatusAgrees(i) ==
    /\ page[i].actions # <<>> => page[i].status = Last(page[i].actions).after
    /\ listed[i] = IF page[i].status \in ACTIVE THEN {"Open"} ELSE {"Resolved"}
    /\ page[i].window # NoWindow <=> page[i].status = "monitoring"
ResolvesOn(i, day) ==
    {n \in DOMAIN page[i].actions :
        LET r == page[i].actions[n] IN r.kind = "resolve" /\ r.pages /\ Day(r.at) = day}
RowAgrees(e, row) ==
    /\ \E n \in ResolvesOn(row.incident, row.day) :
           /\ page[row.incident].actions[n].at = row.at
           /\ row.incident \notin replayed =>
                  \A m \in ResolvesOn(row.incident, row.day) : m <= n
    /\ \A other \in rows[e] :
           other.incident = row.incident /\ other.day = row.day => other = row
PagesAgree ==
    /\ \A i \in Incidents \ replayed : StatusAgrees(i)
    /\ \A e \in Codes : \A row \in rows[e] : RowAgrees(e, row)

\* What an operator's act leaves: every place it is written in tells it.
PagesTellEveryAct == LogTellsEveryAct /\ PagesAgree

\* Nothing closes an incident but a resolve.  A page that is closed and not
\* merged was resolved by an operator; no pages are merged round in a ring, so
\* from every page the merges lead to one that is not merged; and what a
\* duplicate cited is cited on the page it was merged into.
LastMove(i) == LastOf(page[i].actions, {"merge", "reopen"})
SupersededBy(i) ==
    IF LastMove(i) # 0 /\ page[i].actions[LastMove(i)].kind = "merge"
    THEN page[i].actions[LastMove(i)].into ELSE NoPage
NothingClosesUnresolved ==
    replayed = {} =>
        /\ \A i \in Incidents :
              IF SupersededBy(i) = NoPage
              THEN page[i].status \in ACTIVE \/ LastResolve(i) # 0
              ELSE page[i].evidence \subseteq page[SupersededBy(i)].evidence
        /\ \A ring \in SUBSET Incidents :
              ring # {} => \E i \in ring : SupersededBy(i) \notin ring
=============================================================================
