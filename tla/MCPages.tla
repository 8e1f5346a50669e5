------------------------------ MODULE MCPages ------------------------------
(***************************************************************************)
(* Small instances of what writes and reads the wiki, side by side: each   *)
(* behaviour is a behaviour of one of them, the others stand still.  The   *)
(* rails of the agentic stages are extended, so their variables, constants *)
(* and invariant are those of their own module; the others are instances.  *)
(***************************************************************************)
EXTENDS StageRails, Sequences, TLC

VARIABLES
    component,             \* whose behaviour this is
    now, arrived, registry, digest, run, kills,
    history, edits, today, cache, heat_cache, locks, threads, requests

compacting == <<now, arrived, registry, digest, run, kills>>
serving == <<history, edits, today, cache, heat_cache, locks, threads, requests>>

\* A day of two sources after three quiet ones: an error of the day before
\* and one of the day arrive late, a listener burst, a full group cap.
NoText == [lines |-> <<>>, template |-> "", codes |-> {}]
Doc(id, at, source, line, template, codes) ==
    [id |-> id, at |-> at, source |-> source, db |-> "db", service |-> "", program |-> "", host |-> "h",
     texts |-> <<NoText, [lines |-> <<line>>, template |-> template, codes |-> codes]>>]
Connect(id, program) ==
    [Doc(id, 12, "listener", "establish", "e", {}) EXCEPT !.db = "", !.service = "db", !.program = program]
Logged == {
    Doc(1, 11, "alert", "error", "t", {"ORA-600"}),
    Doc(2, 12, "alert", "alter", "a", {}),
    Doc(3, 12, "alert", "error", "t", {"ORA-600"}),
    Doc(4, 13, "alert", "error", "t", {"ORA-1555"}),
    Doc(5, 13, "alert", "error", "u", {"ORA-7445"}),
    Connect(6, "sqlplus"),
    Connect(7, "") }
Library == <<[name |-> "change", class |-> "lifecycle", word |-> "alter"],
         [name |-> "ora", class |-> "error", word |-> "error"],
         [name |-> "establish", class |-> "routine", word |-> "establish"]>>
Slow == {d \in Logged : d.id \in {1,5}}
AlertThenListener == <<"alert", "listener">>
PerSource == [s \in {"alert", "listener"} |-> <<>>]
QuietDay == [total |-> 1, counters |-> "establish" :> 1, hours |-> 4]
NoDay == [total |-> 0, counters |-> <<>>, hours |-> 0]
ThreeDays ==
    [codes |-> PerSource, legacy |-> {}, hosts |-> <<>>, services |-> <<>>, programs |-> <<>>,
     counts |-> [d \in 0..4 |-> [s \in {"alert", "listener"} |-> IF d < 3 THEN QuietDay ELSE NoDay]],
     anomalies |-> [d \in 0..4 |-> PerSource]]
Compaction == INSTANCE Compactor WITH
    Documents <- Logged, Late <- Slow, Sources <- AlertThenListener, Rules <- Library,
    Db <- "db", Past <- ThreeDays, LastHour <- 16, MaxKills <- 1

\* Two request threads over three commits, an incident among them, and two
\* more made meanwhile: an operator's, and a hand's that deletes a digest.
At(kind, name, day) == [kind |-> kind, name |-> name, day |-> day, at |-> 0]
Row(shape, day, text, cite) == [shape |-> shape, day |-> day, db |-> "db", text |-> text, cite |-> cite]
Under(heading, day, lines) == [heading |-> heading, day |-> day, lines |-> lines]
Composed(type, title, state, codes, links, sections) ==
    [parses |-> TRUE, type |-> type, title |-> title, db |-> "db", status |-> state, host |-> "h",
     researched |-> "", codes |-> codes, links |-> links, sections |-> sections]
Wrote(id, by, prefix, from, actor, pages) ==
    [id |-> id, by |-> by, prefix |-> prefix, run |-> from, actor |-> actor, at |-> 3,
     writes |-> pages, deletes |-> {}]
TheIncident == At("incident", "a", 0)
TheError == At("error", "ORA-600", 0)
TheDb == At("db", "db", 0)
TheDay == At("digest", "db", 3)
TheReport == [At("report", "", 3) EXCEPT !.at = 6]
Seen == Under("occurrences", 0, <<Row("occurrence", 2, "", ""), Row("prose", 0, "words", "")>>)
Known == Under("reference", 0, <<Row("cause", 0, "because", "oracle"), Row("note", 0, "beware", "blog")>>)
Closed == Under("resolution history", 0, <<Row("resolution", 3, "restart", "")>>)
OpenOne(links) == Composed("incident", "A", "open", <<"ORA-600">>, links, <<>>)
Counted == [alert |-> [error |-> 2], listener |-> [error |-> 2, warning |-> 0]]
Ingested == Wrote(1, "agent", "ingest", "r1", "",
    (TheIncident :> OpenOne({TheError, At("", "db", 0)}))
    @@ (TheError :> Composed("error", "E", "", <<>>, {TheIncident}, <<Seen>>))
    @@ (TheDb :> Composed("database", "D", "", <<>>, {}, <<Under("hosts", 0, <<>>)>>))
    @@ (At("journal", "db", 7) :>
            Composed("", "J", "", <<>>, {}, <<Under("calm", 2, <<>>), Under("storm", 3, <<>>)>>)))
Digested == Wrote(2, "machine", "digest", "r1", "",
    (TheDay :> Composed("", "Monday", "", <<>>, {}, <<>>))
    @@ (At("sidecar", "db", 3) :>
            [parses |-> TRUE, counts |-> Counted, changes |-> {[ts |-> 1, rule |-> "alter"]}]))
Reported == Wrote(4, "agent", "report", "r2", "",
    (TheIncident :> [OpenOne({TheDay}) EXCEPT !.status = "monitoring"])
    @@ (TheReport :> Composed("", "R", "", <<>>, {TheIncident}, <<>>)))
Resolved == Wrote(3, "operator", "incident", "", "ann",
    (TheIncident :> [OpenOne({TheError}) EXCEPT !.status = "resolved"])
    @@ (TheError :> Composed("error", "E", "", <<>>, {TheIncident}, <<Seen, Known, Closed>>)))
Unreadable == [Composed("", "R", "", <<>>, {}, <<>>) EXCEPT !.parses = FALSE]
Tidied == [Wrote(5, "hand", "", "", "", At("report", "", 3) :> Unreadable) EXCEPT !.deletes = {TheDay}]
TheHistory == <<Ingested, Digested, Reported>>
Meanwhile == {Resolved, Tidied}
ByHand == {(At("incident", "b", 0) :> [OpenOne({}) EXCEPT !.title = "B"]) @@ (TheIncident :> OpenOne({}))}
Verdicts == ("a" :> [verdict |-> "quiet", revision |-> 2, digests |-> {TheDay}])
TwoThreads == {"t1", "t2"}
Reading == INSTANCE ReadModel WITH
    Threads <- TwoThreads, Commits <- Meanwhile, Start <- TheHistory, Edits <- ByHand,
    Facts <- Verdicts, Window <- 2, LastDay <- 4, MaxAsks <- 3,
    work <- edits, asked <- requests

SuiteInit ==
    /\ component \in {"stages", "compactor", "reading"}
    /\ Init /\ Compaction!Init /\ Reading!Init

SuiteNext ==
    \/ component = "stages" /\ Next
       /\ UNCHANGED <<component, compacting, serving>>
    \/ component = "compactor" /\ Compaction!Next
       /\ UNCHANGED <<component, vars, serving>>
    \/ component = "reading" /\ Reading!Next
       /\ UNCHANGED <<component, vars, compacting>>

SuiteSpec == SuiteInit /\ [][SuiteNext]_<<component, vars, compacting, serving>>

----------------------------------------------------------------------------

\* The digest of a day tells all of it (Compactor).
DigestsTellTheDay == Compaction!DigestsTellTheDay
\* An answer of the workbench describes one revision (ReadModel).
AnswersTellOneRevision == component = "reading" => Reading!AnswersTellOneRevision
=============================================================================
