----------------------------- MODULE Compactor -----------------------------
(***************************************************************************)
(* compactor.py with patterns.py, normalize.py, changes.py and the         *)
(* Registry of state.py: the digest of one database's day, made again at   *)
(* every tick of the day and once more at night, from whatever its sources *)
(* hold by then, against what the registry remembers.                      *)
(*                                                                         *)
(* A document is a record: when it happened, its source, the database and  *)
(* the service it names, the fields that may hold its message, the program *)
(* and the host it names; a message is the words of its lines (what the    *)
(* rules look for), its template and the codes in it.  Instants are hours. *)
(* Documents arrive late; a compaction reads its sources one after         *)
(* another, each as of one moment (Elasticsearch's point in time), and may *)
(* be killed.  Compactions of one database do not overlap here.            *)
(***************************************************************************)
EXTENDS Integers, Sequences, FiniteSets, SequencesExt, FiniteSetsExt, Functions, TLC

CONSTANTS
    Documents,      \* what the sources log
    Late,           \* those that may take more than an hour to arrive (bound)
    Sources,        \* a sequence: the configured order
    Rules,          \* the pattern library: a sequence of [name, class, word]
    Db,             \* the database
    Past,           \* the registry the first compaction finds
    LastHour,       \* when the model stops (bound)
    MaxKills        \* (bound)

VARIABLES
    now,            \* the hour
    arrived,        \* documents Elasticsearch holds
    registry,       \* state/registry/<db>.json
    digest,         \* day -> the digest on disk
    run,            \* the compaction under way
    kills

vars == <<now, arrived, registry, digest, run, kills>>

DayHours == 4
MaxGroups == 1              \* max_groups_per_rule, max_unmatched_groups
AnomalyFactor == 2
AnomalyMinCount == 2
AnomalyWindow == 2
BaselineDays == 3
SilenceDays == 3
SilenceMinHours == 4
AfterChangeHours == 1
Scale == 12                 \* rates are per twelve hours: whole numbers

Midnight(day) == day * DayHours
DayOf(hour) == hour \div DayHours
Days == 0..DayOf(LastHour)
NoDigest == [to |-> -1]
Idle == [pc |-> "idle"]
SourceSet == ToSet(Sources)
At(f, k, default) == IF k \in DOMAIN f THEN f[k] ELSE default

----------------------------------------------------------------------------
(* Reading a document.                                                     *)

\* db_of, and for a listener document without a database its service's.
DbOf(doc) == IF doc.db # "" THEN doc.db ELSE IF doc.source = "listener" THEN doc.service ELSE ""
\* normalize: the message is the first field that says anything.
NoMessage == [lines |-> <<>>, template |-> "", codes |-> {}]
Normalize(doc) ==
    LET said == SelectSeq(doc.texts, LAMBDA text : text # NoMessage)
        message == IF said = <<>> THEN NoMessage ELSE said[1]
    IN message @@ [id |-> doc.id, at |-> doc.at, source |-> doc.source, db |-> DbOf(doc),
                   service |-> doc.service, program |-> doc.program, host |-> doc.host]
\* Config.db_filter: by a database field, or by a spelling of the service.
Selected(doc) == Db \in {doc.db, doc.service}
\* service_name_like, host_name_like: not the listener's own name, no
\* stop word.
ServiceNameLike(service) == service \notin {"", "listener"}
HostNameLike(host) == host \notin {"", "localhost"}

\* PatternLibrary.classify: the first rule one of whose words it carries.
Unmatched == [name |-> "unmatched", class |-> "unmatched", word |-> ""]
Classify(doc) ==
    LET hits == {i \in DOMAIN Rules : Rules[i].word \in Range(doc.lines)}
    IN IF hits = {} THEN Unmatched ELSE Rules[Min(hits)]
IsNotable(rule) == rule.class \in {"lifecycle", "dataguard", "warning", "error", "unmatched"}

\* ES.scan of window_query: the window's documents in the order of time.
Window(name, t0, t1) == {doc \in arrived : doc.source = name /\ t0 <= doc.at /\ doc.at < t1}
Scan(docs) == SetToSortSeq(docs, LAMBDA a, b : a.at < b.at \/ (a.at = b.at /\ a.id < b.id))

\* _check_schema: there are events, but none names a database in any way.
Drifted(name, t0, t1) ==
    /\ Window(name, t0, t1) # {}
    /\ \A doc \in Window(name, t0, t1) : doc.db = "" /\ doc.service = ""

\* discover_dbs: the registry's, and those a database field names.
Discovered(t0, t1) ==
    {Db} \cup ({doc.db : doc \in UNION {Window(name, t0, t1) : name \in SourceSet}} \ {""})

----------------------------------------------------------------------------
(* Groups.                                                                 *)

\* (rule, template, codes), as _compact_source keys them.
GroupOf(doc) == <<Classify(doc).name, doc.template, doc.codes>>

NoGroups == [shown |-> <<>>, dropped |-> {}, lost |-> 0, codes |-> {}]
Kept(acc) == {acc.shown[i].key : i \in DOMAIN acc.shown}

\* At the cap a group that carries a code no kept group shows still gets
\* in, up to once more the cap.
Refused(acc, doc) ==
    LET rule == Classify(doc).name
        kept == Cardinality({key \in Kept(acc) : key[1] = rule})
        carried == UNION {key[3] : key \in Kept(acc)}
    IN /\ GroupOf(doc) \notin Kept(acc)
       /\ kept >= MaxGroups
       /\ kept >= 2 * MaxGroups \/ doc.codes \subseteq carried

\* _Group.add, or a new group, or one more dropped.
Grouped(acc, doc) ==
    LET key == GroupOf(doc)
        at == {i \in DOMAIN acc.shown : acc.shown[i].key = key}
        told == [acc EXCEPT !.codes = @ \cup doc.codes]
        first == [key |-> key, class |-> Classify(doc).class, count |-> 1,
                  first |-> doc.at, last |-> doc.at]
    IN IF Refused(acc, doc)
       THEN [told EXCEPT !.dropped = @ \cup {key}, !.lost = @ + 1]
       ELSE IF at = {} THEN [told EXCEPT !.shown = Append(@, first)]
       ELSE [told EXCEPT !.shown[Min(at)].count = @ + 1, !.shown[Min(at)].last = doc.at]

Groups(docs) == FoldLeft(Grouped, NoGroups, SelectSeq(Scan(docs), LAMBDA d : IsNotable(Classify(d))))

\* code_counts, there only when something was dropped.
CodeCounts(acc) == IF acc.lost > 0 THEN acc.codes ELSE {}

\* Mutant: listed class by class, and the list of classes is not whole.
SortedByClass(shown) ==
    LET of(class) == SelectSeq(shown, LAMBDA g : g.class = class)
    IN of("error") \o of("warning") \o of("unmatched")

\* Errors first, then by when they began.
Sorted(shown) ==
    LET errors == SelectSeq(shown, LAMBDA g : g.class = "error")
        rest == SelectSeq(shown, LAMBDA g : g.class # "error")
    IN errors \o rest

----------------------------------------------------------------------------
(* The registry.                                                           *)

\* _note, for every sighting <<key, hour>>: only the first and the last.
NoteAll(seen, sightings) ==
    LET times(k) == {s[2] : s \in {s \in sightings : s[1] = k}}
                    \cup (IF k \in DOMAIN seen THEN {seen[k].first, seen[k].last} ELSE {})
    IN [k \in DOMAIN seen \cup {s[1] : s \in sightings} |->
           [first |-> Min(times(k)), last |-> Max(times(k))]]

\* note_code, note_host, note_service and note_program over a scan.
Noted(reg, name, docs) ==
    LET lsn == IF name = "listener" THEN docs ELSE {}
    IN [reg EXCEPT
        !.codes[name] = NoteAll(@, UNION {doc.codes \X {doc.at} : doc \in docs}),
        !.hosts = NoteAll(@, {<<doc.host, doc.at>> : doc \in {d \in docs : HostNameLike(d.host)}}),
        !.services = NoteAll(@, {<<doc.service, doc.at>> :
                                   doc \in {d \in lsn : ServiceNameLike(d.service)}}),
        !.programs = NoteAll(@, {<<doc.program, doc.at>> : doc \in {d \in lsn : d.program # ""}})]

NewInWindow(seen, t0, t1) == {k \in DOMAIN seen : t0 <= seen[k].first /\ seen[k].first < t1}
\* What the registry held before it kept sources apart is never news.
NewCodesInWindow(reg, name, t0, t1) == NewInWindow(reg.codes[name], t0, t1) \ reg.legacy

\* set_day_counts: a shorter window never replaces a longer one.
SetDayCounts(reg, day, name, counts) ==
    IF reg.counts[day][name].hours > counts.hours THEN reg
    ELSE [reg EXCEPT !.counts[day][name] = counts]

\* The days before this one of which something is recorded, newest last.
Prior(reg, day, n) ==
    LET days == SetToSortSeq({d \in DOMAIN reg.counts :
                    d < day /\ \E s \in SourceSet : reg.counts[d][s].hours > 0}, <)
    IN SubSeq(days, Max({1, Len(days) - n + 1}), Len(days))

Rate(count, hours) == (count * Scale) \div hours
Baseline(reg, day, name, counter) ==
    LET recorded == SelectSeq(Prior(reg, day, BaselineDays),
                              LAMBDA d : reg.counts[d][name].hours > 0)
    IN [i \in DOMAIN recorded |->
           LET counts == reg.counts[recorded[i]][name]
           IN Rate(At(counts.counters, counter, 0), counts.hours)]
Median(rates) == SortSeq(rates, <)[(Len(rates) + 1) \div 2]

ActiveDaysBefore(reg, day, name) ==
    Len(SelectSeq(Prior(reg, day, SilenceDays), LAMBDA d : reg.counts[d][name].total > 0))

\* note_anomaly: the day keeps a counter's strongest.
NoteAnomaly(kept, delta) ==
    LET c == delta.counter
    IN IF c \in DOMAIN kept /\ kept[c].rate >= delta.rate THEN kept ELSE (c :> delta) @@ kept

----------------------------------------------------------------------------
(* Deltas.                                                                 *)

Routine(docs) == {doc \in docs : Classify(doc).class = "routine"}
Counters(docs) ==
    [c \in {Classify(doc).name : doc \in Routine(docs)} |->
        Cardinality({doc \in Routine(docs) : Classify(doc).name = c})]

\* The spans a rate is measured over: the window, and its last hours.
Spans(docs, t0, t1) ==
    LET recent == Max({t0, t1 - AnomalyWindow})
    IN {[counters |-> Counters(docs), hours |-> t1 - t0],
        [counters |-> Counters({doc \in docs : doc.at >= recent}), hours |-> t1 - recent]}

\* _rate_anomalies: the counters that fire now, each at its highest rate.
Fired(reg, day, name, docs, t0, t1) ==
    LET rates(c) == {Rate(s.counters[c], s.hours) :
                       s \in {s \in Spans(docs, t0, t1) : At(s.counters, c, 0) >= AnomalyMinCount}}
        base(c) == Baseline(reg, day, name, c)
        fires(c) == /\ Len(base(c)) >= BaselineDays
                    /\ Median(base(c)) > 0
                    /\ \E r \in rates(c) : r > AnomalyFactor * Median(base(c))
    IN {[counter |-> c, rate |-> Max(rates(c))] : c \in {c \in DOMAIN Counters(docs) : fires(c)}}

Anomalies(kept, fired) ==
    FoldSet(LAMBDA d, k : NoteAnomaly(k, d), kept, fired)

\* A window from the day's midnight restates what earlier ticks saw.
Restated(kept, fired, day, t0) ==
    IF t0 = Midnight(day) THEN DOMAIN kept ELSE {d.counter : d \in fired}

Silent(reg, day, name, docs, hours) ==
    /\ docs = {}
    /\ hours >= SilenceMinHours
    /\ ActiveDaysBefore(reg, day, name) = SilenceDays

Deltas(reg, kept, fired, day, name, docs, t0, t1) ==
    (IF name \in {"alert", "dataguard"}
     THEN {<<"first_ever_code", name, c>> : c \in NewCodesInWindow(reg, name, t0, t1)} ELSE {})
    \cup
    (IF name = "listener"
     THEN {<<"new_service", name, s>> :
             s \in {s \in NewInWindow(reg.services, t0, t1) : ServiceNameLike(s)}}
          \cup {<<"new_client_program", name, p>> : p \in NewInWindow(reg.programs, t0, t1)}
     ELSE {})
    \cup {<<"rate_anomaly", name, c>> : c \in Restated(kept, fired, day, t0)}
    \cup (IF Silent(reg, day, name, docs, t1 - t0) THEN {<<"silence", name, "">>} ELSE {})

\* after_change: an error or a Data Guard group that began within
\* AfterChangeHours of a lifecycle event of any source; the latest counts.
AfterChange(sections) ==
    LET stamps == UNION {sections[n].stamps : n \in DOMAIN sections}
        near(g) == {s \in stamps : s <= g.first /\ g.first - s <= AfterChangeHours}
    IN UNION {{<<"after_change", n, g.key, g.first - Max(near(g))>> :
                 g \in {g \in Range(sections[n].shown) :
                          g.class \in {"error", "dataguard"} /\ near(g) # {}}} :
              n \in DOMAIN sections}

\* changes_of: the lifecycle groups of every source.
ChangesOf(sections) ==
    UNION {{g \in Range(sections[n].shown) : g.class = "lifecycle"} : n \in DOMAIN sections}

----------------------------------------------------------------------------
(* One compaction.                                                         *)

Begin(day) ==
    LET t0 == Midnight(day)  t1 == Min({now, Midnight(day + 1)})
    IN /\ run = Idle
       /\ day \in {DayOf(now), DayOf(now) - 1} \cap Days /\ t0 < t1
       /\ \A name \in SourceSet : ~Drifted(name, t0, t1)
       /\ Db \in Discovered(t0, t1)
       /\ run' = [pc |-> "read", day |-> day, t0 |-> t0, t1 |-> t1,
                  reg |-> registry, sections |-> <<>>, deltas |-> {}, read |-> {}]
       /\ UNCHANGED <<now, arrived, registry, digest, kills>>

\* _compact_source of the next source.
CompactSource ==
    /\ run.pc = "read" /\ Cardinality(DOMAIN run.sections) < Len(Sources)
    /\ LET name == Sources[Cardinality(DOMAIN run.sections) + 1]
           docs == {Normalize(doc) : doc \in {d \in Window(name, run.t0, run.t1) : Selected(d)}}
           noted == Noted(run.reg, name, docs)
           fired == Fired(noted, run.day, name, docs, run.t0, run.t1)
           kept == Anomalies(noted.anomalies[run.day][name], fired)
           reg == [noted EXCEPT !.anomalies[run.day][name] = kept]
           groups == Groups(docs)
           section == [total |-> Cardinality(docs), shown |-> Sorted(groups.shown),
                       lost |-> groups.lost, dropped |-> groups.dropped,
                       codes |-> CodeCounts(groups), counters |-> Counters(docs),
                       stamps |-> {doc.at : doc \in {d \in docs : Classify(d).class = "lifecycle"}}]
       IN /\ docs = {} => ~Drifted(name, run.t0, run.t1)
          /\ run' = [run EXCEPT
                !.sections = (name :> section) @@ @,
                !.deltas = @ \cup Deltas(reg, kept, fired, run.day, name, docs, run.t0, run.t1),
                !.read = @ \cup docs,
                !.reg = SetDayCounts(reg, run.day, name,
                            [total |-> Cardinality(docs), counters |-> Counters(docs),
                             hours |-> run.t1 - run.t0])]
    /\ UNCHANGED <<now, arrived, registry, digest, kills>>

\* _check_schema raised: the command ends with nothing written.
SchemaDrifts ==
    /\ run.pc = "read" /\ Cardinality(DOMAIN run.sections) < Len(Sources)
    /\ Drifted(Sources[Cardinality(DOMAIN run.sections) + 1], run.t0, run.t1)
    /\ run' = Idle
    /\ UNCHANGED <<now, arrived, registry, digest, kills>>

Save ==
    /\ run.pc = "read" /\ Cardinality(DOMAIN run.sections) = Len(Sources)
    /\ registry' = run.reg
    /\ run' = [run EXCEPT !.pc = "emit", !.deltas = @ \cup AfterChange(run.sections)]
    /\ UNCHANGED <<now, arrived, digest, kills>>

Emit ==
    /\ run.pc = "emit"
    /\ digest' = [digest EXCEPT ![run.day] =
                    [to |-> run.t1, sections |-> run.sections, deltas |-> run.deltas,
                     changes |-> ChangesOf(run.sections), read |-> run.read]]
    /\ run' = Idle
    /\ UNCHANGED <<now, arrived, registry, kills>>

Kill ==
    /\ run # Idle /\ kills < MaxKills
    /\ run' = Idle /\ kills' = kills + 1
    /\ UNCHANGED <<now, arrived, registry, digest>>

\* What a source logged in a past hour reaches Elasticsearch, in one batch
\* but for the late ones; an hour passes.
Batches ==
    {{doc} : doc \in Late} \cup
    {{doc \in Documents \ Late : doc.at = d.at /\ doc.source = d.source} : d \in Documents \ Late}
Arrive(batch) ==
    /\ \A doc \in batch : doc \notin arrived /\ doc.at < now
    /\ arrived' = arrived \cup batch
    /\ UNCHANGED <<now, registry, digest, run, kills>>
HourPasses ==
    /\ now < LastHour
    /\ \A doc \in Documents \ Late : doc.at < now => doc \in arrived
    /\ now' = now + 1
    /\ UNCHANGED <<arrived, registry, digest, run, kills>>

Init ==
    /\ now = Midnight(Min({d \in Days : \A s \in SourceSet : Past.counts[d][s].hours = 0}))
    /\ arrived = {} /\ registry = Past
    /\ digest = [d \in Days |-> NoDigest] /\ run = Idle /\ kills = 0

Next ==
    \/ \E day \in Days : Begin(day)
    \/ CompactSource \/ SchemaDrifts \/ Save \/ Emit \/ Kill \/ HourPasses
    \/ \E batch \in Batches : Arrive(batch)

Spec == Init /\ [][Next]_vars

----------------------------------------------------------------------------

\* content_hash: the deltas without what moves from tick to tick, each
\* source's total, its groups' rule, template and count.
ContentHash(d) ==
    <<d.deltas,
      [n \in DOMAIN d.sections |->
          <<d.sections[n].total,
            [i \in DOMAIN d.sections[n].shown |->
                <<d.sections[n].shown[i].key[1], d.sections[n].shown[i].key[2],
                  d.sections[n].shown[i].count>>]>>]>>

\* No group cap hides a code: every code of a notable event the digest
\* read is a shown group's, or among the code counts; and every notable
\* event is in a shown group or counted as dropped.
HidesNoCode(d) ==
    \A n \in DOMAIN d.sections :
        LET section == d.sections[n]
            notable == {doc \in d.read : doc.source = n /\ IsNotable(Classify(doc))}
        IN /\ UNION {doc.codes : doc \in notable}
              \subseteq section.codes \cup UNION {g.key[3] : g \in Range(section.shown)}
           /\ Cardinality(notable) = section.lost
                + FoldSeq(LAMBDA g, sum : g.count + sum, 0, section.shown)

\* News: <<kind, source, what>> deltas that do not wear off within a day.
News(d) == {delta \in d.deltas : delta[1] \in {"first_ever_code", "rate_anomaly"}}

\* What a day's digest may lose when it is made again: nothing but news
\* that an older document, read since, has made old.
StaysNews(old, new) ==
    \A delta \in News(old) :
        \/ delta \in new.deltas
        \/ delta[1] = "first_ever_code"
           /\ registry.codes[delta[2]][delta[3]].first < Midnight(DayOf(old.to - 1))

\* The digest of a day hides no code, keeps the news its earlier ticks
\* told, calls no source silent that has events, and looks unchanged (its
\* hash is the trigger of the next ingest) only when it read the same.
DigestsTellTheDay ==
    [][\A day \in Days :
        digest[day]' # digest[day] =>
          LET old == digest[day]  new == digest[day]'
          IN /\ HidesNoCode(new)
             /\ \A name \in SourceSet :
                   <<"silence", name, "">> \in new.deltas =>
                       ~ \E doc \in new.read : doc.source = name
             /\ old # NoDigest =>
                   /\ StaysNews(old, new)
                   /\ ContentHash(old) = ContentHash(new) => old.read = new.read]_vars
=============================================================================
