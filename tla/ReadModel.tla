----------------------------- MODULE ReadModel -----------------------------
(***************************************************************************)
(* What the workbench reads (readmodel.py, heat.py, portal/api.py,         *)
(* portal/cache.py, portal/wire.py): request threads answer the fleet, the *)
(* heat map, a database, a page, a search, an incident and the queue from  *)
(* a snapshot pinned to one revision of the wiki and kept in a one-slot    *)
(* cache, while ticks, operators and hands commit, and edit uncommitted.   *)
(* A path is [kind, name, day, at]; a page is its parsed lines, each with  *)
(* the row pattern it matches; days stand for dates and for instants.      *)
(***************************************************************************)
EXTENDS Integers, Sequences, FiniteSets, SequencesExt, FiniteSetsExt

CONSTANTS
    Threads,        \* request threads of the server
    Commits,        \* the commits that may be made, each once, in any order
    Edits,          \* hand edits that may be left uncommitted: path -> page
    Start,          \* the history the server finds
    Facts,          \* the last monitoring verdict of an incident, by slug
    Window,         \* days of the heat map and of the touch join
    LastDay,        \* bound on the clock
    MaxAsks         \* requests (bound)

VARIABLES
    history,        \* the commits of the wiki, oldest first
    work,           \* what the working tree holds beyond HEAD
    today,          \* the clock
    cache, heat_cache,      \* the value of each one-slot cache, or Nothing
    locks,          \* who holds each cache's trylock: "snapshot", "heat"
    threads,        \* each thread: [pc, ask, head, tree, snap, alone]
    asked           \* requests so far

vars == <<history, work, today, cache, heat_cache, locks, threads, asked>>

Nothing == [revision |-> 0]
Nobody == "nobody"
Tip == Len(history)

----------------------------------------------------------------------------
(* The wiki at a revision *)

Fold(tree, commit) ==
    [p \in (DOMAIN tree \ commit.deletes) \cup DOMAIN commit.writes |->
        IF p \in DOMAIN commit.writes THEN commit.writes[p] ELSE tree[p]]
TreeAt(rev) == FoldLeft(Fold, <<>>, SubSeq(history, 1, rev))
WorkingTree == [p \in DOMAIN TreeAt(Tip) \cup DOMAIN work |->
                   IF p \in DOMAIN work THEN work[p] ELSE TreeAt(Tip)[p]]

PathOf(kind, name, day) == [kind |-> kind, name |-> name, day |-> day, at |-> 0]
IsMd(path) == path.kind # "sidecar"
IsMachine(path) == path.kind \in {"digest", "sidecar"}
StrayPaths == {p \in DOMAIN work : ~IsMachine(p)}

Touching(path, rev) ==
    {i \in 1..rev : path \in DOMAIN history[i].writes \cup history[i].deletes}
\* Mutant: the walk is not pinned to the revision.
LastCommitsAnywhere(rev) ==
    [p \in {q \in DOMAIN TreeAt(rev) : Touching(q, Tip) # {}} |-> Max(Touching(p, Tip))]
LastCommits(rev) ==
    [p \in {q \in DOMAIN TreeAt(rev) : Touching(q, rev) # {}} |-> Max(Touching(p, rev))]
PageHistory(path) == SetToSortSeq(Touching(path, Tip), >)

\* A touch: an incident page a tick's commit wrote inside the window.
ReadTouches(rev, since) ==
    UNION {{[run_id |-> history[i].run, slug |-> p.name, commit |-> i, at |-> history[i].at] :
               p \in {q \in DOMAIN history[i].writes \cup history[i].deletes : q.kind = "incident"}} :
           i \in {j \in 1..rev : history[j].run # "" /\ history[j].at >= since}}

----------------------------------------------------------------------------
(* Parsing a page *)

\* The lines of every section of that heading whose row has that shape.
RowsUnder(page, heading, shape) ==
    FlattenSeq([i \in 1..Len(page.sections) |->
        IF page.sections[i].heading = heading
        THEN SelectSeq(page.sections[i].lines, LAMBDA l : l.shape = shape) ELSE <<>>])
NewestFirst(rows) ==
    FlattenSeq([i \in 1..LastDay |->
        SelectSeq(rows, LAMBDA r : r.day = LastDay + 1 - i)])
\* One row per day and database, as the writer keeps them.
ParseOccurrences(code, page) ==
    {[code |-> code, day |-> r.day, db |-> r.db] : r \in ToSet(RowsUnder(page, "occurrences", "occurrence"))}
ParseResolutions(page) == NewestFirst(RowsUnder(page, "resolution history", "resolution"))
ParsePastFixes(page) == RowsUnder(page, "past fixes", "past fix")
ParseJournal(page) ==
    NewestFirst(FlattenSeq([i \in 1..Len(page.sections) |->
        IF page.sections[i].day = 0 THEN <<>>
        ELSE <<[day |-> page.sections[i].day, headline |-> page.sections[i].heading]>>]))

\* A paragraph without its trailing citation, and the citation.
SplitCitation(line) == [text |-> line.text, citation |-> line.cite]
\* The first cause under `## Reference` makes the page researched.
ParseResearch(page) ==
    LET causes == RowsUnder(page, "reference", "cause")
        actions == RowsUnder(page, "reference", "action")
        first == {causes[1]} \cup {actions[i] : i \in DOMAIN actions \cap {1}}
    IN  [researched |-> page.researched,
         cause |-> SplitCitation(causes[1]).text,
         action |-> IF actions = <<>> THEN "" ELSE SplitCitation(actions[1]).text,
         citations |-> {SplitCitation(l).citation : l \in first} \ {""},
         notes |-> [i \in 1..Len(RowsUnder(page, "reference", "note")) |->
                       SplitCitation(RowsUnder(page, "reference", "note")[i])]]
Researched(page) == RowsUnder(page, "reference", "cause") # <<>>

\* Who effectively wrote a page: the trailer, then the subject, then the path.
PrefixOrigin == [digest |-> "machine", html |-> "machine", ingest |-> "agent",
                 report |-> "agent", research |-> "agent", lint |-> "agent"]
OriginOf(path, commit) ==
    IF commit = 0 THEN "hand"
    ELSE IF history[commit].actor # "" THEN "operator"
    ELSE IF history[commit].prefix \in DOMAIN PrefixOrigin THEN PrefixOrigin[history[commit].prefix]
    ELSE IF IsMachine(path) THEN "machine" ELSE "hand"

\* A link is a path, or a stem only one page has.
Stem(path) == <<path.name, path.day, path.at>>
ResolveLink(target, pages) ==
    IF target \in pages THEN {target}
    ELSE LET hits == {p \in pages : Stem(p) = Stem(target)} IN
         IF Cardinality(hits) = 1 THEN hits ELSE {}

----------------------------------------------------------------------------
(* The snapshot *)

PageInfo(path, page, commits) ==
    LET commit == IF path \in DOMAIN commits THEN commits[path] ELSE 0 IN
    [path |-> path, type |-> page.type, title |-> page.title, db |-> page.db,
     origin |-> OriginOf(path, commit), commit |-> commit]

\* The consolidated report of a day, else its latest partial one.
ReportOfDay(inventory) ==
    LET ofDay(d) == {p \in inventory : p.kind = "report" /\ p.day = d}
        whole(d) == {p \in ofDay(d) : p.at = 0}
    IN  [d \in {p.day : p \in {q \in inventory : q.kind = "report"}} |->
            IF whole(d) # {} THEN CHOOSE p \in whole(d) : TRUE
            ELSE CHOOSE p \in ofDay(d) : \A q \in ofDay(d) : q.at <= p.at]

Readable(tree) == {p \in DOMAIN tree : IsMd(p) /\ ~IsMachine(p)}
Build(rev, tree, commits, touches) ==
    LET read == {p \in Readable(tree) : tree[p].parses}
        ofKind(kind) == {p \in read : p.kind = kind}
        md == {p \in DOMAIN tree : IsMd(p)}
        links == [p \in read |-> UNION {ResolveLink(t, md) : t \in tree[p].links}]
        keyed(S) == [c \in {p.name : p \in S} |-> CHOOSE p \in S : p.name = c]
        known == keyed({p \in ofKind("error") : Researched(tree[p])})
        resolved == keyed({p \in ofKind("error") : ParseResolutions(tree[p]) # <<>>})
        fixed == keyed({p \in ofKind("error") : ParsePastFixes(tree[p]) # <<>>})
        months(db) == SetToSortSeq({p \in ofKind("journal") : p.name = db}, LAMBDA p, q : p.day < q.day)
    IN  [revision |-> rev, built_at |-> today, inventory |-> DOMAIN tree,
         pages |-> [p \in read |-> PageInfo(p, tree[p], commits)],
         text |-> [p \in read |-> tree[p]],
         links |-> links,
         backlinks |-> [q \in UNION {links[p] : p \in read} |-> {p \in read : q \in links[p]}],
         incidents |-> [s \in {p.name : p \in {q \in ofKind("incident") : tree[q].type = "incident"}} |->
                            tree[CHOOSE p \in ofKind("incident") : p.name = s]],
         occurrences |-> UNION {ParseOccurrences(p.name, tree[p]) : p \in ofKind("error")},
         research |-> [c \in DOMAIN known |-> ParseResearch(tree[known[c]])],
         resolutions |-> [c \in DOMAIN resolved |-> ParseResolutions(tree[resolved[c]])],
         past_fixes |-> [c \in DOMAIN fixed |-> ParsePastFixes(tree[fixed[c]])],
         journals |-> [db \in {p.name : p \in {q \in ofKind("journal") : ParseJournal(tree[q]) # <<>>}} |->
                          NewestFirst(FlattenSeq([i \in 1..Len(months(db)) |-> ParseJournal(tree[months(db)[i]])]))],
         touches |-> touches,
         report_of_day |-> ReportOfDay(DOMAIN tree),
         dbs |-> {p.name : p \in {q \in DOMAIN tree : q.kind = "db"}}]

\* The last day a code the incident links was seen on its database.
LastSeen(inc, occurrences) ==
    LET days == {o.day : o \in {x \in occurrences : x.db = inc.db /\ x.code \in ToSet(inc.codes)}}
    IN  IF days = {} THEN 0 ELSE Max(days)
DbIncidents(snap, db) == {s \in DOMAIN snap.incidents : snap.incidents[s].db = db}
OccurrencesOf(snap, db) == {o \in snap.occurrences : o.db = db}
\* A digest's own sidecar, or on a day's report every database's.
ChangeSidecars(snap, path) ==
    {p \in snap.inventory :
        p.kind = "sidecar" /\ p.day = path.day
        /\ ((path.kind = "digest" /\ p.name = path.name) \/ path.kind = "report")}
\* Field hits before body hits.
Search(snap, needle) ==
    LET named(p) == {snap.pages[p].title, snap.pages[p].type, snap.pages[p].db}
                    \cup {s.heading : s \in ToSet(snap.text[p].sections)}
        said(p) == UNION {{l.text : l \in ToSet(s.lines)} : s \in ToSet(snap.text[p].sections)}
        field == {p \in DOMAIN snap.pages : needle \in named(p)}
        body == {p \in DOMAIN snap.pages : needle \in said(p)}
    IN  <<field, body \ field>>

----------------------------------------------------------------------------
(* The heat map *)

Classes == {"error", "warning", "unmatched"}
WindowDays(day) == [i \in 1..Window |-> day - Window + i]
DigestPath(db, day) == PathOf("sidecar", db, day)
ParseCounts(sidecar, class) ==
    MapThenSumSet(LAMBDA s : sidecar.counts[s][class],
                  {s \in DOMAIN sidecar.counts : class \in DOMAIN sidecar.counts[s]})
\* No digest, or one nobody can read, is not a quiet day.
Unwatched == -1
RowsOf(snap, tree, days) ==
    {[db |-> db,
      host |-> LET page == PathOf("db", db, 0) IN
               IF page \in DOMAIN snap.text THEN snap.text[page].host ELSE "",
      counts |-> [c \in Classes |-> [i \in 1..Window |->
          LET p == DigestPath(db, days[i]) IN
          IF p \in DOMAIN tree /\ tree[p].parses THEN ParseCounts(tree[p], c) ELSE Unwatched]]] :
     db \in snap.dbs}
HeatBuild(snap) ==
    [revision |-> snap.revision, built_at |-> today, days |-> WindowDays(today),
     rows |-> RowsOf(snap, TreeAt(snap.revision), WindowDays(today))]

----------------------------------------------------------------------------
(* The answers *)

Refused(status) == [status |-> status]
Provenance(value, head) == [revision |-> value.revision, built_at |-> value.built_at, head |-> head]
Ownership(info) == [origin |-> info.origin, commit |-> info.commit]

FleetRow(snap, db) ==
    LET own(status) == {s \in DbIncidents(snap, db) : snap.incidents[s].status = status} IN
    [db |-> db, open |-> Cardinality(own("open")), monitoring |-> Cardinality(own("monitoring")),
     journal |-> IF db \in DOMAIN snap.journals THEN snap.journals[db][1] ELSE Nothing,
     errors |-> Cardinality({o \in OccurrencesOf(snap, db) : o.day >= today - Window})]
Fleet(snap, head) ==
    [prov |-> Provenance(snap, head), rows |-> {FleetRow(snap, db) : db \in snap.dbs}]

Heat(heat, head, span) ==
    IF span \notin 1..Window THEN Refused(400)
    ELSE [prov |-> Provenance(heat, head),
          days |-> SubSeq(heat.days, Window - span + 1, Window),
          rows |-> {[r EXCEPT !.counts = [c \in Classes |-> SubSeq(r.counts[c], Window - span + 1, Window)]] : r \in heat.rows}]

PageBody(snap, path) ==
    [path |-> path, type |-> snap.pages[path].type, title |-> snap.pages[path].title,
     owner |-> Ownership(snap.pages[path]),
     body |-> snap.text[path],
     backlinks |-> IF path \in DOMAIN snap.backlinks THEN snap.backlinks[path] ELSE {}]
DbIncidentRow(snap, slug) ==
    [slug |-> slug, status |-> snap.incidents[slug].status,
     owner |-> Ownership(snap.pages[PathOf("incident", slug, 0)])]
ErrorRow(snap, db, code) ==
    LET seen == {o \in OccurrencesOf(snap, db) : o.code = code} IN
    [code |-> code, count |-> Cardinality(seen), last_day |-> Max({o.day : o \in seen}),
     researched |-> IF code \in DOMAIN snap.research THEN snap.research[code].researched ELSE "",
     resolved |-> IF code \in DOMAIN snap.resolutions THEN Len(snap.resolutions[code]) ELSE 0]
Database(snap, head, name) ==
    IF name \notin snap.dbs THEN Refused(404)
    ELSE [prov |-> Provenance(snap, head),
          page |-> {PageBody(snap, p) : p \in {q \in DOMAIN snap.pages : q.kind = "db" /\ q.name = name}},
          incidents |-> {DbIncidentRow(snap, s) : s \in DbIncidents(snap, name)},
          errors |-> {ErrorRow(snap, name, c) : c \in {o.code : o \in OccurrencesOf(snap, name)}},
          journal |-> IF name \in DOMAIN snap.journals THEN snap.journals[name] ELSE <<>>]

\* The changes of the page's day, each with the digest page that lists it.
PageChanges(snap, tree, sidecars) ==
    UNION {{[db |-> p.name, ts |-> c.ts, rule |-> c.rule,
             page |-> {[p EXCEPT !.kind = "digest"]} \cap snap.inventory] : c \in tree[p].changes} :
           p \in {q \in sidecars : q \in DOMAIN tree /\ tree[q].parses}}
\* A page the snapshot did not read is read at its revision.
LazyTree(snap) == TreeAt(snap.revision)
LazyBody(snap, path) ==
    [path |-> path, type |-> "", title |-> LazyTree(snap)[path].title,
     owner |-> [origin |-> IF IsMachine(path) THEN "machine" ELSE "hand", commit |-> 0],
     body |-> LazyTree(snap)[path],
     backlinks |-> IF path \in DOMAIN snap.backlinks THEN snap.backlinks[path] ELSE {}]
Page(snap, head, path) ==
    IF ~IsMd(path) \/ path \notin snap.inventory THEN Refused(404)
    ELSE IF path \notin DOMAIN snap.pages /\ path \notin DOMAIN LazyTree(snap) THEN Refused(404)
    ELSE [prov |-> Provenance(snap, head),
          page |-> IF path \in DOMAIN snap.pages THEN PageBody(snap, path) ELSE LazyBody(snap, path),
          changes |-> PageChanges(snap, LazyTree(snap), ChangeSidecars(snap, path))]
SearchFor(snap, head, needle) ==
    IF needle = "" THEN Refused(400)
    ELSE [prov |-> Provenance(snap, head), hits |-> Search(snap, needle)]

\* Which ticks wrote a page, and which pages a tick wrote.
TouchedBy(snap, slug) ==
    LET mine == {t \in snap.touches : t.slug = slug} IN
    {[run_id |-> r, at |-> Max({t.at : t \in {x \in mine : x.run_id = r}}),
      commits |-> {t.commit : t \in {x \in mine : x.run_id = r}}] : r \in {t.run_id : t \in mine}}
TickIncidents(snap, run) ==
    LET mine == {t \in snap.touches : t.run_id = run} IN
    {[slug |-> s, status |-> IF s \in DOMAIN snap.incidents THEN snap.incidents[s].status ELSE "",
      commits |-> {t.commit : t \in {x \in mine : x.slug = s}}] : s \in {t.slug : t \in mine}}

\* The incident at a revision: no such page, one nobody committed, or the page.
IncidentPath(slug) == PathOf("incident", slug, 0)
Locate(slug, rev) ==
    IF IncidentPath(slug) \in DOMAIN TreeAt(rev) THEN 200
    ELSE IF IncidentPath(slug) \in DOMAIN WorkingTree THEN 409 ELSE 404
Closure(slug, inc, rev) ==
    IF inc.status # "monitoring" \/ slug \notin DOMAIN Facts THEN {}
    ELSE {[verdict |-> Facts[slug].verdict, digests |-> Facts[slug].digests,
           stale |-> Facts[slug].revision # rev]}
References(inc, slug, closure, tree) ==
    {[path |-> p, exists |-> p \in DOMAIN tree] :
        p \in {IncidentPath(slug)}
              \cup {PathOf("error", c, 0) : c \in ToSet(inc.codes)}
              \cup UNION {c.digests : c \in closure}}
ResearchRow(code, snap, tree) ==
    [code |-> code, exists |-> PathOf("error", code, 0) \in DOMAIN tree,
     research |-> IF code \in DOMAIN snap.research THEN {snap.research[code]} ELSE {},
     resolutions |-> IF code \in DOMAIN snap.resolutions THEN snap.resolutions[code] ELSE <<>>,
     past_fixes |-> IF code \in DOMAIN snap.past_fixes THEN snap.past_fixes[code] ELSE <<>>]
Allowed(status) ==
    CASE status = "open" -> {"record-action", "monitor", "resolve", "merge"}
      [] status = "monitoring" -> {"record-action", "extend", "resolve", "merge"}
      [] status = "resolved" -> {"record-action", "reopen"}
      [] OTHER -> {}
Incident(snap, slug, rev) ==
    IF Locate(slug, rev) # 200 THEN Refused(Locate(slug, rev))
    ELSE LET tree == TreeAt(rev)
             inc == tree[IncidentPath(slug)]
             closure == Closure(slug, inc, rev)
         IN  [status |-> 200, revision |-> rev, body |-> inc, allowed |-> Allowed(inc.status),
              closure |-> closure, history |-> PageHistory(IncidentPath(slug)),
              strays |-> StrayPaths, dirty |-> IncidentPath(slug) \in StrayPaths,
              references |-> References(inc, slug, closure, tree),
              touched_by |-> TouchedBy(snap, slug),
              research |-> [i \in 1..Len(inc.codes) |-> ResearchRow(inc.codes[i], snap, tree)],
              last_seen |-> LastSeen(inc, snap.occurrences)]

QueueRow(snap, slug) ==
    LET inc == WorkingTree[IncidentPath(slug)] IN
    [slug |-> slug, incident |-> inc,
     verdict |-> IF inc.status = "monitoring" /\ slug \in DOMAIN Facts THEN Facts[slug].verdict ELSE "",
     dirty |-> IncidentPath(slug) \in StrayPaths,
     allowed |-> Allowed(inc.status), last_seen |-> LastSeen(inc, snap.occurrences)]
Queue(snap, rev) ==
    LET listed == {p \in DOMAIN WorkingTree : p.kind = "incident" /\ WorkingTree[p].type = "incident"
                                              /\ WorkingTree[p].status # "resolved"}
    IN  [revision |-> rev, strays |-> StrayPaths, rows |-> {QueueRow(snap, p.name) : p \in listed}]

----------------------------------------------------------------------------
(* The server: every request reads HEAD, then goes through the cache *)

Waiting == [pc |-> "idle", ask |-> "", head |-> 0, tree |-> <<>>, snap |-> Nothing, alone |-> TRUE]
Init ==
    /\ history = Start
    /\ work = <<>>
    /\ today = LastDay - 1
    /\ cache = Nothing /\ heat_cache = Nothing
    /\ locks = [snapshot |-> Nobody, heat |-> Nobody] /\ asked = 0
    /\ threads = [t \in Threads |-> Waiting]

wiki == <<history, work, today, asked>>
At(t, pc) == threads[t].pc = pc
Set(t, thread) == threads' = [threads EXCEPT ![t] = thread]

\* Others commit, edit, and the day turns.
CommitLands ==
    \E c \in Commits :
        /\ \A i \in 1..Tip : history[i].id # c.id
        /\ history' = Append(history, [c EXCEPT !.at = today])
        /\ work' = [p \in DOMAIN work \ DOMAIN c.writes |-> work[p]]
        /\ UNCHANGED <<today, cache, heat_cache, locks, threads, asked>>
HandEdits ==
    /\ work = <<>> /\ work' \in Edits
    /\ UNCHANGED <<history, today, cache, heat_cache, locks, threads, asked>>
DayTurns ==
    /\ today < LastDay /\ today' = today + 1
    /\ UNCHANGED <<history, work, cache, heat_cache, locks, threads, asked>>

Ask(t) ==
    /\ At(t, "idle") /\ asked < MaxAsks /\ asked' = asked + 1
    /\ \E ask \in {"wiki", "heat"} :
         LET quiet == \A u \in Threads : At(u, "idle") IN
         threads' = [u \in Threads |->
             IF u = t THEN [Waiting EXCEPT !.pc = IF ask = "heat" THEN "heat" ELSE "get",
                                           !.ask = ask, !.head = Tip, !.alone = quiet]
             ELSE [threads[u] EXCEPT !.alone = FALSE]]
    /\ UNCHANGED <<history, work, today, cache, heat_cache, locks>>

\* RevisionCache.get, for a slot: the held value when it is current or when
\* another thread is rebuilding; else take the lock and rebuild.
Served(value, head, holder) ==
    value # Nothing /\ (value.revision = head \/ holder # Nobody)
Won(value, head, holder) == value.revision # head /\ holder = Nobody

GetHeat(t) ==
    /\ At(t, "heat")
    /\ \/ /\ Served(heat_cache, threads[t].head, locks.heat)
          /\ Set(t, [threads[t] EXCEPT !.pc = "drawn", !.snap = heat_cache])
          /\ UNCHANGED locks
       \/ /\ Won(heat_cache, threads[t].head, locks.heat)
          /\ locks' = [locks EXCEPT !.heat = t]
          /\ Set(t, [threads[t] EXCEPT !.pc = "get"])
    /\ UNCHANGED <<wiki, cache, heat_cache>>
GetSnapshot(t) ==
    /\ At(t, "get")
    /\ \/ /\ Served(cache, threads[t].head, locks.snapshot)
          /\ Set(t, [threads[t] EXCEPT !.pc = "have", !.snap = cache])
          /\ UNCHANGED locks
       \/ /\ Won(cache, threads[t].head, locks.snapshot)
          /\ locks' = [locks EXCEPT !.snapshot = t]
          /\ Set(t, [threads[t] EXCEPT !.pc = "build", !.tree = TreeAt(threads[t].head)])
    /\ UNCHANGED <<wiki, cache, heat_cache>>
\* ls_tree and batch_at are done; the log walks follow, and the swap.
BuildSnapshot(t) ==
    /\ At(t, "build")
    /\ LET rev == threads[t].head IN
       cache' = Build(rev, threads[t].tree, LastCommits(rev), ReadTouches(rev, today - Window))
    /\ locks' = [locks EXCEPT !.snapshot = Nobody]
    /\ Set(t, [threads[t] EXCEPT !.pc = "have", !.snap = cache', !.tree = <<>>])
    /\ UNCHANGED <<wiki, heat_cache>>
BuildHeat(t) ==
    /\ At(t, "have") /\ threads[t].ask = "heat"
    /\ heat_cache' = HeatBuild(threads[t].snap)
    /\ locks' = [locks EXCEPT !.heat = Nobody]
    /\ Set(t, [threads[t] EXCEPT !.pc = "drawn", !.snap = heat_cache'])
    /\ UNCHANGED <<wiki, cache>>
\* The answers below are what the thread sends now.
Answer(t) ==
    /\ At(t, "drawn") \/ (At(t, "have") /\ threads[t].ask = "wiki")
    /\ Set(t, Waiting)
    /\ UNCHANGED <<wiki, cache, heat_cache, locks>>

Next ==
    \/ CommitLands \/ HandEdits \/ DayTurns
    \/ \E t \in Threads : Ask(t) \/ GetHeat(t) \/ GetSnapshot(t) \/ BuildSnapshot(t)
                          \/ BuildHeat(t) \/ Answer(t)

Spec == Init /\ [][Next]_vars

----------------------------------------------------------------------------
(* What an operator may rely on *)

Answering(t, ask) == threads[t].ask = ask /\ threads[t].pc \in {"have", "drawn"}

\* A snapshot shows the pages of its revision, each credited to whoever
\* wrote it last there, and no link of it leads nowhere.
ShowsItsRevision(snap) ==
    LET tree == TreeAt(snap.revision) IN
    /\ snap.inventory = DOMAIN tree
    /\ \A p \in DOMAIN snap.pages :
         LET wrote == {i \in 1..snap.revision : p \in DOMAIN history[i].writes} IN
         /\ snap.text[p] = tree[p]
         /\ snap.pages[p].commit \in wrote /\ \A i \in wrote : i <= snap.pages[p].commit
         /\ snap.pages[p].origin = history[snap.pages[p].commit].by
         /\ snap.links[p] \subseteq snap.inventory
         /\ \A q \in snap.links[p] : p \in snap.backlinks[q]
\* Every page of the inventory opens, and with the text of that revision;
\* the counts of the fleet are those of the pages.
EveryPageOpens(snap, head) ==
    LET tree == TreeAt(snap.revision)
        of(db, status) == {p \in DOMAIN tree : p.kind = "incident" /\ tree[p].parses
                             /\ tree[p].db = db /\ tree[p].status = status}
    IN  /\ \A p \in {q \in snap.inventory : IsMd(q)} : Page(snap, head, p).page.body = tree[p]
        /\ \A row \in Fleet(snap, head).rows :
             /\ row.open = Cardinality(of(row.db, "open"))
             /\ \A e \in Database(snap, head, row.db).errors : e.last_day <= LastDay /\ e.count > 0
        /\ \A p \in DOMAIN snap.pages : p \in SearchFor(snap, head, snap.pages[p].title).hits[1]
\* The agents screen and the incident screen name the same ticks, and every
\* tick that wrote the page in the window.
TicksAndPagesAgree(snap) ==
    \A slug \in DOMAIN snap.incidents, i \in 1..snap.revision :
        LET run == history[i].run
            wrote == run # "" /\ IncidentPath(slug) \in DOMAIN history[i].writes
                     /\ history[i].at >= snap.built_at - Window
        IN  /\ wrote => \E row \in TouchedBy(snap, slug) : row.run_id = run /\ i \in row.commits
            /\ wrote => \E row \in TickIncidents(snap, run) : row.slug = slug /\ i \in row.commits
            /\ \A row \in TouchedBy(snap, slug) :
                 row.run_id = run => \E r \in TickIncidents(snap, run) : r.slug = slug
\* What the queue lists can be opened, or is told to be uncommitted.
TheQueueOpens(snap) ==
    \A row \in Queue(snap, Tip).rows :
        LET answer == Incident(snap, row.slug, Tip) IN
        /\ answer.status # 404 /\ (answer.status = 409 => row.dirty)
        /\ answer.status = 200 /\ ~row.dirty => answer.body = row.incident
\* A day nobody watched is not a quiet day.
TheMapIsHonest(heat, head) ==
    \A span \in 1..Window :
        LET drawn == Heat(heat, head, span)
            tree == TreeAt(heat.revision)
        IN  \A row \in drawn.rows, c \in Classes, i \in 1..span :
                LET p == DigestPath(row.db, drawn.days[i]) IN
                (row.counts[c][i] = Unwatched) <=> (p \notin DOMAIN tree \/ ~tree[p].parses)

\* Whatever commits, edits and other requests run meanwhile, an answer
\* describes one revision of the wiki, says which, and when no request
\* overlapped it that is the HEAD it read.
AnswersTellOneRevision ==
    \A t \in Threads :
        LET snap == threads[t].snap
            head == threads[t].head
        IN  /\ Answering(t, "wiki") => /\ ShowsItsRevision(snap) /\ EveryPageOpens(snap, head)
                                       /\ TicksAndPagesAgree(snap) /\ TheQueueOpens(snap)
            /\ threads[t].pc = "drawn" => TheMapIsHonest(snap, head)
            /\ threads[t].alone /\ threads[t].pc \in {"have", "drawn"} => snap.revision = head
=============================================================================
