-------------------------- MODULE StructuredWriters --------------------------
(***************************************************************************)
(* structured.py: the stages in which the model answers with one JSON      *)
(* proposal and deterministic writers make every edit.  The answer is      *)
(* judged field by field and asked for once more when it is bad; then an   *)
(* ingest writes its database page, journal, error pages, incident, index  *)
(* and log in this order, a report its page, index and log.  The model     *)
(* names no path, but its prose cites digests and pages that may not be    *)
(* there, codes the digest does not carry, incidents that are resolved.    *)
(*                                                                         *)
(* One database; a digest covers a day and is ingested again as the day    *)
(* grows.  A page is what it says of each day; its layout is PageText's,   *)
(* the rail around a stage StageRails'.                                    *)
(***************************************************************************)
EXTENDS Naturals, Sequences, FiniteSets

CONSTANTS
    Days,       \* days digests cover
    Codes,      \* error codes
    Slugs,      \* names the model may give an incident
    MaxWrites   \* proposals applied and acts on incidents (bound)

VARIABLES
    wiki,       \* the pages that are there: page -> content
    digests,    \* days with a digest, and the codes it carries
    attempts,   \* answers asked for in this stage (0: no stage runs)
    asked,      \* the stage: what it ingests or reports
    writes

vars == <<wiki, digests, attempts, asked, writes>>

\* Page names.
Database == <<"database">>
Journal == <<"journal">>
Error(code) == <<"error", code>>
Incident(day, slug) == <<"incident", day, slug>>
Report(day) == <<"report", day>>
Index == <<"index">>
Log == <<"log">>
IncidentPages == {Incident(d, s) : d \in Days, s \in Slugs}

\* What a page says something under.
Day(day) == <<"day", day>>
Update(day) == <<"update", day>>
Part(name) == <<"part", name>>

\* What a text cites: digests by day, pages by link.
Text(days, pages) == [days |-> days, pages |-> pages]
Plain == Text({}, {})

\* A page: its status, what it says of each day, the pages it lists.
Stub(status) == [status |-> status, says |-> <<>>, lists |-> {}]
There(w, p) == p \in DOMAIN w.wiki
Says(content, key, text) ==
    [content EXCEPT !.says =
        [k \in DOMAIN @ \cup {key} |-> IF k = key THEN text ELSE @[k]]]

----------------------------------------------------------------------------
(* The model's answer: each field is as asked for, or empty, too long or   *)
(* of another type.                                                        *)

IngestFields == {"json", "notable", "summary", "journal_entry", "updates", "incident", "flags"}
ReportFields == {"json", "summary", "overview", "items", "notes", "flags", "analysis"}
Kinds == {"good", "long", "empty", "other"}

\* _str with and without a limit, lists of such, and what bends instead.
Str(kind, limited) == kind \in {"good"} \cup (IF limited THEN {} ELSE {"long"})
Listed(kind) == kind = "good" \/ kind = "empty"
Summary(kind) == kind \in {"good", "long"}

ParseProposal(answer) ==
    /\ answer["json"] = "good"
    /\ answer["notable"] = "good"
    /\ Listed(answer["flags"])
    /\ Summary(answer["summary"])
    /\ Str(answer["journal_entry"], FALSE)
    /\ Listed(answer["updates"])
    /\ answer["incident"] \in {"good", "empty"}

ParseReport(answer) ==
    /\ answer["json"] = "good"
    /\ Listed(answer["flags"])
    /\ Summary(answer["summary"])
    /\ Str(answer["overview"], FALSE)
    /\ Listed(answer["items"])
    /\ Listed(answer["notes"])

\* Only an escalated report has it: one analysis of each notable database.
NotableAnalysis(kind, escalated) == escalated => Str(kind, FALSE)

Answers(fields) ==
    {[f \in fields |-> "good"]}
    \cup {[f \in fields |-> IF f = g THEN k ELSE "good"] : g \in fields, k \in Kinds}

----------------------------------------------------------------------------
(* The writers, each of an _IngestWrite: the tree, what was touched, the   *)
(* pages created, the incidents opened and updated.                        *)

Begun(tree) == [wiki |-> tree, touched |-> {}, new |-> {}, opened |-> {}, updated |-> {}]

\* _IngestWrite.write: a page is written when its text changes.
Write(w, page, content) ==
    IF There(w, page) /\ w.wiki[page] = content THEN w
    ELSE [w EXCEPT !.touched = @ \cup {page},
                   !.wiki = [p \in DOMAIN @ \cup {page} |->
                                IF p = page THEN content ELSE @[p]]]

Made(w, page) == IF There(w, page) THEN w ELSE [w EXCEPT !.new = @ \cup {page}]
Content(w, page, stub) == IF There(w, page) THEN w.wiki[page] ELSE stub

\* _prose: links are flattened, digests that do not exist are dropped; a
\* notable analysis keeps the links that resolve.
Prose(text) == Text(text.days \cap DOMAIN digests, {})
NotableProse(w, text) == Text(text.days \cap DOMAIN digests, text.pages \cap DOMAIN w.wiki)

\* link_codes: codes are linked whose page the wiki holds.
LinkCodes(w, text, codes) ==
    [text EXCEPT !.pages = @ \cup {p \in {Error(c) : c \in codes} : There(w, p)}]

WriteDatabaseStub(w) == Write(Made(w, Database), Database, Content(w, Database, Stub("none")))

\* The latest ingest of a day replaces its entry.
WriteJournal(w, day, entry) ==
    Write(Made(w, Journal), Journal,
          Says(Content(w, Journal, Stub("none")), Day(day),
               [Prose(entry) EXCEPT !.days = @ \cup {day}]))

\* One row a day for each code the digest carries.
WriteErrorPage(w, day, code, note) ==
    IF code \notin digests[day] THEN w
    ELSE Write(Made(w, Error(code)), Error(code),
               Says(Content(w, Error(code), Stub("none")), Day(day),
                    [Prose(note) EXCEPT !.days = @ \cup {day}]))

\* all_open_incidents.
Active(w) == {p \in IncidentPages \cap DOMAIN w.wiki : w.wiki[p].status = "open"}

\* Mutant: an open incident is found again by its name.
OpenIncidentNamed(w, day, slug) ==
    IF Incident(day, slug) \in Active(w) THEN {Incident(day, slug)} ELSE {}

\* _open_incident_on: the incident open for the day, by its path.
OpenIncidentOn(w, day, slug) ==
    LET open == {p \in Active(w) : p[2] = day}
    IN IF open = {} THEN {} ELSE {CHOOSE p \in open : TRUE}

\* _write_incident_open: a new page, or the evidence of the day on the page
\* that is open for it, or has its name.
WriteIncidentOpen(w, day, slug, body) ==
    LET open == OpenIncidentOn(w, day, slug)
        target == IF open = {} THEN Incident(day, slug) ELSE CHOOSE p \in open : TRUE
        text == LinkCodes(w, Prose(body), Codes)
        fresh == Says(Stub("open"), Part("body"), text)
        grown == Says(Content(w, target, fresh), Day(day), [text EXCEPT !.days = @ \cup {day}])
    IN IF ~There(w, target)
       THEN [Write(w, target, Says(fresh, Day(day), Text({day}, {})))
                EXCEPT !.opened = @ \cup {target}, !.new = @ \cup {target}]
       ELSE Write([w EXCEPT !.updated = IF grown = w.wiki[target] THEN @ ELSE @ \cup {target}],
                  target, grown)

\* _write_incident_update: on an incident that is there and not resolved.
WriteIncidentUpdate(w, day, page, body) ==
    IF page \notin Active(w) THEN w
    ELSE LET grown == Says(w.wiki[page], Update(day),
                           LinkCodes(w, [Prose(body) EXCEPT !.days = @ \cup {day}], Codes))
         IN Write([w EXCEPT !.updated = IF grown = w.wiki[page] THEN @ ELSE @ \cup {page}],
                  page, grown)

\* One line of index.md for every page created, one line of log.md.
WriteIndex(w) ==
    LET idx == Content(w, Index, Stub("none"))
    IN Write(w, Index, [idx EXCEPT !.lists = @ \cup w.new])
WriteLog(w) ==
    LET log == Content(w, Log, Stub("none"))
    IN Write(w, Log, Says(log, Part(writes), Plain))

\* apply_proposal, in this order.
ApplyProposal(tree, day, prop) ==
    LET journalled == WriteJournal(WriteDatabaseStub(Begun(tree)), day, prop.entry)
        errors == IF prop.code = "none" THEN journalled
                  ELSE WriteErrorPage(journalled, day, prop.code, prop.entry)
        incident == CASE prop.action = "none" -> errors
                      [] prop.action = "open" ->
                           WriteIncidentOpen(errors, day, prop.slug, prop.entry)
                      [] prop.action = "update" ->
                           WriteIncidentUpdate(errors, day, prop.page, prop.entry)
    IN WriteLog(WriteIndex(incident))

\* _evidence: only pages that exist are cited.
Evidence(w, day) ==
    Text({day} \cap DOMAIN digests, {Journal} \cap DOMAIN w.wiki)

\* apply_report: the incidents that are open, numbered as in the prompt; a
\* note on a number that was not listed is dropped.
ApplyReport(tree, day, prose) ==
    LET w == Begun(tree)
        page == [Says(Says(Stub("none"), Part("summary"), Evidence(w, day)),
                      Part("analysis"), NotableProse(w, prose))
                    EXCEPT !.lists = Active(w)]
        written == [Write(w, Report(day), page) EXCEPT !.new = {Report(day)}]
    IN WriteLog(WriteIndex(written))
----------------------------------------------------------------------------
(* The stages.                                                             *)

NoStage == [task |-> "none", day |-> "none", escalated |-> FALSE]

Init ==
    /\ wiki = <<>>
    /\ digests = <<>>
    /\ attempts = 0 /\ asked = NoStage
    /\ writes = 0

\* The digest of a day is written, and grows.
DigestGrows(day, code) ==
    /\ attempts = 0
    /\ digests' = [d \in DOMAIN digests \cup {day} |->
                     IF d # day THEN digests[d]
                     ELSE (IF day \in DOMAIN digests THEN digests[day] ELSE {})
                          \cup (IF code = "none" THEN {} ELSE {code})]
    /\ UNCHANGED <<wiki, attempts, asked, writes>>

Start(task, day, escalated) ==
    /\ attempts = 0
    /\ writes < MaxWrites
    /\ task = "ingest" => day \in DOMAIN digests
    /\ attempts' = 1
    /\ asked' = [task |-> task, day |-> day, escalated |-> escalated]
    /\ UNCHANGED <<wiki, digests, writes>>

\* The answers the stage accepts, and those that carry a proposal.
Accepted ==
    IF asked.task = "ingest" THEN {a \in Answers(IngestFields) : ParseProposal(a)}
    ELSE {a \in Answers(ReportFields) :
             ParseReport(a) /\ NotableAnalysis(a["analysis"], asked.escalated)}
Carries(answer, prop) ==
    /\ answer["updates"] = "empty" => prop.code = "none"
    /\ answer["incident"] = "empty" => prop.action = "none"

\* _propose: a bad answer is asked for again once, a second one fails the
\* stage and nothing is written.
BadAnswer ==
    /\ attempts > 0
    /\ ~(Answers(IF asked.task = "ingest" THEN IngestFields ELSE ReportFields) \subseteq Accepted)
    /\ IF attempts = 1 THEN attempts' = 2 /\ UNCHANGED asked
       ELSE attempts' = 0 /\ asked' = NoStage
    /\ UNCHANGED <<wiki, digests, writes>>

Applied(w) ==
    /\ wiki' = w.wiki
    /\ attempts' = 0 /\ asked' = NoStage
    /\ writes' = writes + 1
    /\ UNCHANGED digests

Ingested(prop) ==
    /\ attempts > 0 /\ asked.task = "ingest"
    /\ {a \in Accepted : Carries(a, prop)} # {}
    /\ Applied(ApplyProposal(wiki, asked.day, prop))

Reported(prose) ==
    /\ attempts > 0 /\ asked.task = "report"
    /\ Accepted # {}
    /\ Applied(ApplyReport(wiki, asked.day, prose))

\* An operator resolves an incident, between stages.
Resolve(page) ==
    /\ attempts = 0
    /\ writes < MaxWrites
    /\ page \in DOMAIN wiki /\ wiki[page].status = "open"
    /\ wiki' = [wiki EXCEPT ![page].status = "resolved"]
    /\ writes' = writes + 1
    /\ UNCHANGED <<digests, attempts, asked>>

\* What the prose of a model cites: whatever comes to its mind.
Proses == {Text(Days, {Report(d) : d \in Days} \cup {Journal})}
Proposals ==
    [code : Codes \cup {"none"}, entry : Proses, action : {"none"}, slug : {"none"}, page : {Log}]
    \cup [code : Codes \cup {"none"}, entry : Proses, action : {"open"}, slug : Slugs, page : {Log}]
    \cup [code : {"none"}, entry : Proses, action : {"update"}, slug : {"none"},
          page : IncidentPages \cup {Log}]

Next ==
    \/ \E d \in Days, c \in Codes \cup {"none"} : DigestGrows(d, c)
    \/ \E d \in Days : Start("ingest", d, FALSE)
    \/ \E d \in Days, e \in BOOLEAN : Start("report", d, e)
    \/ BadAnswer
    \/ \E p \in Proposals : Ingested(p)
    \/ \E t \in Proses : Reported(t)
    \/ \E p \in IncidentPages : Resolve(p)

----------------------------------------------------------------------------

(* lint.py: what the checks of the wiki find, as pairs of a page and a     *)
(* rule.  None of these pages has citations of sources, evidence blocks or *)
(* generated sections.                                                     *)

Find(page, rule) == [page |-> page, rule |-> rule]

\* The pages its links name, those that resolve, the digests it cites.
Targets(page) == wiki[page].lists \cup UNION {wiki[page].says[k].pages : k \in DOMAIN wiki[page].says}
Links(page) == Targets(page) \cap DOMAIN wiki
References(page) == UNION {wiki[page].says[k].days : k \in DOMAIN wiki[page].says}

\* _incident_findings: a status of the vocabulary.
IncidentFindings(page) ==
    IF page \in IncidentPages /\ wiki[page].status \notin {"open", "monitoring", "resolved"}
    THEN {Find(page, "incident-status-invalid")} ELSE {}

WikilinkFindings(page) ==
    IF Targets(page) = Links(page) THEN {} ELSE {Find(page, "wikilink-broken")}

DigestFindings(page) ==
    IF References(page) \subseteq DOMAIN digests THEN {} ELSE {Find(page, "digest-missing")}

\* _orphan_findings: a page no other page links to (what index.md reaches,
\* another page links to); index, log and reports need no link.
OrphanFindings(page) ==
    IF page \in {Index, Log} \cup {Report(d) : d \in Days}
       \/ \E other \in DOMAIN wiki \ {page} : page \in Links(other)
    THEN {} ELSE {Find(page, "page-orphaned")}

\* lint_wiki: the findings on the pages asked about, in the whole wiki.
LintWiki(only) ==
    UNION {IncidentFindings(p) \cup WikilinkFindings(p) \cup DigestFindings(p) \cup OrphanFindings(p) :
              p \in only \cap DOMAIN wiki}

----------------------------------------------------------------------------

\* Whatever the model's prose says, the wiki stays sound: lint, which judges
\* what a stage wrote before it is committed, finds nothing, not even on the
\* pages the stage left alone; index.md lists every page once it is there, an
\* error page has a row for a day only if the digest of that day carries the
\* code, a day has one open incident at most, and a report lists no incident
\* that is not there.
WikiStaysSound ==
    LET pages == DOMAIN wiki
    IN /\ LintWiki(pages) = {}
       /\ pages # {} => wiki[Index].lists = pages \ {Index, Log}
       /\ \A c \in Codes : Error(c) \in pages =>
             \A k \in DOMAIN wiki[Error(c)].says : c \in digests[k[2]]
       /\ \A p, q \in IncidentPages \cap pages :
             wiki[p].status = "open" /\ wiki[q].status = "open" /\ p[2] = q[2] => p = q
       /\ \A d \in Days : Report(d) \in pages => wiki[Report(d)].lists \subseteq pages
=============================================================================
