--------------------------- MODULE ResultContract ---------------------------
(***************************************************************************)
(* research_offload.py and dbwiki_researcher/cli.py: what an offloaded     *)
(* question asks, what may come back, and how it lands.  The researcher    *)
(* checks its agent's answer against the request, which carries the        *)
(* approved sources as they were; days later the on-prem side checks the   *)
(* result against the wiki as it is, writes the page, passes it through    *)
(* the rails and the lint, and records the researcher's own telemetry.     *)
(* Between the two a source is deprecated, a page goes, the redaction      *)
(* mapping is lost, a fold is killed; and results arrive that no           *)
(* researcher of this version checked.  How files travel is Exchange.      *)
(***************************************************************************)
EXTENDS Naturals, FiniteSets

CONSTANTS
    Codes,          \* error pages
    Slugs,          \* source pages
    PageAnswers,    \* answers to a question about a page
    SourceAnswers,  \* answers about a source
    DomainsOf,      \* slug -> the hosts on its domains
    LastReviewed,   \* slug -> the day it was last reviewed
    Held,           \* code -> its page at the start
    MaxReferences,  \* RESULT_MAX_REFERENCES
    MaxRequests, LastDay, MaxEdits, MaxCuts,  \* bounds
    NoResult

\* No page of the start was written by a run of these.
ASSUME ContractAssumption ==
    /\ MaxRequests \in Nat
    /\ \A c \in DOMAIN Held :
          Held[c] = [refs |-> Held[c].refs, notes |-> Held[c].notes,
                     run |-> 0, researched |-> Held[c].researched]

VARIABLES
    sources,    \* slug -> its status and the day it was last reviewed
    pages,      \* code -> its citations, those of its notes, the day it was
                \* researched (0: never), and the run that did (0: none of these)
    lines,      \* lines of log.md
    mapped,     \* runs whose redaction mapping is on disk
    requests,   \* run -> its request
    results,    \* result files in the exchange
    folding,    \* the result that is published and not yet consumed
    recorded,   \* run -> the events of it in agent_runs.jsonl
    consumed,   \* results that were folded and consumed
    today, edits, cuts

offloading == <<sources, pages, lines, mapped, requests, results, folding, recorded,
                consumed, today, edits, cuts>>

Runs == 1..MaxRequests
Asked == DOMAIN requests
Bar(f, k) == [x \in DOMAIN f \ {k} |-> f[x]]
With(f, k, v) == [x \in DOMAIN f \cup {k} |-> IF x = k THEN v ELSE f[x]]

\* sources/*.md whose status is approved.
Approved == {s \in Slugs : sources[s].approved}
ApprovedDomains == UNION {DomainsOf[s] : s \in Approved}

----------------------------------------------------------------------------
(* The answer of an agent, field by field.  A date may be one, be followed *)
(* by a time, or be none; a prose field may be missing, too long or carry  *)
(* a link.                                                                 *)

Citation(source, host, accessed) == [source |-> source, host |-> host, accessed |-> accessed]
Finding(cause, refs, codes, tele) ==
    [cause |-> cause, refs |-> refs, codes |-> codes, tele |-> tele]
Verdict(valid, checked, notes, proposed) ==
    [valid |-> valid, checked |-> checked, notes |-> notes, proposed |-> proposed]

\* prose_link_problem and the limits; citation_url_problem.
ProseFits(kind) == kind = "good"
CitationFits(ref, known) == ref.source \in known /\ ref.host \in DomainsOf[ref.source]

\* A date that is followed by a time.
Stamped(body, kind) ==
    IF kind = "research" THEN \E ref \in body.refs : ref.accessed = "stamp"
    ELSE body.checked = "stamp"

\* The fields of an answer against the sources known, and the dates taken
\* for dates.
FindingFits(body, known, dates) ==
    /\ ProseFits(body.cause)
    /\ body.refs # {} /\ Cardinality(body.refs) <= MaxReferences
    /\ \A ref \in body.refs : CitationFits(ref, known) /\ ref.accessed \in dates
    /\ body.codes = "good"
VerdictFits(body, dates) ==
    /\ body.valid \in {"yes", "no"}
    /\ body.checked \in dates
    /\ body.notes = "good"
    /\ body.proposed \in {"none", "approved", "deprecated"}

\* validate_result, the researcher's: it reads ten characters of a date.
ValidateResult(request, body) ==
    IF request.kind = "research" THEN FindingFits(body, request.known, {"date", "stamp"})
    ELSE VerdictFits(body, {"date", "stamp"})

\* validate_research_result and validate_source_review_result, on-prem.
ValidateResearchResult(res) ==
    /\ res.key \in DOMAIN pages
    /\ FindingFits(res.body, Approved, {"date"})
ValidateSourceReviewResult(res) == res.key \in Slugs /\ VerdictFits(res.body, {"date"})

\* clean_telemetry: what is not a record is none, an odd field is dropped.
CleanTelemetry(body) == body.tele # "other"

----------------------------------------------------------------------------
(* The wiki.                                                               *)

\* _is_stale: a source the page cites was reviewed since, or is not approved.
IsStale(code) ==
    LET page == pages[code]
        cited == {ref.source : ref \in page.refs \cup page.notes}
    IN \E s \in cited : s \notin Approved \/ sources[s].reviewed > page.researched
Wanted(code) == pages[code].researched = 0 \/ IsStale(code)

InFlight(kind, key) ==
    \E r \in Asked : requests[r].kind = kind /\ requests[r].key = key /\ requests[r].at = "out"

\* The reference of a page is replaced, its notes and the rest stay.
ApplyResearchResult(res) ==
    [pages EXCEPT ![res.key].refs = res.body.refs, ![res.key].run = res.run,
                  ![res.key].researched = today]

\* Only the date moves: a status changes by a commit by hand.
ApplySourceReviewResult(res) == [sources EXCEPT ![res.key].reviewed = today]

LogLine(res) == [day |-> today, key |-> res.key,
                 cites |-> IF res.kind = "research" THEN res.body.refs ELSE {}]

\* _research_problems: every url of the page that changed, notes included.
ResearchProblems(page) == {ref \in page.refs \cup page.notes : ref.host \notin ApprovedDomains}

\* lint's _citation_findings: the items of its reference section.
CitationFindings(page) ==
    {ref \in page.refs : \/ ref.source \notin Slugs \/ ref.accessed = "none"
                         \/ ref.host \notin ApprovedDomains}

\* Mutant: the result is not compared with the request it answers.
LandsAnyKey(res) ==
    IF res.kind = "research"
    THEN /\ ValidateResearchResult(res)
         /\ res.run \in mapped
         /\ ResearchProblems(ApplyResearchResult(res)[res.key]) = {}
         /\ CitationFindings(ApplyResearchResult(res)[res.key]) = {}
    ELSE ValidateSourceReviewResult(res)

\* fold_result and the gates behind it.
Lands(res) ==
    IF res.kind = "research"
    THEN /\ ValidateResearchResult(res)
         /\ res.run \in mapped /\ requests[res.run].key = res.key
         /\ ResearchProblems(ApplyResearchResult(res)[res.key]) = {}
         /\ CitationFindings(ApplyResearchResult(res)[res.key]) = {}
    ELSE ValidateSourceReviewResult(res)

----------------------------------------------------------------------------

ContractInit ==
    /\ sources = [s \in Slugs |-> [approved |-> TRUE, reviewed |-> LastReviewed[s]]]
    /\ pages = Held
    /\ lines = {} /\ mapped = {} /\ requests = <<>> /\ results = {}
    /\ folding = NoResult
    /\ recorded = [r \in Runs |-> 0] /\ consumed = {}
    /\ today = 1 /\ edits = 0 /\ cuts = 0

Wiki == <<sources, pages, lines>>
Books == <<recorded, consumed>>
Bounds == <<today, edits, cuts>>

\* build_research_request: the sources travel as they are now; the mapping of
\* its pseudonyms is saved before it is enqueued.
AskAbout(code) ==
    /\ Cardinality(Asked) < MaxRequests
    /\ code \in DOMAIN pages /\ Wanted(code)
    /\ ~InFlight("research", code)
    /\ LET run == Cardinality(Asked) + 1
       IN /\ requests' = With(requests, run, [kind |-> "research", key |-> code, known |-> Approved, at |-> "out"])
          /\ mapped' = mapped \cup {run}
    /\ UNCHANGED <<Wiki, results, folding, Books, Bounds>>

\* build_source_review_request, for an approved source that is due.
AskReview(slug) ==
    /\ Cardinality(Asked) < MaxRequests
    /\ slug \in Approved /\ sources[slug].reviewed < today
    /\ ~InFlight("source-review", slug)
    /\ requests' = With(requests, Cardinality(Asked) + 1,
                        [kind |-> "source-review", key |-> slug, known |-> {}, at |-> "out"])
    /\ UNCHANGED <<Wiki, mapped, results, folding, Books, Bounds>>

\* run_one: the result says of itself what the request says, never what the
\* agent does; an answer that fails the contract is no result, and the
\* request is tried again or given up (Exchange).
Result(kind, key, run, body, checked) ==
    [kind |-> kind, key |-> key, run |-> run, body |-> body, checked |-> checked]
RunOne(run, body) ==
    /\ run \in Asked /\ requests[run].at = "out"
    /\ IF ValidateResult(requests[run], body)
       THEN /\ results' = results \cup {Result(requests[run].kind, requests[run].key, run, body, TRUE)}
            /\ requests' = [requests EXCEPT ![run].at = "answered"]
       ELSE /\ requests' \in {requests, [requests EXCEPT ![run].at = "failed"]}
            /\ UNCHANGED results
    /\ UNCHANGED <<Wiki, mapped, folding, Books, Bounds>>

\* A result arrives that nobody checked, for whatever page.
Unchecked(run, key, body) ==
    /\ run \in Asked /\ requests[run].at = "out"
    /\ results' = results \cup {Result("research", key, run, body, FALSE)}
    /\ requests' = [requests EXCEPT ![run].at = "answered"]
    /\ UNCHANGED <<Wiki, mapped, folding, Books, Bounds>>

\* _fold_exchange, a result that is refused: the wiki is restored.
Reject(res) ==
    /\ folding = NoResult
    /\ res \in results /\ ~Lands(res)
    /\ results' = results \ {res}
    /\ UNCHANGED <<Wiki, mapped, requests, folding, Books, Bounds>>

\* One that lands: its page and its line of log.md in one commit.
Fold(res) ==
    /\ folding = NoResult
    /\ res \in results /\ Lands(res)
    /\ IF res.kind = "research"
       THEN pages' = ApplyResearchResult(res) /\ UNCHANGED sources
       ELSE sources' = ApplySourceReviewResult(res) /\ UNCHANGED pages
    /\ lines' = lines \cup {LogLine(res)}
    /\ folding' = res
    /\ UNCHANGED <<mapped, requests, results, Books, Bounds>>

\* The researcher's telemetry is appended unless its event is known.
RecordTelemetry ==
    /\ folding # NoResult
    /\ folding.kind = "research" /\ CleanTelemetry(folding.body)
    /\ recorded[folding.run] = 0
    /\ recorded' = [recorded EXCEPT ![folding.run] = 1]
    /\ UNCHANGED <<Wiki, mapped, requests, results, folding, consumed, Bounds>>

Consume ==
    /\ folding # NoResult
    /\ folding.kind = "research" /\ CleanTelemetry(folding.body) => recorded[folding.run] > 0
    /\ results' = results \ {folding}
    /\ consumed' = consumed \cup {folding}
    /\ folding' = NoResult
    /\ UNCHANGED <<Wiki, mapped, requests, recorded, Bounds>>

\* A kill before the result is consumed: it is folded again.
FoldKilled ==
    /\ folding # NoResult
    /\ cuts < MaxCuts /\ cuts' = cuts + 1
    /\ folding' = NoResult
    /\ UNCHANGED <<Wiki, mapped, requests, results, Books, today, edits>>

NextDay ==
    /\ today < LastDay
    /\ today' = today + 1
    /\ UNCHANGED <<Wiki, mapped, requests, results, folding, Books, edits, cuts>>

\* By hand: a source is deprecated, a page is merged away, a state directory
\* is cleaned.
EditByHand ==
    /\ edits < MaxEdits /\ edits' = edits + 1
    /\ \/ \E s \in Approved : sources' = [sources EXCEPT ![s].approved = FALSE]
          /\ UNCHANGED <<pages, mapped>>
       \/ \E c \in DOMAIN pages : pages' = Bar(pages, c)
          /\ UNCHANGED <<sources, mapped>>
       \/ mapped # {} /\ mapped' = {} /\ UNCHANGED <<sources, pages>>
    /\ UNCHANGED <<lines, requests, results, folding, Books, today, cuts>>

\* Whatever answers the first question; the later ones are answered well (bound).
AnswersTo(run) ==
    LET all == IF requests[run].kind = "research" THEN PageAnswers ELSE SourceAnswers
    IN IF run = 1 THEN all ELSE {body \in all : ValidateResult(requests[run], body) /\ ~Stamped(body, requests[run].kind)}

ContractNext ==
    \/ \E c \in Codes : AskAbout(c)
    \/ \E s \in Slugs : AskReview(s)
    \/ \E r \in Asked : \E body \in AnswersTo(r) : RunOne(r, body)
    \/ \E r \in Asked, c \in Codes : \E body \in AnswersTo(r) :
          requests[r].kind = "research" /\ Unchecked(r, c, body)
    \/ \E res \in results : Reject(res) \/ Fold(res)
    \/ RecordTelemetry \/ Consume \/ FoldKilled
    \/ NextDay \/ EditByHand

ContractSpec == ContractInit /\ [][ContractNext]_offloading

----------------------------------------------------------------------------

\* What the researcher let through is not refused at home while the wiki is
\* as it was when the question went out and the rest of the page may be
\* cited: the two contracts, the rails and the lint agree, except on a date
\* that is followed by a time.
Unmoved(res) ==
    res.kind = "research" =>
        /\ res.key \in DOMAIN pages /\ res.run \in mapped
        /\ requests[res.run].known = Approved
        /\ \A ref \in pages[res.key].notes : ref.host \in ApprovedDomains
BothSidesAgree ==
    \A res \in results :
        res.checked /\ Unmoved(res) => (Lands(res) <=> ~Stamped(res.body, res.kind))

\* A page says only what was asked about it, log.md has a line for what it
\* says, and the run of a result that was folded is counted once, however
\* often it was folded.
WhatComesBackLands ==
    /\ BothSidesAgree
    /\ \A c \in DOMAIN pages : pages[c].run # 0 =>
          /\ requests[pages[c].run].key = c
          /\ \E l \in lines : l.key = c /\ l.cites = pages[c].refs /\ l.day = pages[c].researched
    /\ \A res \in consumed :
          res.kind = "research" /\ CleanTelemetry(res.body) => recorded[res.run] = 1
=============================================================================
