--------------------------- MODULE ResearchPasses ---------------------------
(***************************************************************************)
(* The three research passes of dbwiki that publish one commit per error   *)
(* page: `research` in structured mode, `research --caveats`, and          *)
(* `research --history`.  Each holds the single-flight lock for its whole  *)
(* run and walks its worklist; every page is read, asked about, written,   *)
(* logged in log.md and committed before the next one is taken up.  A page *)
(* that fails costs itself; what stops a run is an interrupt, or a wiki    *)
(* that moved under the lock.                                              *)
(*                                                                         *)
(* A page holds one section per pass, each stamped with the epoch of what  *)
(* it was drawn from: the review of its sources, the interval of the       *)
(* caveat review, the incident corpus.  log.md holds one line per section  *)
(* ever published.  Digests, telemetry sums and prompts are left out, as   *)
(* is what an operator stages (WikiTransaction) and the moment between a   *)
(* snapshot and its commit, where a moved wiki is refused the same way.    *)
(***************************************************************************)
EXTENDS Integers, Sequences, FiniteSets, Functions

CONSTANTS
    Pages,     \* error pages
    Heat,      \* Heat[p]: active incidents that link the page
    Limit,     \* pages a run takes up, when it selects
    MaxEpochs, \* times a source of the passes moves on (bound)
    MaxRuns, MaxHands, MaxKills, MaxFaults, \* bounds
    Log        \* log.md

ASSUME ResearchAssumption ==
    /\ IsFiniteSet(Pages) /\ "page" \notin Pages
    /\ Log \notin Pages
    /\ Limit \in Nat

VARIABLES
    head,      \* head[f]: the content of a file at HEAD, a set of marks
    rev,       \* commits so far
    tree,      \* tree[f]: its content in the checkout
    epoch,     \* epoch[s]: how often what pass s draws from has moved on
    pass, pc,  \* the run: its pass and where it is
    work,      \* its pages, still to do
    stamp,     \* the epoch it read at its start
    base,      \* HEAD as the page in flight found it: revision and content
    published, flagged, rolledBack, \* what it tells
    began,     \* log.md at HEAD when it started
    spent      \* how much of each bound was used

Passes == {"structured", "caveats", "history"}
vars == <<head, rev, tree, epoch, pass, pc, work, stamp, base, published, flagged,
          rolledBack, began, spent>>
wiki == <<head, rev, tree>>
run  == <<pass, pc, work, stamp, base, published, flagged, rolledBack, began>>

Files == Pages \cup {Log}
Section(s, e) == [by |-> s, on |-> "page", at |-> e]
Line(s, p, e) == [by |-> s, on |-> p, at |-> e]
Note(n) == [by |-> "hand", on |-> "page", at |-> n]
Sections(p, s, content) == {mk \in content[p] : mk.by = s}

Spend(what) == spent' = [spent EXCEPT ![what] = @ + 1]

Stray == {f \in Files : tree[f] # head[f]}
Page == work[1]

----------------------------------------------------------------------------
(* What is due.                                                            *)

Current(p, s, e) == Section(s, e) \in tree[p]

\* Never researched, or before its sources were last reviewed.
ErrorCandidates == {p \in Pages : ~Current(p, "structured", epoch["structured"])}

\* Researched, linked by an active incident, its last caveat review too old.
CaveatCandidates == {p \in Pages : /\ Sections(p, "structured", tree) # {}
                                   /\ Heat[p] > 0
                                   /\ ~Current(p, "caveats", epoch["caveats"])}

\* The hottest first, the first Limit of them.
Worklists(due) ==
    LET n == IF Cardinality(due) <= Limit THEN Cardinality(due) ELSE Limit
    IN {q \in [1 .. n -> due] :
          /\ IsInjective(q)
          /\ \A i, j \in 1 .. n : i < j => Heat[q[i]] >= Heat[q[j]]
          /\ \A p \in due \ Range(q), i \in 1 .. n : Heat[q[i]] >= Heat[p]}

\* The history pass walks every page, in one order of their names.
EveryPage == CHOOSE q \in [1 .. Cardinality(Pages) -> Pages] : IsInjective(q)

----------------------------------------------------------------------------
(* Going back.                                                             *)

Restored(paths, content) == [f \in Files |-> IF f \in paths THEN content[f] ELSE tree[f]]

\* _rollback and _restore: every stray path, to HEAD as it is now.
Rollback == Restored(Stray, head)

\* Mutant: a failed page is put back, its log line is not.
RestoreThePage == Restored({Page}, base.content)

\* transaction.restore([rel, "log.md"], base) of the caveat and history loops.
RestorePage == Restored({Page, Log}, base.content)

\* On the way out of a page that failed.
Cleaned == IF pass = "structured" THEN Rollback ELSE RestorePage

Take == IF Len(work) > 1 THEN "page" ELSE "done"
NextPage == work' = Tail(work) /\ pc' = Take

\* The page is left behind with a flag and the run goes on.
Flag(restored) ==
    /\ tree' = restored
    /\ flagged' = flagged \cup {Page}
    /\ NextPage
    /\ UNCHANGED <<head, rev, epoch, pass, stamp, base, published, rolledBack, began, spent>>

\* The run ends with an error.
Fail(restored) ==
    /\ tree' = restored
    /\ pc' = "idle"
    /\ work' = <<>>
    /\ rolledBack' = (published = {})
    /\ UNCHANGED <<head, rev, epoch, pass, stamp, base, published, flagged, began>>

----------------------------------------------------------------------------
(* A run.                                                                  *)

\* Refused on a dirty tree; nothing to do without candidates.
Begin(s, q) ==
    /\ pc = "idle"
    /\ spent.runs < MaxRuns
    /\ Stray = {}
    /\ q # <<>>
    /\ work' = q
    /\ pass' = s
    /\ pc' = "page"
    /\ stamp' = epoch[s]
    /\ published' = {} /\ flagged' = {} /\ rolledBack' = FALSE
    /\ began' = head[Log]
    /\ Spend("runs")
    /\ UNCHANGED <<wiki, epoch, base>>

StartResearch == \E q \in Worklists(ErrorCandidates) : Begin("structured", q)
StartCaveats == \E q \in Worklists(CaveatCandidates) : Begin("caveats", q)
StartHistory == Begin("history", EveryPage)

\* fetch_page finds no reference for the code: nothing was written.
Unfetchable == pc = "page" /\ Flag(tree)

\* The redacted prompt still names something: it is not sent.
Leaks == pc = "ask" /\ Flag(tree)

\* The page is its own transaction from here.
TakeUp ==
    /\ pc = "page"
    /\ base' = [rev |-> rev, content |-> head]
    /\ pc' = IF pass = "history" THEN "write" ELSE "ask"
    /\ UNCHANGED <<wiki, epoch, pass, work, stamp, published, flagged, rolledBack, began,
                   spent>>

\* _propose: an answer that is valid, perhaps at the second try.
Answered ==
    /\ pc = "ask"
    /\ pc' = "write"
    /\ UNCHANGED <<wiki, epoch, pass, work, stamp, base, published, flagged, rolledBack,
                   began, spent>>

\* HarnessError: the second answer is no better.  It ends a structured run.
Unusable ==
    /\ pc = "ask"
    /\ \/ /\ pass = "structured" /\ spent.faults < MaxFaults
          /\ Fail(Rollback) /\ Spend("faults")
       \/ pass = "caveats" /\ Flag(RestorePage)

\* The section of the pass is replaced, the rest of the page stays.
Replace == tree' = [tree EXCEPT ![Page] =
                       (@ \ Sections(Page, pass, tree)) \cup {Section(pass, stamp)}]

WritePage ==
    /\ pc = "write"
    /\ Replace
    /\ pc' = "log"
    /\ UNCHANGED <<head, rev, epoch, pass, work, stamp, base, published, flagged,
                   rolledBack, began, spent>>

\* past_fixes.apply: a section that says the same already is not touched.
SaysTheSame ==
    /\ pc = "write"
    /\ Current(Page, pass, stamp)
    /\ NextPage
    /\ UNCHANGED <<wiki, epoch, pass, stamp, base, published, flagged, rolledBack,
                   began, spent>>

WriteLog ==
    /\ pc = "log"
    /\ tree' = [tree EXCEPT ![Log] = @ \cup {Line(pass, Page, stamp)}]
    /\ pc' = "publish"
    /\ UNCHANGED <<head, rev, epoch, pass, work, stamp, base, published, flagged,
                   rolledBack, began, spent>>

\* A stray path beyond the page and log.md is an undeclared change.
Undeclared == Stray \ {Page, Log} # {}

Rejected ==
    /\ pc = "publish"
    /\ Undeclared
    /\ \/ pass = "structured" /\ Fail(Rollback) /\ UNCHANGED spent
       \/ pass # "structured" /\ Flag(RestorePage)

\* BaseMoved: _refused restores to HEAD, and the two loops restore once more.
Moved ==
    /\ pc = "publish"
    /\ ~Undeclared
    /\ rev # base.rev
    /\ Fail(Cleaned)
    /\ UNCHANGED spent

LintBlocked ==
    /\ pc = "publish"
    /\ ~Undeclared
    /\ rev = base.rev
    /\ Flag(Rollback)

Publish ==
    /\ pc = "publish"
    /\ ~Undeclared
    /\ rev = base.rev
    /\ head' = tree
    /\ rev' = rev + 1
    /\ published' = published \cup {Page}
    /\ NextPage
    /\ UNCHANGED <<tree, epoch, pass, stamp, base, flagged, rolledBack, began, spent>>

Finish ==
    /\ pc = "done"
    /\ pc' = "idle"
    /\ UNCHANGED <<wiki, epoch, pass, work, stamp, base, published, flagged, rolledBack,
                   began, spent>>

\* Ctrl-C, a writer that trips, a git error: any BaseException within a page.
Interrupt ==
    /\ pc \in {"ask", "write", "log", "publish"}
    /\ spent.faults < MaxFaults
    /\ Fail(Cleaned)
    /\ Spend("faults")

\* SIGKILL or power loss, at any moment; the lock dies with the process.
Kill ==
    /\ pc # "idle"
    /\ spent.kills < MaxKills
    /\ pc' = "idle"
    /\ work' = <<>>
    /\ Spend("kills")
    /\ UNCHANGED <<wiki, epoch, pass, stamp, base, published, flagged, rolledBack, began>>

----------------------------------------------------------------------------
(* The world.                                                              *)

MoveOn(s) ==
    /\ epoch[s] < MaxEpochs
    /\ epoch' = [epoch EXCEPT ![s] = @ + 1]
    /\ UNCHANGED <<wiki, run, spent>>

\* Someone edits a file and leaves it, or commits it at once.
HandEdit(f) ==
    /\ spent.hands < MaxHands
    /\ tree' = [tree EXCEPT ![f] = @ \cup {Note(spent.hands)}]
    /\ Spend("hands")
    /\ UNCHANGED <<head, rev, epoch, run>>

HandCommit(f) ==
    /\ spent.hands < MaxHands
    /\ f \notin Stray
    /\ tree' = [tree EXCEPT ![f] = @ \cup {Note(spent.hands)}]
    /\ head' = [head EXCEPT ![f] = @ \cup {Note(spent.hands)}]
    /\ rev' = rev + 1
    /\ Spend("hands")
    /\ UNCHANGED <<epoch, run>>

\* Someone puts a dirty checkout back.
Clean ==
    /\ pc = "idle"
    /\ Stray # {}
    /\ tree' = head
    /\ UNCHANGED <<head, rev, epoch, run, spent>>

Init ==
    /\ head = [f \in Files |-> {}]
    /\ tree = head
    /\ rev = 0
    /\ epoch = [s \in Passes |-> 0]
    /\ pass = "structured"
    /\ pc = "idle"
    /\ work = <<>>
    /\ stamp = 0
    /\ base = [rev |-> 0, content |-> head]
    /\ published = {} /\ flagged = {} /\ rolledBack = FALSE
    /\ began = {}
    /\ spent = [runs |-> 0, hands |-> 0, kills |-> 0, faults |-> 0]

\* What the three loops have in common from the answer on.
PublishPage == WriteLog \/ Rejected \/ Moved \/ LintBlocked \/ Publish \/ Finish

StructuredLoop ==
    /\ pass = "structured"
    /\ Unfetchable \/ TakeUp \/ Answered \/ Unusable \/ WritePage \/ PublishPage \/ Interrupt

CaveatsLoop ==
    /\ pass = "caveats"
    /\ TakeUp \/ Leaks \/ Answered \/ Unusable \/ WritePage \/ PublishPage \/ Interrupt

HistoryLoop ==
    /\ pass = "history"
    /\ \/ TakeUp \/ SaysTheSame \/ PublishPage \/ Interrupt
       \/ WritePage /\ ~Current(Page, pass, stamp)

Run ==
    \/ StartResearch \/ StartCaveats \/ StartHistory
    \/ StructuredLoop \/ CaveatsLoop \/ HistoryLoop
    \/ Kill

World ==
    \/ \E s \in Passes : MoveOn(s)
    \/ \E f \in Files : HandEdit(f) \/ HandCommit(f)
    \/ Clean

Next == Run \/ World

Spec == Init /\ [][Next]_vars

----------------------------------------------------------------------------

\* The newest line of log.md about a page and a pass is the section it shows.
Newest(p, s, content) ==
    {mk \in content[Log] : /\ mk.by = s /\ mk.on = p
                           /\ \A other \in content[Log] :
                                other.by = s /\ other.on = p => other.at <= mk.at}

PagesMatchTheLog ==
    \A p \in Pages, s \in Passes :
        {mk.at : mk \in Sections(p, s, head)} = {mk.at : mk \in Newest(p, s, head)}

Landed == {mk.on : mk \in head[Log] \ began} \ {"page"}

RunsTellWhatLanded ==
    /\ published = Landed
    /\ published \cap flagged = {}

\* Every pass publishes a page with its line of log.md or not at all: over
\* failures, interrupts, kills, blocked pages and hands at work, HEAD shows on
\* each page the section its newest line tells, and a run tells exactly the
\* pages that landed (structured, caveats, past_fixes).
ResearchLandsWhole == PagesMatchTheLog /\ RunsTellWhatLanded

\* A commit made by hand while a pass runs stays in HEAD: "Restoring to a stale
\* `base` would check its old content out over a newer commit" (_restore).
HandsAreKept ==
    [][\A f \in Files : {mk \in head[f] : mk.by = "hand"} \subseteq head'[f]]_vars
=============================================================================
