----------------------------- MODULE StageRails -----------------------------
(***************************************************************************)
(* What an agent may publish.  The agentic stages of orchestrate.py hand   *)
(* the checkout to an agent that can write anything into it, perhaps twice *)
(* (agents.feedback_retries), and then judge what they find: the result    *)
(* the agent wrote against the paths that changed, the paths against the   *)
(* directories of the stage, incident pages against what belongs to the    *)
(* lifecycle service (ADR-0003), research against the approved sources.    *)
(* An agent that omits its result has one made up from git status; an      *)
(* escalated report whose agent dies is written by the structured path.    *)
(* A tool that put itself in a session of its own survives the kill of a   *)
(* timed-out agent and goes on writing.                                    *)
(*                                                                         *)
(* One file stands for each kind of path.  Transactions, hands and kills   *)
(* are WikiTransaction's; here HEAD moves only by what a stage publishes.  *)
(***************************************************************************)
EXTENDS Integers, FiniteSets

CONSTANTS
    FeedbackRetries,  \* agents.feedback_retries
    MaxStages,        \* stages run (bound)
    MaxStrays         \* files written that no workflow asks for (bound)

VARIABLES
    head,      \* head[f]: what HEAD holds of each file
    tree,      \* tree[f]: what the checkout holds
    status,    \* the status the lifecycle service last gave the incident
    stage, pc, \* the stage that runs and where it is
    escalated, \* it reports on a notable window
    attempt,   \* which run of the agent this is
    result,    \* the result JSON: the paths it declares, or how it is missing
    snapshot,  \* the proposal: the files as they were captured
    problems,  \* what is wrong with them
    escaped,   \* a tool of a timed-out agent still runs
    told,      \* the telemetry of the last stage
    stages,    \* stages started
    strays     \* files written beside the job

vars == <<head, tree, status, stage, pc, escalated, attempt, result, snapshot, problems,
          escaped, told, stages, strays>>

Shared == {"index.md", "log.md"}
Files == Shared \cup {"incident", "error", "source", "report", "AGENTS.md", ".lint-exceptions",
                      "digest"}
Machine == {"digest"}

\* STAGE_DIRS, and the paths research allows.
StageDirs(s) ==
    CASE s = "ingest" -> {"error", "incident"}
      [] s = "report" -> {"report"}
      [] s = "lint" -> {"error", "incident", "report"}
      [] s = "research" -> {"error", "source"}
Hidden == {".lint-exceptions"}

\* A file is gone (or empty, which the rails take alike) or one of two texts;
\* an incident page also has a status, and a text may cite an address no
\* approved source has.
Gone == [text |-> "gone", status |-> "none", strange |-> FALSE]
File(text, st, strange) == [text |-> text, status |-> st, strange |-> strange]
There(file) == file.text # "gone"
Other(file) == [file EXCEPT !.text = IF @ = "this" THEN "that" ELSE "this"]

\* What one write may do to a file.
Written(f, file) ==
    {Other(file)}
    \cup (IF f \in Shared \cup {"error", "incident", "report"} THEN {Gone} ELSE {})
    \cup (IF f = "incident" /\ There(file)
          THEN {[file EXCEPT !.status = st] : st \in {"open", "resolved"}} ELSE {})
    \cup (IF f = "error" /\ There(file) THEN {[Other(file) EXCEPT !.strange = TRUE]} ELSE {})

\* The work the stage asks for, done as its workflow says.
Job(s, t) ==
    [f \in Files |->
        IF \/ f = "log.md" /\ s \in {"ingest", "report"}
           \/ f = "error" /\ s \in {"ingest", "lint", "research"} /\ There(t[f])
           \/ f = "incident" /\ s = "ingest" /\ There(t[f])
           \/ f = "report" /\ s = "report"
        THEN Other(t[f]) ELSE t[f]]

Stray == {f \in Files \ Machine : tree[f] # head[f]}
ChangedIn(files) == {f \in Files \ Machine : files[f] # head[f]}

----------------------------------------------------------------------------
(* The rails.                                                              *)

NoResult == [declared |-> {}, is |-> "missing"]
Result(declared) == [declared |-> declared, is |-> "there"]

\* Every path the result declares is there, none is machine output, every
\* changed path is declared; an ingest or report changed log.md.
ResultProblems(s, res, changed) ==
    {"not there" : f \in {g \in res.declared : ~There(tree[g])}}
    \cup {"machine output" : f \in res.declared \cap Machine}
    \cup {"undeclared" : f \in changed \ (res.declared \cup Shared)}
    \cup {"digest modified" : f \in {g \in Machine : tree[g] # head[g]}}
    \cup (IF s \in {"ingest", "report"} /\ "log.md" \notin changed
          THEN {"log.md not updated"} ELSE {})

\* Mutant: only what the result declares is looked at.
DeletionsDeclared(s, changed) ==
    {"emptied" : f \in {g \in changed \cap Shared \cap result.declared :
                           tree[g].text \in {"gone"}}}
    \cup {"deleted" : f \in {g \in changed \ Shared : ~There(tree[g]) /\ s # "lint"}}

\* _deletion_problems: index.md and log.md keep content; lint alone deletes.
DeletionProblems(s, changed) ==
    {"emptied" : f \in {g \in changed \cap Shared : tree[g].text \in {"gone"}}}
    \cup {"deleted" : f \in {g \in changed \ Shared : ~There(tree[g]) /\ s # "lint"}}

\* _path_problems: nothing hidden, nothing outside the directories of the stage.
PathProblems(s, changed) ==
    {"hidden" : f \in changed \cap Hidden}
    \cup {"outside" : f \in changed \ (Shared \cup Hidden \cup StageDirs(s))}

\* _human_owned_diff against base: an incident page may be added to.
IncidentProblems(s, changed, files) ==
    IF s = "research" \/ "incident" \notin changed \/ ~There(head["incident"]) THEN {}
    ELSE IF ~There(files["incident"]) THEN {"incident deleted"}
    ELSE IF files["incident"].status # head["incident"].status THEN {"human-owned"}
    ELSE {}

\* _research_problems: a source page is not created, no strange address cited.
ResearchProblems(s) ==
    IF s # "research" THEN {}
    ELSE {"new source" : f \in {g \in Stray \cap {"source"} : ~There(head[g])}}
         \cup {"unapproved url" : f \in {g \in Stray \cap {"error"} : tree[g].strange}}

ReportProblems(s) == IF s = "report" /\ ~There(tree["report"]) THEN {"report missing"} ELSE {}

Problems(s, res, files) ==
    LET changed == ChangedIn(files)
    IN ResultProblems(s, res, changed) \cup DeletionProblems(s, changed)
       \cup PathProblems(s, changed) \cup IncidentProblems(s, changed, files)
       \cup ResearchProblems(s) \cup ReportProblems(s)

----------------------------------------------------------------------------
(* A stage.                                                                *)

\* Refused on a dirty tree; digests are committed first.
Begin(s) ==
    /\ pc = "idle"
    /\ stages < MaxStages
    /\ Stray = {}
    /\ stages' = stages + 1
    /\ stage' = s
    /\ escalated' \in (IF s = "report" THEN BOOLEAN ELSE {FALSE})
    /\ attempt' = 1
    /\ pc' = "agent"
    /\ head' = [head EXCEPT !["digest"] = tree["digest"]]
    /\ result' = NoResult
    /\ problems' = {}
    /\ UNCHANGED <<tree, status, snapshot, escaped, told, strays>>

Ingest == Begin("ingest")
Report == Begin("report")
Lint == Begin("lint")
Research == Begin("research")

\* The agent does its job or not, and may write one thing beside.
AgentWrites ==
    /\ pc = "agent"
    /\ \E done \in BOOLEAN :
         LET t == IF done THEN Job(stage, tree) ELSE tree
         IN \/ tree' = t /\ UNCHANGED strays
          \/ /\ strays < MaxStrays
             /\ strays' = strays + 1
             /\ \E f \in Files : \E file \in Written(f, t[f]) : tree' = [t EXCEPT ![f] = file]
    /\ pc' = "ends"
    /\ UNCHANGED <<head, status, stage, escalated, attempt, result, snapshot, problems,
                   escaped, told, stages>>

\* It declares what it changed, or forgets one, or claims what is not there.
AgentAnswers ==
    /\ pc = "ends"
    /\ \E declared \in {Stray} \cup {Stray \ {f} : f \in Stray} \cup {Stray \cup {"digest"}} :
         result' = Result(declared)
    /\ pc' = "look"
    /\ UNCHANGED <<head, tree, status, stage, escalated, attempt, snapshot, problems, escaped,
                   told, stages, strays>>

\* NoResultError, InvalidResultError: another attempt, if there is one left;
\* then a result is made up of what changed, or the stage fails.
AgentOmits(invalid) ==
    /\ pc = "ends"
    /\ \/ /\ attempt <= FeedbackRetries
          /\ attempt' = attempt + 1
          /\ pc' = "agent"
          /\ UNCHANGED result
       \/ /\ attempt > FeedbackRetries
          /\ ~invalid /\ Stray # {}
          /\ result' = Result(Stray)
          /\ pc' = "capture"
          /\ UNCHANGED attempt
       \/ /\ attempt > FeedbackRetries
          /\ invalid \/ Stray = {}
          /\ pc' = "failed"
          /\ UNCHANGED <<attempt, result>>
    /\ UNCHANGED <<head, tree, status, stage, escalated, snapshot, problems, escaped, told,
                   stages, strays>>

\* A timeout or another HarnessError: an escalated report falls back to the
\* structured path over a clean tree, every other stage fails.
AgentDies ==
    /\ pc = "ends"
    /\ escaped' \in {escaped, TRUE}
    /\ \/ stage = "report" /\ escalated /\ pc' = "fallback"
       \/ pc' = "failed"
    /\ UNCHANGED <<head, tree, status, stage, escalated, attempt, result, snapshot, problems,
                   told, stages, strays>>

\* The early look of the retry loop: what is wrong goes back to the agent,
\* whose edits stay in the tree.
Look ==
    /\ pc = "look"
    /\ LET wrong == Problems(stage, result, tree)
       IN IF wrong # {} /\ attempt <= FeedbackRetries
          THEN pc' = "agent" /\ attempt' = attempt + 1
          ELSE pc' = "capture" /\ UNCHANGED attempt
    /\ UNCHANGED <<head, tree, status, stage, escalated, result, snapshot, problems, escaped,
                   told, stages, strays>>

\* _rollback, and apply_report: the deterministic writer does the job.
Fallback ==
    /\ pc = "fallback"
    /\ LET clean == [f \in Files |-> IF f \in Stray THEN head[f] ELSE tree[f]]
       IN tree' = Job("report", clean)
    /\ result' = Result({"report", "log.md"})
    /\ pc' = "capture"
    /\ UNCHANGED <<head, status, stage, escalated, attempt, snapshot, problems, escaped, told,
                   stages, strays>>

Capture ==
    /\ pc = "capture"
    /\ snapshot' = tree
    /\ pc' = "judge"
    /\ UNCHANGED <<head, tree, status, stage, escalated, attempt, result, problems, escaped,
                   told, stages, strays>>

\* The proposal and what is in the tree are judged for good.
Judge ==
    /\ pc = "judge"
    /\ problems' = Problems(stage, result, snapshot)
    /\ pc' = IF problems' = {} THEN "publish" ELSE "failed"
    /\ UNCHANGED <<head, tree, status, stage, escalated, attempt, result, snapshot, escaped,
                   told, stages, strays>>

\* transaction.commit: what is in the tree is not what was captured.
TreeDirty == \E f \in Stray : tree[f] # snapshot[f]

\* The end of a stage: what it was is forgotten, what it did is told.
Ends(ok, published) ==
    /\ told' = [stage |-> stage, ok |-> ok, published |-> published]
    /\ stage' = "none" /\ pc' = "idle"
    /\ escalated' = FALSE /\ attempt' = 1
    /\ result' = NoResult /\ problems' = {}
    /\ snapshot' = head'

Publish ==
    /\ pc = "publish"
    /\ ~TreeDirty
    /\ head' = [f \in Files |-> IF f \in ChangedIn(snapshot) THEN snapshot[f] ELSE head[f]]
    /\ tree' = [f \in Files |-> IF f \in ChangedIn(snapshot) THEN snapshot[f] ELSE tree[f]]
    /\ Ends(TRUE, ChangedIn(snapshot))
    /\ UNCHANGED <<status, escaped, stages, strays>>

\* A dirty tree, or lint findings that block (anyone's guess here).
Refused ==
    /\ pc = "publish"
    /\ pc' = "failed"
    /\ UNCHANGED <<head, tree, status, stage, escalated, attempt, result, snapshot, problems,
                   escaped, told, stages, strays>>

\* _stage: back to HEAD, after the tree has settled; the failure is recorded.
Fail ==
    /\ pc = "failed"
    /\ tree' = [f \in Files |-> IF f \in Machine THEN tree[f] ELSE head[f]]
    /\ head' = head
    /\ Ends(FALSE, {})
    /\ UNCHANGED <<status, escaped, stages, strays>>

\* The tool that escaped writes once more and is done; _settle does not wait
\* for ever.  It does not undo: what it writes is not what HEAD holds.
EscapedWrites ==
    /\ escaped
    /\ strays < MaxStrays
    /\ strays' = strays + 1
    /\ escaped' = FALSE
    /\ \E f \in Files : \E file \in Written(f, tree[f]) \ {head[f]} :
         tree' = [tree EXCEPT ![f] = file]
    /\ UNCHANGED <<head, status, stage, escalated, attempt, result, snapshot, problems, pc,
                   told, stages>>

\* An operator cleans up by hand.
Restored ==
    /\ pc = "idle"
    /\ Stray # {} \/ tree["digest"] # head["digest"]
    /\ tree' = head
    /\ UNCHANGED <<head, status, stage, escalated, attempt, result, snapshot, problems, pc,
                   escaped, told, stages, strays>>

\* An operator resolves the incident.
Act ==
    /\ pc = "idle"
    /\ Stray = {}
    /\ status = "open"
    /\ status' = "resolved"
    /\ head' = [head EXCEPT !["incident"].status = "resolved"]
    /\ tree' = [tree EXCEPT !["incident"].status = "resolved"]
    /\ UNCHANGED <<stage, escalated, attempt, result, snapshot, problems, pc, escaped, told,
                   stages, strays>>

Init ==
    /\ head = [f \in Files |->
                 CASE f = "report" -> Gone
                   [] f = "incident" -> File("this", "open", FALSE)
                   [] OTHER -> File("this", "none", FALSE)]
    /\ tree = head
    /\ status = "open"
    /\ stage = "none" /\ pc = "idle"
    /\ escalated = FALSE /\ attempt = 1
    /\ result = NoResult
    /\ snapshot = head
    /\ problems = {}
    /\ escaped = FALSE
    /\ told = [stage |-> "none", ok |-> FALSE, published |-> {}]
    /\ stages = 0 /\ strays = 0

Next ==
    \/ Ingest \/ Report \/ Lint \/ Research
    \/ AgentWrites \/ AgentAnswers \/ AgentDies
    \/ AgentOmits(TRUE) \/ AgentOmits(FALSE)
    \/ Look \/ Fallback \/ Capture \/ Judge \/ Publish \/ Refused \/ Fail
    \/ EscapedWrites \/ Restored \/ Act

Spec == Init /\ [][Next]_vars

----------------------------------------------------------------------------

\* HEAD keeps its rails whatever agents write and however their runs end:
\* index.md and log.md keep their text; the incident page is there with the
\* status the lifecycle service gave it; AGENTS.md, the lint exceptions and
\* the source page are as people left them; research brought in no strange
\* address; a stage told as done has its report and its line of log.md.
\* (A digest an agent wrote is not put back: see the README.)
HeadKeepsItsRails ==
    /\ \A f \in Shared : head[f].text \notin {"gone"}
    /\ There(head["incident"])
    /\ head["incident"].status = status
    /\ \A f \in {"AGENTS.md", ".lint-exceptions"} : head[f].text = "this"
    /\ There(head["source"])
    /\ told.stage = "research" /\ "error" \in told.published => ~head["error"].strange
    /\ told.stage = "report" /\ told.ok => There(head["report"])
    /\ told.stage \in {"ingest", "report"} /\ told.ok => "log.md" \in told.published
=============================================================================
