---------------------------- MODULE MCServices ----------------------------
(***************************************************************************)
(* Small instances of the components that share no state, side by side:    *)
(* each behaviour is a behaviour of one of them, the others stand still.   *)
(* The advisory runner, the incident pages, the alerts and the monitoring  *)
(* verdicts are extended, so their variables, constants and invariants are *)
(* those of their own modules; the others are instances.                   *)
(***************************************************************************)
EXTENDS AdvisoryRunner, IncidentLifecycle, Alerts, Monitoring, TLC

CONSTANTS
    i1, i2, code,          \* incident pages and an error code
    f1, f2, s1, s2,        \* failures and sinks
    t1, t2, w1, w2,        \* request and worker threads
    source                 \* a source of log lines

VARIABLES
    component,             \* whose behaviour this is
    text, hands,
    wiki, digests, attempts, asked, writes

editing == <<text, hands>>
proposing == <<wiki, digests, attempts, asked, writes>>

\* The first of two pages of a database names an error code.
Pages == {i1, i2}
OneError == {code}
Ends == {1, 2}
NoPages == {}
OneDb == [i \in Pages |-> "db"]
FirstMentions == [i \in Pages |-> IF i = i1 THEN OneError ELSE {}]

\* Two failures of one subject, told to two sinks.
Failures == {f1, f2}
TwoSinks == {s1, s2}
OneSubject == [f \in Failures |-> "subject"]

\* Three clicks of one tool, two at a time, for two calls in a window.
ThreeClicks == 1 .. 3
OneTool == [r \in Clicks |-> "tool"]
FewPrices == {Unpriced, 1}
AnyActor == Permutations(Threads) \cup Permutations(Workers)

\* Two lines of one entry, the first within the second.
Once == <<"-", "x", "open">>
Again == <<"-", "x", "open", "again">>
TwoLines == {Once, Again}
TheEntry == {<<"-", "x">>}
TwoNotes == {<<"ingest">>, <<"ingest", "x">>}
Text == INSTANCE PageText WITH
    Entries <- TwoLines, Notes <- TwoNotes, Prefixed <- TheEntry, MaxLines <- 7, page <- text

\* Three proposals about two days and a code.
TwoDays == {"monday", "tuesday"}
OneCode == {"ORA-600"}
TwoSlugs == {"a", "b"}
Structured == INSTANCE StructuredWriters WITH
    Days <- TwoDays, Codes <- OneCode, Slugs <- TwoSlugs, MaxWrites <- 3

\* Days of two slots, a window that fits the walk and one that does not.
Watched == {source}
Notable == {"ORA"}
Arming == {[kind |-> "error_absent", on |-> "ORA"], [kind |-> "event_present", on |-> "ORA"],
           [kind |-> "flow_resumed", on |-> source]}
OneStart == {[start |-> 1, until |-> 3], [start |-> 1, until |-> 5]}

SuiteInit ==
    /\ component \in {"incidents", "alerts", "advisory", "text", "structured", "monitoring"}
    /\ LifecycleInit /\ AlertInit /\ Init
    /\ Text!Init /\ Structured!Init /\ MonitoringInit

SuiteNext ==
    \/ component = "incidents" /\ LifecycleNext
       /\ UNCHANGED <<component, alerting, vars, editing, proposing, observing>>
    \/ component = "alerts" /\ AlertNext
       /\ UNCHANGED <<component, lifecycle, vars, editing, proposing, observing>>
    \/ component = "advisory" /\ Next
       /\ UNCHANGED <<component, lifecycle, alerting, editing, proposing, observing>>
    \/ component = "text" /\ Text!Next
       /\ UNCHANGED <<component, lifecycle, alerting, vars, proposing, observing>>
    \/ component = "structured" /\ Structured!Next
       /\ UNCHANGED <<component, lifecycle, alerting, vars, editing, observing>>
    \/ component = "monitoring" /\ MonitoringNext
       /\ UNCHANGED <<component, lifecycle, alerting, vars, editing, proposing>>

----------------------------------------------------------------------------

\* An editor applied twice is the editor applied once (PageText).
EditsAreSurgical == component = "text" => Text!EditsAreSurgical
\* Whatever a model proposes, the wiki stays sound (StructuredWriters).
WikiStaysSound == component = "structured" => Structured!WikiStaysSound
=============================================================================
