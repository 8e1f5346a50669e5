------------------------------- MODULE Alerts -------------------------------
(***************************************************************************)
(* Failure alerts (alerts.py): every dispatch assesses the pipeline, sends *)
(* what its state file does not hold or holds as undelivered and due, and  *)
(* saves the next state once, after the last send.  Dispatches hold the    *)
(* single-flight lock, so there is one at a time; a kill may fall between  *)
(* any two of its sends and before the save.                               *)
(***************************************************************************)
EXTENDS Integers, FiniteSets

CONSTANTS
    Findings,    \* fingerprints of what may be wrong
    Key,         \* Key[f]: the subject an escalation is measured against
    Sinks,       \* configured transports
    RETRY_BASE, RETRY_CAP,
    LastDispatch, \* where the clock stops (bound)
    MaxKills,    \* killed dispatches (bound)
    Unseen       \* no entry

VARIABLES
    clock,
    broken,    \* what is wrong in the pipeline
    entries,   \* entries[f]: .state/alerts.json
    pc,        \* "idle" or "sending"
    next,      \* the state evaluate returned, as dispatch amends it
    outbox,    \* alerts still to send
    deaths,
    unheard,   \* listed as recovered by a save, though not every sink had them
    told,      \* <<f, s>>: sink s has f since f appeared
    complete   \* complete[f]: times f reached every sink since it appeared
alerting == <<clock, broken, entries, unheard, pc, next, outbox, deaths, told, complete>>

Told == [failures |-> 0, retryAt |-> 0]
Undelivered(entry) == entry # Unseen /\ entry.failures > 0

\* Failed sends wait RETRY_BASE, doubling up to RETRY_CAP.
Backoff(failures) ==
    LET delay == RETRY_BASE * 2 ^ (failures - 1)
    IN  IF delay < RETRY_CAP THEN delay ELSE RETRY_CAP
FailedEntry(f) ==
    LET failures == (IF Undelivered(entries[f]) THEN entries[f].failures ELSE 0) + 1
    IN  [failures |-> failures, retryAt |-> clock + Backoff(failures)]

\* Mutant: whatever has no retry time ahead is due.
RetryDueAny(f) == entries[f] # Unseen /\ entries[f].retryAt <= clock
RetryDue(f) == Undelivered(entries[f]) /\ entries[f].retryAt <= clock

\* A finding whose subject had other news replaces it.
Arrived(f) == \E g \in broken : Key[g] = Key[f] /\ entries[g] = Unseen
\* What a dispatch sends, and the entry it holds for what is wrong; a
\* retry is marked as told before its send, which reverts the mark.
ToSend == {f \in broken : entries[f] = Unseen \/ RetryDue(f)}
EntryOf(f) == IF f \notin broken THEN Unseen
              ELSE IF f \in ToSend THEN Told ELSE entries[f]
Recovered ==
    {f \in Findings \ broken :
        entries[f] # Unseen /\ ~Undelivered(entries[f]) /\ ~Arrived(f)}

AlertInit ==
    /\ clock = 0
    /\ broken = {}
    /\ entries = [f \in Findings |-> Unseen]
    /\ unheard = {}
    /\ pc = "idle" /\ next = entries /\ outbox = {}
    /\ deaths = 0
    /\ told = {}
    /\ complete = [f \in Findings |-> 0]

\* Between two dispatches things break and recover.
TimePasses(wrong) ==
    /\ pc = "idle" /\ clock < LastDispatch
    /\ clock' = clock + 1
    /\ broken' = wrong
    /\ UNCHANGED <<entries, unheard, pc, next, outbox, deaths, told, complete>>

Dispatch ==
    /\ pc = "idle"
    /\ pc' = "sending"
    /\ next' = [f \in Findings |-> EntryOf(f)]
    /\ outbox' = ToSend
    /\ UNCHANGED <<clock, broken, entries, unheard, deaths, told, complete>>

\* MultiSink tries every sink and raises afterwards if one failed.
Send(f, failing) ==
    /\ pc = "sending" /\ f \in outbox
    /\ outbox' = outbox \ {f}
    /\ next' = IF failing = {} THEN next ELSE [next EXCEPT ![f] = FailedEntry(f)]
    /\ told' = told \cup {<<f, s>> : s \in Sinks \ failing}
    /\ complete' = IF failing = {} THEN [complete EXCEPT ![f] = @ + 1] ELSE complete
    /\ UNCHANGED <<clock, broken, entries, unheard, pc, deaths>>

\* A fingerprint that is gone is forgotten: when it comes back it is news.
Save ==
    /\ pc = "sending" /\ outbox = {}
    /\ entries' = next
    /\ unheard' = unheard \cup {f \in Recovered : \E s \in Sinks : <<f, s>> \notin told}
    /\ pc' = "idle" /\ next' = [f \in Findings |-> Unseen]
    /\ complete' = [f \in Findings |-> IF next[f] = Unseen THEN 0 ELSE complete[f]]
    /\ told' = {t \in told : next[t[1]] # Unseen}
    /\ UNCHANGED <<clock, broken, outbox, deaths>>

DispatchDies ==
    /\ pc = "sending" /\ deaths < MaxKills
    /\ deaths' = deaths + 1
    /\ pc' = "idle" /\ next' = [f \in Findings |-> Unseen] /\ outbox' = {}
    /\ UNCHANGED <<clock, broken, entries, unheard, told, complete>>

AlertNext ==
    \/ \E wrong \in SUBSET Findings : TimePasses(wrong)
    \/ Dispatch
    \/ \E f \in Findings, failing \in SUBSET Sinks : Send(f, failing)
    \/ Save
    \/ DispatchDies

AlertSpec == AlertInit /\ [][AlertNext]_alerting

----------------------------------------------------------------------------

\* What the state file calls alerted was delivered: an entry that is not
\* marked undelivered reached every sink since it appeared, however its sends
\* failed, were retried or were cut off by a kill; and a recovery is listed
\* only of what was told.
AlertedMeansTold ==
    /\ unheard = {}
    /\ \A f \in Findings :
           entries[f] # Unseen /\ ~Undelivered(entries[f])
               => \A s \in Sinks : <<f, s>> \in told

\* A failure that persists is alerted once: it reaches the sinks a second
\* time only for a dispatch that was killed before it saved.
OneAlertPerOutage == \A f \in Findings : complete[f] <= 1 + deaths

\* An outage is told once, to everybody who is told.
EveryOutageIsToldOnce == AlertedMeansTold /\ OneAlertPerOutage
=============================================================================
