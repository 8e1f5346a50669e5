----------------------------- MODULE ScoreQueue -----------------------------
(***************************************************************************)
(* The capped logs of .state (health._append_capped) and the queue of      *)
(* human-feedback scores kept in one of them (scores.py): acts append      *)
(* records from several processes, a sender posts what it read and drops   *)
(* it.  Append, trim and drop hold the lock of the log; reading does not.  *)
(***************************************************************************)
EXTENDS Integers, Sequences, FiniteSets, SequencesExt

CONSTANTS
    Recorders,  \* processes that queue scores: the portal, incident commands
    Senders,    \* `scores send` processes
    Keys,       \* score ids
    Cap,        \* MAX_PENDING
    MaxActs,    \* verdicts given (bound)
    MaxFaults,  \* failed posts and flushes, and kills (bound)
    Unknown     \* a process that has not counted the log

VARIABLES
    log,       \* pending_scores.jsonl: a sequence of [key, value]
    lock,      \* the processes holding the .lock: one or none
    estimate,  \* estimate[p]: _line_counts of a process
    pc, rows,  \* what a process is about and the lines it read
    buffer,    \* buffer[s]: records handed to the client, not flushed
    posted,    \* posted[s]: keys create_score took
    landed,    \* landed[k]: the value Langfuse shows, 0 when none
    acts, faults,
    verdict,   \* verdict[k]: the last verdict given, 0 when none
    cut        \* records a trim let go
vars == <<log, lock, estimate, pc, rows, buffer, posted, landed, acts, faults, verdict, cut>>

Processes == Recorders \cup Senders
Slack == IF Cap \div 10 > 1 THEN Cap \div 10 ELSE 1

Init ==
    /\ log = <<>> /\ lock = {} /\ estimate = [p \in Processes |-> Unknown]
    /\ pc = [p \in Processes |-> "idle"] /\ rows = [p \in Processes |-> <<>>]
    /\ buffer = [s \in Senders |-> <<>>] /\ posted = [s \in Senders |-> {}]
    /\ landed = [k \in Keys |-> 0] /\ acts = 0 /\ faults = 0
    /\ verdict = [k \in Keys |-> 0] /\ cut = {}

Goes(p, to) == pc' = [pc EXCEPT ![p] = to]
Fault == faults < MaxFaults /\ faults' = faults + 1

----------------------------------------------------------------------------
(* The log                                                                 *)

\* An act appends under the lock; a line past cap and slack, by the estimate
\* of the process, makes it trim before it lets go.
Counted(p) == IF estimate[p] = Unknown THEN Len(log) + 1 ELSE estimate[p] + 1
Append_(p, k) ==
    /\ pc[p] = "idle" /\ lock = {} /\ acts < MaxActs
    /\ acts' = acts + 1
    /\ verdict' = [verdict EXCEPT ![k] = acts']
    /\ log' = Append(log, [key |-> k, value |-> acts'])
    /\ estimate' = [estimate EXCEPT ![p] = Counted(p)]
    /\ IF Counted(p) <= Cap + Slack THEN UNCHANGED <<pc, lock>>
       ELSE Goes(p, "trim") /\ lock' = {p}
    /\ UNCHANGED <<rows, buffer, posted, landed, faults, cut>>

TrimReads(p) ==
    /\ pc[p] = "trim"
    /\ rows' = [rows EXCEPT ![p] = log]
    /\ estimate' = [estimate EXCEPT ![p] = Len(log)]
    /\ IF Len(log) <= Cap THEN Goes(p, "idle") /\ lock' = {}
       ELSE Goes(p, "rename") /\ UNCHANGED lock
    /\ UNCHANGED <<log, buffer, posted, landed, acts, faults, verdict, cut>>

Newest(lines) == SubSeq(lines, Len(lines) - Cap + 1, Len(lines))
TrimRenames(p) ==
    /\ pc[p] = "rename"
    /\ log' = Newest(rows[p]) /\ cut' = cut \cup (ToSet(rows[p]) \ ToSet(Newest(rows[p])))
    /\ estimate' = [estimate EXCEPT ![p] = Cap]
    /\ rows' = [rows EXCEPT ![p] = <<>>]
    /\ Goes(p, "idle") /\ lock' = lock \ {p}
    /\ UNCHANGED <<buffer, posted, landed, acts, faults, verdict>>

----------------------------------------------------------------------------
(* The sender                                                              *)

\* Of the lines that repeat a key the latest is sent, in file order of last.
Lasts(lines) == {n \in DOMAIN lines : \A m \in DOMAIN lines : lines[m].key = lines[n].key => m <= n}
Latest(lines) ==
    LET last == SetToSortSeq(Lasts(lines), LAMBDA m, n : m < n)
    IN  [n \in DOMAIN last |-> lines[last[n]]]

Read(s) ==
    /\ pc[s] = "idle" /\ log # <<>>
    /\ rows' = [rows EXCEPT ![s] = log]
    /\ buffer' = [buffer EXCEPT ![s] = Latest(log)]
    /\ Goes(s, "post")
    /\ UNCHANGED <<log, lock, estimate, posted, landed, acts, faults, verdict, cut>>

\* create_score takes all, or refuses one.
Post(s) ==
    /\ pc[s] = "post"
    /\ posted' = [posted EXCEPT ![s] = {r.key : r \in ToSet(buffer[s])}]
    /\ Goes(s, "flush")
    /\ UNCHANGED <<log, lock, estimate, rows, buffer, landed, acts, faults, verdict, cut>>
PostRefuses(s, k) ==
    /\ pc[s] = "post" /\ Fault /\ \E r \in ToSet(buffer[s]) : r.key = k
    /\ buffer' = [buffer EXCEPT ![s] = SelectSeq(@, LAMBDA r : r.key # k)]
    /\ posted' = [posted EXCEPT ![s] = {r.key : r \in ToSet(buffer'[s])}]
    /\ Goes(s, "flush")
    /\ UNCHANGED <<log, lock, estimate, rows, landed, acts, verdict, cut>>

\* Langfuse upserts: the last value sent under a score id is the one it shows.
Upserted(n, s) ==
    [k \in Keys |-> LET sent == {m \in 1..n : buffer[s][m].key = k}
                    IN  IF sent = {} THEN landed[k] ELSE buffer[s][CHOOSE m \in sent : TRUE].value]
Flush(s) ==
    /\ pc[s] = "flush"
    /\ landed' = Upserted(Len(buffer[s]), s)
    /\ Goes(s, IF posted[s] = {} THEN "idle" ELSE "drop")
    /\ UNCHANGED <<log, lock, estimate, rows, buffer, posted, acts, faults, verdict, cut>>
FlushFails(s, n) ==
    /\ pc[s] = "flush" /\ Fault /\ n \in 0..Len(buffer[s])
    /\ landed' = Upserted(n, s)
    /\ Goes(s, "idle")
    /\ buffer' = [buffer EXCEPT ![s] = <<>>] /\ posted' = [posted EXCEPT ![s] = {}]
    /\ rows' = [rows EXCEPT ![s] = <<>>]
    /\ UNCHANGED <<log, lock, estimate, acts, verdict, cut>>

\* Exactly the lines that were read of the keys that were posted go.
KeptByKey(s) == SelectSeq(log, LAMBDA r : r.key \notin posted[s])
Kept(s) == SelectSeq(log, LAMBDA r : ~(r.key \in posted[s] /\ r \in ToSet(rows[s])))
Drop(s) ==
    /\ pc[s] = "drop" /\ lock = {}
    /\ log' = Kept(s)
    /\ estimate' = [estimate EXCEPT ![s] = Unknown]
    /\ buffer' = [buffer EXCEPT ![s] = <<>>] /\ posted' = [posted EXCEPT ![s] = {}]
    /\ rows' = [rows EXCEPT ![s] = <<>>]
    /\ Goes(s, "idle")
    /\ UNCHANGED <<lock, landed, acts, faults, verdict, cut>>

\* A process is killed: its lock and its count go with it, and what the client
\* had of a send may have left.
Kill(p) ==
    /\ Fault /\ pc[p] # "idle"
    /\ Goes(p, "idle") /\ lock' = lock \ {p}
    /\ estimate' = [estimate EXCEPT ![p] = Unknown] /\ rows' = [rows EXCEPT ![p] = <<>>]
    /\ IF p \in Senders
       THEN /\ \E n \in 0..Len(buffer[p]) :
                  landed' = IF pc[p] = "flush" THEN Upserted(n, p) ELSE landed
            /\ buffer' = [buffer EXCEPT ![p] = <<>>] /\ posted' = [posted EXCEPT ![p] = {}]
       ELSE UNCHANGED <<landed, buffer, posted>>
    /\ UNCHANGED <<log, acts, verdict, cut>>

Next ==
    \/ \E p \in Recorders :
           \/ \E k \in Keys : Append_(p, k)
           \/ TrimReads(p) \/ TrimRenames(p)
    \/ \E s \in Senders :
           \/ Read(s) \/ Post(s) \/ Flush(s) \/ Drop(s)
           \/ \E k \in Keys : PostRefuses(s, k)
           \/ \E n \in 0..Cardinality(Keys) : FlushFails(s, n)
    \/ \E p \in Processes : Kill(p)

----------------------------------------------------------------------------

\* The last verdict on a page or a finding is what Langfuse shows, or it waits
\* in the queue, or the cap let it go for newer ones: neither a trim beside an
\* append, nor a send beside a new verdict, nor a refusal, a failed flush or a
\* kill loses it.
LastVerdictStands ==
    /\ \A k \in Keys : verdict[k] # 0 =>
           LET last == [key |-> k, value |-> verdict[k]]
           IN  landed[k] = verdict[k] \/ last \in ToSet(log) \/ last \in cut
    /\ \A lost \in cut, kept \in ToSet(log) : lost.value < kept.value
=============================================================================
