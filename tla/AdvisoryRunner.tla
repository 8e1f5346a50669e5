--------------------------- MODULE AdvisoryRunner ---------------------------
(***************************************************************************)
(* The advisory runs of the portal (advisory.py): a click is swept for,    *)
(* admitted against the spend of its tool, recorded and handed to a worker *)
(* thread, which calls the model outside every lock.  Request threads run  *)
(* together and click again; the portal may die and start as a new boot.   *)
(***************************************************************************)
EXTENDS Integers, FiniteSets

CONSTANTS
    Clicks,        \* run ids: tool, target, at and question (numbers: names sort)
    Tools, ToolOf, \* ToolOf[r]
    Threads,       \* request threads
    Workers,       \* worker threads
    Slots,         \* max_concurrent
    Retain,        \* run files kept
    MaxRuns,       \* budget.max_runs
    MaxCost,       \* budget.max_cost_usd, or NoCeiling
    Window,        \* budget.window_h
    Prices,        \* what a call may cost: numbers and Unpriced
    LastInstant,   \* where the clock stops (bound)
    MaxStarts,     \* clicks posted (bound)
    MaxFaults,     \* failed writes and calls, and dead portals (bound)
    NoCeiling, Unpriced, NoRecord

Statuses == {"queued", "running", "refused", "interrupted", "failed", "succeeded"}
Records == [status : Statuses, boot : Nat, started : Nat]

ASSUME AdvisoryAssumption ==
    /\ ToolOf \in [Clicks -> Tools]
    /\ IsFiniteSet(Workers)
    /\ Slots \in Nat /\ MaxRuns \in Nat /\ Window \in Nat
    /\ NoRecord \notin Records

VARIABLES
    now, boot,
    record,   \* record[r]: .state/advisory/<r>.json
    ledger,   \* rows of advisory_runs.jsonl
    thread,   \* thread[t]: where a request is
    worker,   \* worker[w]: where a worker is
    starting, \* the request in the _starting lock
    reserved, \* reserved[tool]: admitted and not released
    free,     \* slots left
    posted, faults,
    calls,    \* calls[r]: model calls made for a run id
    pruned,   \* run ids whose file was pruned
    leaked    \* run ids whose worker died on its first write
vars == <<now, boot, record, ledger, thread, worker, starting, reserved, free,
          posted, faults, calls, pruned, leaked>>

InFlight == {"queued", "running"}
Idle == [at |-> "idle", run |-> 0, doomed |-> {}]
Asleep == [at |-> "none", run |-> 0, started |-> 0, price |-> Unpriced]
Fault == faults < MaxFaults /\ faults' = faults + 1

\* A record of another boot in flight is read as interrupted.
AsWritten(entry) == entry
AsOf(entry) ==
    IF entry # NoRecord /\ entry.status \in InFlight /\ entry.boot # boot
    THEN [status |-> "interrupted", boot |-> entry.boot, started |-> entry.started]
    ELSE entry
Fresh(status) == [status |-> status, boot |-> boot, started |-> now]

----------------------------------------------------------------------------
(* The ceiling                                                             *)

InWindow(tool) == {row \in ledger : row.tool = tool /\ row.at >= now - Window}
Spent(tool) == Cardinality(InWindow(tool)) + reserved[tool]
Measured(tool) == {row \in InWindow(tool) : row.cost # Unpriced}
Cost(tool) ==
    LET OfPrice(p) == p * Cardinality({row \in Measured(tool) : row.cost = p})
        Sum[S \in SUBSET (Prices \ {Unpriced})] ==
            IF S = {} THEN 0
            ELSE LET p == CHOOSE x \in S : TRUE IN OfPrice(p) + Sum[S \ {p}]
    IN  Sum[Prices \ {Unpriced}]
Check(tool) ==
    IF Spent(tool) >= MaxRuns THEN "max_runs"
    ELSE IF MaxCost = NoCeiling THEN ""
    ELSE IF Spent(tool) > Cardinality(Measured(tool)) THEN "cost_unknown"
    ELSE IF Cost(tool) >= MaxCost THEN "max_cost_usd" ELSE ""
Admissible(tool) == Check(tool) = "" /\ free > 0

----------------------------------------------------------------------------

Init ==
    /\ now = 0 /\ boot = 0
    /\ record = [r \in Clicks |-> NoRecord]
    /\ ledger = {}
    /\ thread = [t \in Threads |-> Idle] /\ worker = [w \in Workers |-> Asleep]
    /\ starting = {}
    /\ reserved = [tool \in Tools |-> 0] /\ free = Slots
    /\ posted = 0 /\ faults = 0
    /\ calls = [r \in Clicks |-> 0] /\ pruned = {} /\ leaked = {}

Elapses ==
    /\ now < LastInstant /\ now' = now + 1
    /\ UNCHANGED <<boot, record, ledger, thread, worker, starting, reserved, free,
                   posted, faults, calls, pruned, leaked>>

\* sweep: what a dead boot left is rewritten, the surplus is listed ...
Newer(p, q) ==
    \/ record[p].started > record[q].started
    \/ record[p].started = record[q].started /\ p > q
Files == {r \in Clicks : record[r] # NoRecord}
Surplus == {r \in Files : Cardinality({q \in Files : Newer(q, r)}) >= Retain}
Post(t, r) ==
    /\ thread[t] = Idle /\ posted < MaxStarts /\ posted' = posted + 1
    /\ record' = [q \in Clicks |-> AsOf(record[q])]
    /\ thread' = [thread EXCEPT ![t] = [at |-> "sweeping", run |-> r, doomed |-> Surplus]]
    /\ UNCHANGED <<now, boot, ledger, worker, starting, reserved, free, faults, calls,
                   pruned, leaked>>
\* ... and unlinked.
Prune(t) ==
    /\ thread[t].at = "sweeping"
    /\ record' = [r \in Clicks |-> IF r \in thread[t].doomed THEN NoRecord ELSE record[r]]
    /\ pruned' = pruned \cup (thread[t].doomed \cap Files)
    /\ thread' = [thread EXCEPT ![t] = [at |-> "starting", run |-> thread[t].run, doomed |-> {}]]
    /\ UNCHANGED <<now, boot, ledger, worker, starting, reserved, free, posted, faults,
                   calls, leaked>>

\* A record that is not a refusal answers the click.
Standing(r) == record[r] # NoRecord /\ AsOf(record[r]).status # "refused"
Enter(t) ==
    /\ thread[t].at = "starting" /\ starting = {}
    /\ IF Standing(thread[t].run)
       THEN thread' = [thread EXCEPT ![t] = Idle] /\ UNCHANGED starting
       ELSE /\ thread' = [thread EXCEPT ![t].at = "admitting"]
            /\ starting' = {t}
    /\ UNCHANGED <<now, boot, record, ledger, worker, reserved, free, posted, faults,
                   calls, pruned, leaked>>

Deny(t) ==
    /\ thread[t].at = "admitting" /\ ~Admissible(ToolOf[thread[t].run])
    /\ record' = [record EXCEPT ![thread[t].run] = Fresh("refused")]
    /\ thread' = [thread EXCEPT ![t] = Idle] /\ starting' = {}
    /\ UNCHANGED <<now, boot, ledger, worker, reserved, free, posted, faults, calls,
                   pruned, leaked>>
Admit(t) ==
    /\ thread[t].at = "admitting" /\ Admissible(ToolOf[thread[t].run])
    /\ free' = free - 1
    /\ reserved' = [reserved EXCEPT ![ToolOf[thread[t].run]] = @ + 1]
    /\ thread' = [thread EXCEPT ![t].at = "queueing"]
    /\ UNCHANGED <<now, boot, record, ledger, worker, starting, posted, faults, calls,
                   pruned, leaked>>

\* pack, the queued record and the thread; what fails is given back.
Queue(t, w) ==
    /\ thread[t].at = "queueing" /\ worker[w] = Asleep
    /\ record' = [record EXCEPT ![thread[t].run] = Fresh("queued")]
    /\ worker' = [worker EXCEPT ![w] = [at |-> "new", run |-> thread[t].run,
                                           started |-> now, price |-> Unpriced]]
    /\ thread' = [thread EXCEPT ![t] = Idle] /\ starting' = {}
    /\ UNCHANGED <<now, boot, ledger, reserved, free, posted, faults, calls, pruned, leaked>>
Given(tool) ==
    /\ reserved' = [reserved EXCEPT ![tool] = IF @ > 0 THEN @ - 1 ELSE 0]
    /\ free' = free + 1
QueueFails(t) ==
    /\ thread[t].at = "queueing" /\ Fault
    /\ Given(ToolOf[thread[t].run])
    /\ record' = [record EXCEPT ![thread[t].run] = Fresh("failed")]
    /\ thread' = [thread EXCEPT ![t] = Idle] /\ starting' = {}
    /\ UNCHANGED <<now, boot, ledger, worker, posted, calls, pruned, leaked>>

----------------------------------------------------------------------------
(* The worker                                                              *)

Becomes(w, at) == worker' = [worker EXCEPT ![w].at = at]
Written(w, status) ==
    record' = [record EXCEPT ![worker[w].run] =
                 [status |-> status, boot |-> boot, started |-> worker[w].started]]
MarkRunning(w) ==
    /\ worker[w].at = "new"
    /\ Written(w, "running") /\ Becomes(w, "running")
    /\ UNCHANGED <<now, boot, ledger, thread, starting, reserved, free, posted, faults,
                   calls, pruned, leaked>>
\* The first write is outside the try: nothing is given back.
MarkRunningFails(w) ==
    /\ worker[w].at = "new" /\ Fault
    /\ leaked' = leaked \cup {worker[w].run}
    /\ worker' = [worker EXCEPT ![w] = Asleep]
    /\ UNCHANGED <<now, boot, record, ledger, thread, starting, reserved, free, posted,
                   calls, pruned>>
Call(w, price) ==
    /\ worker[w].at = "running"
    /\ calls' = [calls EXCEPT ![worker[w].run] = @ + 1]
    /\ worker' = [worker EXCEPT ![w].at = "succeeded", ![w].price = price]
    /\ UNCHANGED <<now, boot, record, ledger, thread, starting, reserved, free, posted,
                   faults, pruned, leaked>>
\* As a bug: a call that fails is made again.
CallTriedAgain(w) ==
    /\ worker[w].at = "running" /\ Fault
    /\ calls' = [calls EXCEPT ![worker[w].run] = @ + 1]
    /\ UNCHANGED <<now, boot, record, ledger, thread, worker, starting, reserved, free, posted,
                   pruned, leaked>>
CallFails(w) ==
    /\ worker[w].at = "running" /\ Fault
    /\ calls' = [calls EXCEPT ![worker[w].run] = @ + 1]
    /\ Becomes(w, "failed")
    /\ UNCHANGED <<now, boot, record, ledger, thread, starting, reserved, free, posted,
                   pruned, leaked>>
\* The ledger line lands before the terminal record; an append that fails
\* is swallowed (health._record).
Ledger(w) ==
    /\ worker[w].at \in {"succeeded", "failed"}
    /\ ledger' = ledger \cup {[run |-> worker[w].run, tool |-> ToolOf[worker[w].run],
                               at |-> now, cost |-> worker[w].price,
                               nth |-> calls[worker[w].run]]}
    /\ Becomes(w, IF worker[w].at = "failed" THEN "write_failed" ELSE "write_succeeded")
    /\ UNCHANGED <<now, boot, record, thread, starting, reserved, free, posted, faults,
                   calls, pruned, leaked>>
Finish(w) ==
    /\ worker[w].at \in {"write_failed", "write_succeeded"}
    /\ Written(w, IF worker[w].at = "write_failed" THEN "failed" ELSE "succeeded")
    /\ Given(ToolOf[worker[w].run])
    /\ worker' = [worker EXCEPT ![w] = Asleep]
    /\ UNCHANGED <<now, boot, ledger, thread, starting, posted, faults, calls, pruned, leaked>>

\* The portal dies and starts again.
Reboot ==
    /\ Fault
    /\ boot' = boot + 1
    /\ thread' = [t \in Threads |-> Idle] /\ worker' = [w \in Workers |-> Asleep]
    /\ starting' = {} /\ reserved' = [tool \in Tools |-> 0] /\ free' = Slots
    /\ UNCHANGED <<now, record, ledger, posted, calls, pruned, leaked>>

Next ==
    \/ Elapses \/ Reboot
    \/ \E t \in Threads :
           \/ \E r \in Clicks : Post(t, r)
           \/ Prune(t) \/ Enter(t) \/ Deny(t) \/ Admit(t) \/ QueueFails(t)
           \/ \E w \in Workers : Queue(t, w)
    \/ \E w \in Workers :
           \/ MarkRunning(w) \/ MarkRunningFails(w) \/ CallFails(w)
           \/ \E price \in Prices : Call(w, price)
           \/ Ledger(w) \/ Finish(w)

Spec == Init /\ [][Next]_vars

----------------------------------------------------------------------------

\* No click goes over the ceiling of its tool: the calls a window shows and
\* those a worker has made or may still make stay within it, whatever request
\* threads are admitted together and workers finish late.
CeilingHolds ==
    \A tool \in Tools :
        Cardinality(InWindow(tool))
          + Cardinality({w \in Workers : /\ worker[w].at \in {"new", "running", "succeeded", "failed"}
                                         /\ ToolOf[worker[w].run] = tool}) <= MaxRuns

\* A click is paid for once: posted again, by two threads at once or after
\* the portal died, it finds its record, unless the record was pruned.
PaidOnce == \A r \in Clicks \ pruned : calls[r] <= 1

\* A record read as in flight has a worker, or a worker that died on its
\* first write; so every other run ends, across failures and reboots.
NoRunStandsStill ==
    \A r \in Files \ leaked :
        AsOf(record[r]).status \in InFlight => \E w \in Workers : worker[w].run = r

\* What clicks may cost, by the two rules above.
SpendingIsBounded == CeilingHolds /\ PaidOnce
=============================================================================
