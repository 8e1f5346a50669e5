--------------------------- MODULE AdvisoryProofs ---------------------------
(***************************************************************************)
(* What AdvisoryRunner promises of spending and of records, for any number *)
(* of clicks, tools, request threads and workers, any ceiling and window   *)
(* and any number of faults and reboots.                                   *)
(***************************************************************************)
EXTENDS AdvisoryRunner, FiniteSetTheorems, TLAPS

ThreadAt == {"idle", "sweeping", "starting", "admitting", "queueing"}
WorkerAt == {"none", "new", "running", "succeeded", "failed", "write_succeeded",
             "write_failed"}

\* The variables have their types, and who is at something has a click.
TypeOK ==
    /\ now \in Nat /\ boot \in Nat /\ free \in Nat
    /\ record \in [Clicks -> Records \cup {NoRecord}]
    /\ IsFiniteSet(ledger) /\ \A row \in ledger : row.at \in Nat
    /\ thread \in [Threads -> [at : ThreadAt, run : Clicks \cup {0},
                               doomed : SUBSET Clicks]]
    /\ \A t \in Threads : thread[t].at # "idle" => thread[t].run \in Clicks
    /\ worker \in [Workers -> [at : WorkerAt, run : Clicks \cup {0}, started : Nat,
                               price : Prices \cup {Unpriced}]]
    /\ \A w \in Workers : worker[w].at # "none" => worker[w].run \in Clicks
    /\ starting \in SUBSET Threads
    /\ reserved \in [Tools -> Nat]
    /\ calls \in [Clicks -> Nat]
    /\ pruned \in SUBSET Clicks /\ leaked \in SUBSET Clicks

\* The request that may admit is the one in the _starting lock.
OneStarts ==
    /\ \A t \in Threads : thread[t].at \in {"admitting", "queueing"} <=> t \in starting
    /\ \A t, u \in starting : t = u

Busy(w) == worker[w].at # "none"
Running(tool) == {w \in Workers : Busy(w) /\ ToolOf[worker[w].run] = tool}
\* Whose call the ledger does not have yet.
Owing(tool) ==
    {w \in Workers : /\ worker[w].at \in {"new", "running", "succeeded", "failed"}
                     /\ ToolOf[worker[w].run] = tool}
\* A request that was admitted and has no worker yet.
Promised(tool) ==
    IF \E t \in Threads : thread[t].at = "queueing" /\ ToolOf[thread[t].run] = tool
    THEN 1 ELSE 0

\* What is admitted is reserved, and counted against the ceiling until the
\* ledger has it.
SpendingIsCounted ==
    \A tool \in Tools :
      /\ reserved[tool] >= Cardinality(Running(tool)) + Promised(tool)
      /\ Cardinality(InWindow(tool)) + Cardinality(Owing(tool)) + Promised(tool) <= MaxRuns

\* A click that was not pruned has one worker, whose call is its only one,
\* and a record that turns the next request for it away.
ClickIsOne ==
    \A r \in Clicks \ pruned :
      /\ \A w \in Workers : Busy(w) /\ worker[w].run = r =>
           /\ record[r] # NoRecord
           /\ record[r].status \in InFlight /\ record[r].boot = boot
           /\ \A v \in Workers : Busy(v) /\ worker[v].run = r => v = w
           /\ worker[w].at \in {"new", "running"} => calls[r] = 0
      /\ \A t \in starting : thread[t].run = r =>
           /\ calls[r] = 0
           /\ \A w \in Workers : Busy(w) => worker[w].run # r
      /\ calls[r] <= 1
      /\ calls[r] = 1 => record[r] # NoRecord /\ record[r].status # "refused"

\* A record in flight is of this boot and has a worker, or of an earlier one.
FlightHasWorker ==
    \A r \in Clicks : record[r] # NoRecord =>
      /\ record[r].boot <= boot
      /\ (r \notin leaked /\ record[r].status \in InFlight /\ record[r].boot = boot)
           => \E w \in Workers : Busy(w) /\ worker[w].run = r

AdvisoryInv == TypeOK /\ OneStarts /\ SpendingIsCounted /\ ClickIsOne /\ FlightHasWorker
-----------------------------------------------------------------------------
LEMMA AdvisoryInit == Init => AdvisoryInv
  <1> SUFFICES ASSUME Init PROVE AdvisoryInv
    OBVIOUS
  <1> USE DEF Init
  <1>1. TypeOK
    BY FS_EmptySet, AdvisoryAssumption DEF TypeOK, Idle, Asleep, ThreadAt, WorkerAt
  <1>2. OneStarts
    BY DEF OneStarts, Idle
  <1>3. SpendingIsCounted
    <2> SUFFICES ASSUME NEW tool \in Tools
                 PROVE  /\ reserved[tool] >= Cardinality(Running(tool)) + Promised(tool)
                        /\ Cardinality(InWindow(tool)) + Cardinality(Owing(tool))
                             + Promised(tool) <= MaxRuns
      BY DEF SpendingIsCounted
    <2>1. Running(tool) = {} /\ InWindow(tool) = {} /\ Owing(tool) = {}
      BY DEF Running, InWindow, Owing, Busy, Asleep
    <2>2. Promised(tool) = 0
      BY DEF Promised, Idle
    <2> QED BY <2>1, <2>2, FS_EmptySet, AdvisoryAssumption
  <1>4. ClickIsOne /\ FlightHasWorker
    BY DEF ClickIsOne, FlightHasWorker, Busy, Asleep
  <1> QED BY <1>1, <1>2, <1>3, <1>4 DEF AdvisoryInv

\* What a record is read as is a record, of the same boot, and neither
\* refused nor in flight unless it was.
LEMMA ReadRecord ==
    ASSUME TypeOK, NEW r \in Clicks
    PROVE  /\ AsOf(record[r]) \in Records \cup {NoRecord}
           /\ record[r] = NoRecord <=> AsOf(record[r]) = NoRecord
           /\ record[r] # NoRecord =>
                /\ AsOf(record[r]).boot = record[r].boot
                /\ record[r].status \in InFlight /\ record[r].boot = boot
                     => AsOf(record[r]) = record[r]
                /\ AsOf(record[r]).status \in InFlight
                     => AsOf(record[r]) = record[r] /\ record[r].boot = boot
                /\ AsOf(record[r]).status = "refused" <=> record[r].status = "refused"
  <1>1. record[r] \in Records \cup {NoRecord}
    BY DEF TypeOK
  <1> QED BY <1>1, AdvisoryAssumption DEF AsOf, Records, Statuses, InFlight

LEMMA FreshRecord ==
    ASSUME TypeOK, NEW status \in Statuses
    PROVE  /\ Fresh(status) \in Records /\ Fresh(status) # NoRecord
           /\ Fresh(status).status = status /\ Fresh(status).boot = boot
  BY AdvisoryAssumption DEF TypeOK, Fresh, Records

-----------------------------------------------------------------------------
LEMMA RequestType ==
    ASSUME TypeOK, NEW t \in Threads,
           \/ \E r \in Clicks : Post(t, r)
           \/ Prune(t) \/ Enter(t) \/ Deny(t) \/ Admit(t) \/ QueueFails(t)
           \/ \E w \in Workers : Queue(t, w)
    PROVE  TypeOK'
  <1> USE DEF TypeOK
  <1> USE AdvisoryAssumption
  <1>1. ASSUME NEW r \in Clicks, Post(t, r) PROVE TypeOK'
    <2>1. record' \in [Clicks -> Records \cup {NoRecord}]
      BY <1>1, ReadRecord DEF Post
    <2>2. Surplus \in SUBSET Clicks
      BY DEF Surplus, Files
    <2> QED BY <1>1, <2>1, <2>2 DEF Post, ThreadAt
  <1>2. CASE Prune(t)
    BY <1>2 DEF Prune, ThreadAt
  <1>3. CASE Enter(t)
    <2>1. starting' \in SUBSET Threads
      BY <1>3 DEF Enter
    <2>2. thread[t].run \in Clicks
      BY <1>3 DEF Enter
    <2>3. CASE Standing(thread[t].run)
      BY <1>3, <2>1, <2>3 DEF Enter, ThreadAt, Idle
    <2>4. CASE ~ Standing(thread[t].run)
      <3>1. thread' = [thread EXCEPT ![t] = [thread[t] EXCEPT !.at = "admitting"]]
        BY <1>3, <2>4 DEF Enter
      <3>2. [thread[t] EXCEPT !.at = "admitting"]
              \in [at : ThreadAt, run : Clicks \cup {0}, doomed : SUBSET Clicks]
        BY DEF ThreadAt
      <3>3. [thread[t] EXCEPT !.at = "admitting"].run \in Clicks
        BY <2>2
      <3>4. UNCHANGED <<now, boot, record, ledger, worker, reserved, free, calls, pruned,
                        leaked>>
        BY <1>3 DEF Enter
      <3> QED BY <2>1, <3>1, <3>2, <3>3, <3>4
    <2> QED BY <2>3, <2>4
  <1>4. CASE Deny(t)
    BY <1>4, FreshRecord DEF Deny, ThreadAt, Idle, Statuses
  <1>5. CASE Admit(t)
    <2>1. thread[t].run \in Clicks /\ ToolOf[thread[t].run] \in Tools
      BY <1>5 DEF Admit
    <2>2. free > 0
      BY <1>5 DEF Admit, Admissible
    <2> QED BY <1>5, <2>1, <2>2 DEF Admit, ThreadAt
  <1>6. CASE QueueFails(t)
    <2>1. Fresh("failed") \in Records
      BY FreshRecord DEF Statuses
    <2>2. reserved' \in [Tools -> Nat] /\ free' \in Nat
      BY <1>6 DEF QueueFails, Given
    <2> QED BY <1>6, <2>1, <2>2 DEF QueueFails, ThreadAt, Idle
  <1>7. ASSUME NEW w \in Workers, Queue(t, w) PROVE TypeOK'
    <2>1. Fresh("queued") \in Records
      BY FreshRecord DEF Statuses
    <2>2. thread[t].run \in Clicks
      BY <1>7 DEF Queue
    <2> QED BY <1>7, <2>1, <2>2 DEF Queue, ThreadAt, WorkerAt, Idle
  <1> QED BY <1>1, <1>2, <1>3, <1>4, <1>5, <1>6, <1>7

LEMMA WorkerType ==
    ASSUME TypeOK, NEW w \in Workers,
           \/ MarkRunning(w) \/ MarkRunningFails(w) \/ CallFails(w)
           \/ \E price \in Prices : Call(w, price)
           \/ Ledger(w) \/ Finish(w)
    PROVE  TypeOK'
  <1> USE DEF TypeOK, WorkerAt
  <1> USE AdvisoryAssumption
  <1>0. ASSUME NEW status \in Statuses, Written(w, status)
        PROVE  record' \in [Clicks -> Records \cup {NoRecord}]
    BY <1>0 DEF Written, Records
  <1>1. CASE MarkRunning(w)
    BY <1>0, <1>1 DEF MarkRunning, Becomes, Statuses
  <1>2. CASE MarkRunningFails(w)
    BY <1>2 DEF MarkRunningFails, Asleep
  <1>3. CASE CallFails(w)
    BY <1>3 DEF CallFails, Becomes
  <1>4. ASSUME NEW price \in Prices, Call(w, price) PROVE TypeOK'
    <2>1. worker[w].run \in Clicks
      BY <1>4 DEF Call
    <2>2. calls' \in [Clicks -> Nat]
      <3>1. calls' = [calls EXCEPT ![worker[w].run] = calls[worker[w].run] + 1]
        BY <1>4 DEF Call
      <3> QED BY <2>1, <3>1
    <2> DEFINE x == [worker[w] EXCEPT !.at = "succeeded", !.price = price]
    <2>3. worker' = [worker EXCEPT ![w] = x]
      BY <1>4 DEF Call
    <2>4. /\ x \in [at : WorkerAt, run : Clicks \cup {0}, started : Nat,
                    price : Prices \cup {Unpriced}]
          /\ x.run \in Clicks
      BY <2>1
    <2>5. UNCHANGED <<now, boot, record, ledger, thread, starting, reserved, free,
                      pruned, leaked>>
      BY <1>4 DEF Call
    <2> HIDE DEF x
    <2> QED BY <2>2, <2>3, <2>4, <2>5
  <1>5. CASE Ledger(w)
    <2> DEFINE line == [run |-> worker[w].run, tool |-> ToolOf[worker[w].run],
                        at |-> now, cost |-> worker[w].price,
                        nth |-> calls[worker[w].run]]
    <2>1. ledger' = ledger \cup {line} /\ line.at = now
      BY <1>5 DEF Ledger
    <2> HIDE DEF line
    <2>2. IsFiniteSet(ledger')
      BY <2>1, FS_AddElement
    <2>3. \A row \in ledger' : row.at \in Nat
      BY <2>1
    <2> QED BY <1>5, <2>2, <2>3 DEF Ledger, Becomes
  <1>6. CASE Finish(w)
    <2>1. record' \in [Clicks -> Records \cup {NoRecord}]
      BY <1>0, <1>6 DEF Finish, Statuses
    <2>2. reserved' \in [Tools -> Nat] /\ free' \in Nat
      BY <1>6 DEF Finish, Given
    <2> QED BY <1>6, <2>1, <2>2 DEF Finish, Asleep
  <1> QED BY <1>1, <1>2, <1>3, <1>4, <1>5, <1>6

LEMMA TypeStep == TypeOK /\ [Next]_vars => TypeOK'
  <1> SUFFICES ASSUME TypeOK, [Next]_vars PROVE TypeOK'
    OBVIOUS
  <1>1. CASE Elapses
    BY <1>1 DEF TypeOK, Elapses
  <1>2. CASE Reboot
    BY <1>2, AdvisoryAssumption DEF TypeOK, Reboot, Idle, Asleep, ThreadAt, WorkerAt
  <1>3. CASE UNCHANGED vars
    BY <1>3 DEF TypeOK, vars
  <1> QED BY <1>1, <1>2, <1>3, RequestType, WorkerType DEF Next

\* Whatever requests, workers, faults and reboots do, the records, the
\* ledger, the reservations and the slots keep their types.
THEOREM TypeCorrect == Spec => []TypeOK
  <1>1. Init => TypeOK
    BY AdvisoryInit DEF AdvisoryInv
  <1> QED BY <1>1, TypeStep, PTL DEF Spec

LEMMA StartsStep ==
    ASSUME TypeOK, OneStarts, [Next]_vars
    PROVE  OneStarts'
  <1> USE DEF TypeOK, OneStarts
  <1>1. ASSUME NEW t \in Threads, NEW r \in Clicks, Post(t, r) PROVE OneStarts'
    BY <1>1 DEF Post, Idle
  <1>2. ASSUME NEW t \in Threads, Prune(t) PROVE OneStarts'
    BY <1>2 DEF Prune
  <1>3. ASSUME NEW t \in Threads, Enter(t) PROVE OneStarts'
    BY <1>3 DEF Enter, Idle
  <1>4. ASSUME NEW t \in Threads,
               Deny(t) \/ QueueFails(t) \/ \E w \in Workers : Queue(t, w)
        PROVE  OneStarts'
    <2>1. thread' = [thread EXCEPT ![t] = Idle] /\ starting' = {} /\ t \in starting
      BY <1>4 DEF Deny, QueueFails, Queue
    <2> QED BY <2>1 DEF Idle
  <1>5. ASSUME NEW t \in Threads, Admit(t) PROVE OneStarts'
    BY <1>5 DEF Admit
  <1>6. ASSUME UNCHANGED <<thread, starting>> PROVE OneStarts'
    BY <1>6
  <1>7. ASSUME NEW w \in Workers,
               \/ MarkRunning(w) \/ MarkRunningFails(w) \/ CallFails(w)
               \/ \E price \in Prices : Call(w, price)
               \/ Ledger(w) \/ Finish(w)
        PROVE  OneStarts'
    BY <1>6, <1>7 DEF MarkRunning, MarkRunningFails, CallFails, Call, Ledger, Finish
  <1>8. CASE Reboot
    BY <1>8 DEF Reboot, Idle
  <1>9. CASE Elapses \/ UNCHANGED vars
    BY <1>6, <1>9 DEF Elapses, vars
  <1> QED BY <1>1, <1>2, <1>3, <1>4, <1>5, <1>7, <1>8, <1>9 DEF Next

-----------------------------------------------------------------------------
(* The ceiling                                                             *)

LEMMA WorkerSets ==
    ASSUME NEW S \in SUBSET Workers, NEW T \in SUBSET S
    PROVE  /\ IsFiniteSet(S) /\ IsFiniteSet(T)
           /\ Cardinality(S) \in Nat /\ Cardinality(T) \in Nat
           /\ Cardinality(T) <= Cardinality(S)
  BY FS_Subset, FS_CardinalityType, AdvisoryAssumption

LEMMA SpendingSets ==
    ASSUME TypeOK, NEW tool \in Tools
    PROVE  /\ Owing(tool) \subseteq Running(tool) /\ Running(tool) \subseteq Workers
           /\ IsFiniteSet(Running(tool)) /\ Cardinality(Running(tool)) \in Nat
           /\ IsFiniteSet(Owing(tool)) /\ Cardinality(Owing(tool)) \in Nat
           /\ Cardinality(Owing(tool)) <= Cardinality(Running(tool))
           /\ IsFiniteSet(InWindow(tool)) /\ Cardinality(InWindow(tool)) \in Nat
           /\ Promised(tool) \in {0, 1}
           /\ reserved[tool] \in Nat
  <1>1. Owing(tool) \subseteq Running(tool) /\ Running(tool) \subseteq Workers
    BY DEF Owing, Running, Busy
  <1>2. /\ IsFiniteSet(Running(tool)) /\ Cardinality(Running(tool)) \in Nat
        /\ IsFiniteSet(Owing(tool)) /\ Cardinality(Owing(tool)) \in Nat
        /\ Cardinality(Owing(tool)) <= Cardinality(Running(tool))
    BY <1>1, WorkerSets
  <1>3. InWindow(tool) \in SUBSET ledger /\ IsFiniteSet(ledger)
    BY DEF InWindow, TypeOK
  <1>4. IsFiniteSet(InWindow(tool)) /\ Cardinality(InWindow(tool)) \in Nat
    BY <1>3, FS_Subset, FS_CardinalityType
  <1>5. Promised(tool) \in {0, 1} /\ reserved[tool] \in Nat
    BY DEF Promised, TypeOK
  <1> QED BY <1>1, <1>2, <1>4, <1>5

\* What a step that reserves nothing less and owes nothing more keeps.
LEMMA SpendingKept ==
    ASSUME TypeOK, TypeOK', SpendingIsCounted,
           \A tool \in Tools :
             /\ reserved'[tool] >= reserved[tool]
             /\ Running(tool)' \subseteq Running(tool)
             /\ Owing(tool)' \subseteq Owing(tool)
             /\ InWindow(tool)' \subseteq InWindow(tool)
             /\ Promised(tool)' <= Promised(tool)
    PROVE  SpendingIsCounted'
  <1> SUFFICES ASSUME NEW tool \in Tools
               PROVE  /\ reserved'[tool] >= Cardinality(Running(tool))' + Promised(tool)'
                      /\ Cardinality(InWindow(tool))' + Cardinality(Owing(tool))'
                           + Promised(tool)' <= MaxRuns
    BY DEF SpendingIsCounted
  <1>1. /\ Cardinality(Running(tool))' \in Nat
        /\ Cardinality(Running(tool))' <= Cardinality(Running(tool))
    BY SpendingSets, WorkerSets
  <1>2. /\ Cardinality(Owing(tool))' \in Nat
        /\ Cardinality(Owing(tool))' <= Cardinality(Owing(tool))
    BY SpendingSets, WorkerSets
  <1>3. /\ Cardinality(InWindow(tool))' \in Nat
        /\ Cardinality(InWindow(tool))' <= Cardinality(InWindow(tool))
    BY SpendingSets, FS_Subset, FS_CardinalityType
  <1>4. Promised(tool)' \in {0, 1} /\ reserved'[tool] \in Nat
    BY DEF Promised, TypeOK
  <1>5. /\ reserved[tool] >= Cardinality(Running(tool)) + Promised(tool)
        /\ Cardinality(InWindow(tool)) + Cardinality(Owing(tool)) + Promised(tool) <= MaxRuns
    BY DEF SpendingIsCounted
  <1> QED BY <1>1, <1>2, <1>3, <1>4, <1>5, SpendingSets, AdvisoryAssumption

\* Only the thread in the lock queues.
LEMMA OnePromise ==
    ASSUME TypeOK, OneStarts, NEW t \in starting, NEW tool \in Tools
    PROVE  Promised(tool) = 1 <=> thread[t].at = "queueing" /\ ToolOf[thread[t].run] = tool
  BY DEF TypeOK, OneStarts, Promised

LEMMA SpendingRequest ==
    ASSUME TypeOK, TypeOK', OneStarts, OneStarts', SpendingIsCounted, NEW t \in Threads,
           \/ \E r \in Clicks : Post(t, r)
           \/ Prune(t) \/ Enter(t) \/ Deny(t)
    PROVE  SpendingIsCounted'
  <1>1. UNCHANGED <<now, ledger, worker, reserved>>
    BY DEF Post, Prune, Enter, Deny
  <1>2. \A u \in Threads : thread'[u].at = "queueing" => thread'[u] = thread[u]
    BY DEF Post, Prune, Enter, Deny, Idle, TypeOK
  <1>3. ASSUME NEW tool \in Tools
        PROVE  /\ reserved'[tool] >= reserved[tool]
               /\ Running(tool)' \subseteq Running(tool)
               /\ Owing(tool)' \subseteq Owing(tool)
               /\ InWindow(tool)' \subseteq InWindow(tool)
               /\ Promised(tool)' <= Promised(tool)
    <2>1. Promised(tool)' <= Promised(tool)
      BY <1>2 DEF Promised
    <2>2. reserved'[tool] >= reserved[tool]
      BY <1>1, SpendingSets
    <2> QED BY <1>1, <2>1, <2>2 DEF Running, Owing, Busy, InWindow
  <1> QED BY <1>3, SpendingKept

LEMMA SpendingAdmit ==
    ASSUME TypeOK, TypeOK', OneStarts, OneStarts', SpendingIsCounted, NEW t \in Threads,
           Admit(t)
    PROVE  SpendingIsCounted'
  <1> DEFINE mine == ToolOf[thread[t].run]
  <1>1. t \in starting /\ starting' = starting /\ thread[t].at = "admitting"
    BY DEF Admit, OneStarts
  <1>2. mine \in Tools
    BY <1>1, AdvisoryAssumption DEF TypeOK
  <1>3. thread'[t].at = "queueing" /\ ToolOf[thread'[t].run] = mine
    BY DEF Admit, TypeOK
  <1>4. Spent(mine) < MaxRuns
    <2>1. ~ (Spent(mine) >= MaxRuns)
      BY DEF Admit, Admissible, Check
    <2>2. Spent(mine) \in Nat
      BY <1>2, SpendingSets DEF Spent
    <2> QED BY <2>1, <2>2, AdvisoryAssumption
  <1> SUFFICES ASSUME NEW tool \in Tools
               PROVE  /\ reserved'[tool] >= Cardinality(Running(tool))' + Promised(tool)'
                      /\ Cardinality(InWindow(tool))' + Cardinality(Owing(tool))'
                           + Promised(tool)' <= MaxRuns
    BY DEF SpendingIsCounted
  <1>5. /\ Running(tool)' = Running(tool) /\ Owing(tool)' = Owing(tool)
        /\ InWindow(tool)' = InWindow(tool)
    BY DEF Admit, Running, Owing, Busy, InWindow
  <1>6. Promised(tool) = 0
    BY <1>1, OnePromise, SpendingSets
  <1>7. Promised(tool)' = IF tool = mine THEN 1 ELSE 0
    <2>1. \A u \in Threads : thread'[u].at = "queueing" => u = t
      BY <1>1 DEF OneStarts
    <2> HIDE DEF mine
    <2> QED BY <1>3, <2>1 DEF Promised
  <1>8. reserved' = [reserved EXCEPT ![mine] = @ + 1]
    BY DEF Admit
  <1>9. reserved'[tool] = IF tool = mine THEN reserved[tool] + 1 ELSE reserved[tool]
    BY <1>2, <1>8 DEF TypeOK
  <1>10. /\ reserved[tool] >= Cardinality(Running(tool)) + Promised(tool)
         /\ Cardinality(InWindow(tool)) + Cardinality(Owing(tool)) + Promised(tool) <= MaxRuns
    BY DEF SpendingIsCounted
  <1>11. tool = mine => Cardinality(InWindow(tool)) + reserved[tool] < MaxRuns
    BY <1>4 DEF Spent
  <1> HIDE DEF mine
  <1> QED BY <1>5, <1>6, <1>7, <1>9, <1>10, <1>11, SpendingSets, AdvisoryAssumption

LEMMA SpendingQueue ==
    ASSUME TypeOK, TypeOK', OneStarts, OneStarts', SpendingIsCounted, NEW t \in Threads,
           NEW w \in Workers, Queue(t, w)
    PROVE  SpendingIsCounted'
  <1> DEFINE mine == ToolOf[thread[t].run]
  <1>1. t \in starting /\ starting' = {} /\ thread[t].at = "queueing"
    BY DEF Queue, OneStarts
  <1>2. /\ ~ Busy(w) /\ Busy(w)' /\ worker'[w].at = "new"
        /\ ToolOf[worker'[w].run] = mine
        /\ \A v \in Workers : v # w => worker'[v] = worker[v]
    BY DEF Queue, TypeOK, Busy, Asleep
  <1> SUFFICES ASSUME NEW tool \in Tools
               PROVE  /\ reserved'[tool] >= Cardinality(Running(tool))' + Promised(tool)'
                      /\ Cardinality(InWindow(tool))' + Cardinality(Owing(tool))'
                           + Promised(tool)' <= MaxRuns
    BY DEF SpendingIsCounted
  <1>3. Promised(tool)' = 0
    BY <1>1 DEF OneStarts, Promised
  <1>3a. thread[t].at = "queueing" /\ mine = tool => Promised(tool) = 1
    BY DEF Promised
  <1>4. reserved' = reserved /\ InWindow(tool)' = InWindow(tool)
    BY DEF Queue, InWindow
  <1>5. /\ reserved[tool] >= Cardinality(Running(tool)) + Promised(tool)
        /\ Cardinality(InWindow(tool)) + Cardinality(Owing(tool)) + Promised(tool) <= MaxRuns
    BY DEF SpendingIsCounted
  <1> HIDE DEF mine
  <1>6. CASE tool = mine
    <2>1. Running(tool)' = Running(tool) \cup {w} /\ w \notin Running(tool)
      BY <1>2, <1>6 DEF Running, Busy
    <2>2. Owing(tool)' = Owing(tool) \cup {w} /\ w \notin Owing(tool)
      BY <1>2, <1>6 DEF Owing, Busy
    <2>3. /\ Cardinality(Running(tool))' = Cardinality(Running(tool)) + 1
          /\ Cardinality(Owing(tool))' = Cardinality(Owing(tool)) + 1
      BY <2>1, <2>2, FS_AddElement, SpendingSets
    <2> QED BY <1>1, <1>3, <1>3a, <1>4, <1>5, <1>6, <2>3, SpendingSets, AdvisoryAssumption
  <1>7. CASE tool # mine
    <2>1. Running(tool)' = Running(tool) /\ Owing(tool)' = Owing(tool)
      BY <1>2, <1>7 DEF Running, Owing, Busy
    <2> QED BY <1>3, <1>4, <1>5, <2>1, SpendingSets, AdvisoryAssumption
  <1> QED BY <1>6, <1>7

LEMMA SpendingQueueFails ==
    ASSUME TypeOK, TypeOK', OneStarts, OneStarts', SpendingIsCounted, NEW t \in Threads,
           QueueFails(t)
    PROVE  SpendingIsCounted'
  <1> DEFINE mine == ToolOf[thread[t].run]
  <1>1. starting' = {} /\ thread[t].at = "queueing"
    BY DEF QueueFails
  <1> SUFFICES ASSUME NEW tool \in Tools
               PROVE  /\ reserved'[tool] >= Cardinality(Running(tool))' + Promised(tool)'
                      /\ Cardinality(InWindow(tool))' + Cardinality(Owing(tool))'
                           + Promised(tool)' <= MaxRuns
    BY DEF SpendingIsCounted
  <1>2. Promised(tool)' = 0
    BY <1>1 DEF OneStarts, Promised
  <1>3. mine = tool => Promised(tool) = 1
    BY <1>1 DEF Promised
  <1>4. /\ InWindow(tool)' = InWindow(tool)
        /\ Running(tool)' = Running(tool) /\ Owing(tool)' = Owing(tool)
    BY DEF QueueFails, Running, Owing, Busy, InWindow
  <1>5. /\ reserved[tool] >= Cardinality(Running(tool)) + Promised(tool)
        /\ Cardinality(InWindow(tool)) + Cardinality(Owing(tool)) + Promised(tool) <= MaxRuns
    BY DEF SpendingIsCounted
  <1>6. reserved'[tool] >= IF tool = mine THEN reserved[tool] - 1 ELSE reserved[tool]
    BY DEF QueueFails, Given, TypeOK
  <1> HIDE DEF mine
  <1>7. reserved'[tool] \in Nat
    BY DEF TypeOK
  <1> QED BY <1>2, <1>3, <1>4, <1>5, <1>6, <1>7, SpendingSets, AdvisoryAssumption

LEMMA SpendingLedger ==
    ASSUME TypeOK, TypeOK', SpendingIsCounted, NEW w \in Workers, Ledger(w)
    PROVE  SpendingIsCounted'
  <1> DEFINE mine == ToolOf[worker[w].run]
             line == [run |-> worker[w].run, tool |-> ToolOf[worker[w].run],
                      at |-> now, cost |-> worker[w].price,
                      nth |-> calls[worker[w].run]]
  <1>1. /\ worker[w].at \in {"succeeded", "failed"}
        /\ worker'[w].at \in {"write_succeeded", "write_failed"}
        /\ worker'[w].run = worker[w].run
        /\ \A v \in Workers : v # w => worker'[v] = worker[v]
    BY DEF Ledger, Becomes, TypeOK
  <1>2. ledger' = ledger \cup {line} /\ line.tool = mine
    BY DEF Ledger
  <1> SUFFICES ASSUME NEW tool \in Tools
               PROVE  /\ reserved'[tool] >= Cardinality(Running(tool))' + Promised(tool)'
                      /\ Cardinality(InWindow(tool))' + Cardinality(Owing(tool))'
                           + Promised(tool)' <= MaxRuns
    BY DEF SpendingIsCounted
  <1>3. UNCHANGED <<now, reserved, thread>> /\ Promised(tool)' = Promised(tool)
    BY DEF Ledger, Promised
  <1>4. Running(tool)' = Running(tool)
    BY <1>1 DEF Running, Busy
  <1>5. /\ reserved[tool] >= Cardinality(Running(tool)) + Promised(tool)
        /\ Cardinality(InWindow(tool)) + Cardinality(Owing(tool)) + Promised(tool) <= MaxRuns
    BY DEF SpendingIsCounted
  <1> HIDE DEF line
  <1>6. CASE tool = mine
    <2>1. Owing(tool)' = Owing(tool) \ {w} /\ w \in Owing(tool)
      BY <1>1, <1>6 DEF Owing
    <2>2. Cardinality(Owing(tool))' = Cardinality(Owing(tool)) - 1
      BY <2>1, FS_RemoveElement, SpendingSets
    <2>3. InWindow(tool)' \in SUBSET (InWindow(tool) \cup {line})
      BY <1>2, <1>3 DEF InWindow
    <2>4. /\ Cardinality(InWindow(tool))' \in Nat
          /\ Cardinality(InWindow(tool))' <= Cardinality(InWindow(tool)) + 1
      <3>0. IsFiniteSet(InWindow(tool)) /\ Cardinality(InWindow(tool)) \in Nat
        BY SpendingSets
      <3>1. /\ IsFiniteSet(InWindow(tool) \cup {line})
            /\ Cardinality(InWindow(tool) \cup {line}) <= Cardinality(InWindow(tool)) + 1
        BY <3>0, FS_AddElement
      <3>2. Cardinality(InWindow(tool) \cup {line}) \in Nat
        BY <3>1, FS_CardinalityType
      <3> QED BY <2>3, <3>1, <3>2, FS_Subset, FS_CardinalityType, SpendingSets
    <2> QED BY <1>3, <1>4, <1>5, <2>2, <2>4, SpendingSets, AdvisoryAssumption
  <1>7. CASE tool # mine
    <2>1. Owing(tool)' = Owing(tool) /\ InWindow(tool)' = InWindow(tool)
      BY <1>1, <1>2, <1>3, <1>7 DEF Owing, InWindow
    <2> QED BY <1>3, <1>4, <1>5, <2>1
  <1> QED BY <1>6, <1>7

LEMMA SpendingFinish ==
    ASSUME TypeOK, TypeOK', SpendingIsCounted, NEW w \in Workers, Finish(w)
    PROVE  SpendingIsCounted'
  <1> DEFINE mine == ToolOf[worker[w].run]
  <1>1. /\ worker[w].at \in {"write_failed", "write_succeeded"}
        /\ worker'[w] = Asleep
        /\ \A v \in Workers : v # w => worker'[v] = worker[v]
    BY DEF Finish, TypeOK
  <1> SUFFICES ASSUME NEW tool \in Tools
               PROVE  /\ reserved'[tool] >= Cardinality(Running(tool))' + Promised(tool)'
                      /\ Cardinality(InWindow(tool))' + Cardinality(Owing(tool))'
                           + Promised(tool)' <= MaxRuns
    BY DEF SpendingIsCounted
  <1>2. /\ Promised(tool)' = Promised(tool) /\ InWindow(tool)' = InWindow(tool)
    BY DEF Finish, Promised, InWindow
  <1>3. Owing(tool)' = Owing(tool)
    BY <1>1 DEF Owing, Asleep
  <1>4. /\ reserved[tool] >= Cardinality(Running(tool)) + Promised(tool)
        /\ Cardinality(InWindow(tool)) + Cardinality(Owing(tool)) + Promised(tool) <= MaxRuns
    BY DEF SpendingIsCounted
  <1>5. reserved'[tool] >= IF tool = mine THEN reserved[tool] - 1 ELSE reserved[tool]
    BY DEF Finish, Given, TypeOK
  <1>6. reserved'[tool] \in Nat
    BY DEF TypeOK
  <1>7. Cardinality(Running(tool))'
          = IF tool = mine THEN Cardinality(Running(tool)) - 1 ELSE Cardinality(Running(tool))
    <2>1. Running(tool)' = Running(tool) \ {w} /\ (w \in Running(tool) <=> tool = mine)
      BY <1>1 DEF Running, Busy, Asleep
    <2> HIDE DEF mine
    <2> QED BY <2>1, FS_RemoveElement, SpendingSets
  <1> HIDE DEF mine
  <1> QED BY <1>2, <1>3, <1>4, <1>5, <1>6, <1>7, SpendingSets

LEMMA SpendingWorker ==
    ASSUME TypeOK, TypeOK', SpendingIsCounted, NEW w \in Workers,
           \/ MarkRunning(w) \/ MarkRunningFails(w) \/ CallFails(w)
           \/ \E price \in Prices : Call(w, price)
    PROVE  SpendingIsCounted'
  <1>1. UNCHANGED <<now, ledger, thread, reserved>>
    BY DEF MarkRunning, MarkRunningFails, CallFails, Call
  <1>2. /\ \A v \in Workers : v # w => worker'[v] = worker[v]
        /\ worker'[w].at # "none" =>
             /\ worker[w].at \in {"new", "running"} /\ worker'[w].run = worker[w].run
    BY DEF MarkRunning, MarkRunningFails, CallFails, Call, Becomes, Asleep, TypeOK
  <1>3. ASSUME NEW tool \in Tools
        PROVE  /\ reserved'[tool] >= reserved[tool]
               /\ Running(tool)' \subseteq Running(tool)
               /\ Owing(tool)' \subseteq Owing(tool)
               /\ InWindow(tool)' \subseteq InWindow(tool)
               /\ Promised(tool)' <= Promised(tool)
    <2>1. InWindow(tool)' = InWindow(tool) /\ Promised(tool)' = Promised(tool)
      BY <1>1 DEF InWindow, Promised
    <2>2. Running(tool)' \subseteq Running(tool) /\ Owing(tool)' \subseteq Owing(tool)
      BY <1>2 DEF Running, Owing, Busy
    <2> QED BY <1>1, <2>1, <2>2, SpendingSets
  <1> QED BY <1>3, SpendingKept

LEMMA SpendingPasses ==
    ASSUME TypeOK, TypeOK', SpendingIsCounted, Elapses \/ UNCHANGED vars
    PROVE  SpendingIsCounted'
  <1>1. UNCHANGED <<ledger, thread, worker, reserved>> /\ now' >= now
    BY DEF Elapses, vars, TypeOK
  <1>2. ASSUME NEW tool \in Tools
        PROVE  /\ reserved'[tool] >= reserved[tool]
               /\ Running(tool)' \subseteq Running(tool)
               /\ Owing(tool)' \subseteq Owing(tool)
               /\ InWindow(tool)' \subseteq InWindow(tool)
               /\ Promised(tool)' <= Promised(tool)
    <2>1. ASSUME NEW row \in ledger, row.at >= now' - Window PROVE row.at >= now - Window
      <3>1. row.at \in Nat /\ now \in Nat /\ now' \in Nat /\ Window \in Nat
        BY AdvisoryAssumption DEF TypeOK
      <3> QED BY <1>1, <2>1, <3>1
    <2>2. InWindow(tool)' \subseteq InWindow(tool)
      BY <1>1, <2>1 DEF InWindow
    <2>3. reserved'[tool] >= reserved[tool] /\ Promised(tool) \in {0, 1}
      BY <1>1, SpendingSets
    <2>4. /\ Running(tool)' = Running(tool) /\ Owing(tool)' = Owing(tool)
          /\ Promised(tool)' = Promised(tool)
      BY <1>1 DEF Running, Owing, Busy, Promised
    <2> QED BY <2>2, <2>3, <2>4
  <1> QED BY <1>2, SpendingKept

LEMMA SpendingReboot ==
    ASSUME TypeOK, TypeOK', SpendingIsCounted, Reboot
    PROVE  SpendingIsCounted'
  <1> SUFFICES ASSUME NEW tool \in Tools
               PROVE  /\ reserved'[tool] >= Cardinality(Running(tool))' + Promised(tool)'
                      /\ Cardinality(InWindow(tool))' + Cardinality(Owing(tool))'
                           + Promised(tool)' <= MaxRuns
    BY DEF SpendingIsCounted
  <1>1. Running(tool)' = {} /\ Owing(tool)' = {} /\ InWindow(tool)' = InWindow(tool)
    BY DEF Reboot, Running, Owing, Busy, Asleep, InWindow
  <1>2. Promised(tool)' = 0 /\ reserved'[tool] = 0
    BY DEF Reboot, Promised, Idle
  <1>3. Cardinality(InWindow(tool)) + Cardinality(Owing(tool)) + Promised(tool) <= MaxRuns
    BY DEF SpendingIsCounted
  <1> QED BY <1>1, <1>2, <1>3, FS_EmptySet, SpendingSets, AdvisoryAssumption

LEMMA SpendingStep ==
    ASSUME TypeOK, TypeOK', OneStarts, OneStarts', SpendingIsCounted, [Next]_vars
    PROVE  SpendingIsCounted'
  BY SpendingRequest, SpendingAdmit, SpendingQueue, SpendingQueueFails, SpendingLedger,
     SpendingFinish, SpendingWorker, SpendingPasses, SpendingReboot DEF Next

-----------------------------------------------------------------------------
(* One click, one call                                                     *)

\* What a step that touches neither workers, calls nor the record of a click
\* in the lock keeps.
LEMMA PaidKept ==
    ASSUME TypeOK, ClickIsOne,
           UNCHANGED <<boot, worker, calls>>,
           pruned \subseteq pruned',
           \A u \in starting' : u \in starting /\ thread'[u].run = thread[u].run,
           \A r \in Clicks \ pruned' :
             /\ record[r] # NoRecord =>
                  /\ record'[r] # NoRecord
                  /\ record[r].status # "refused" => record'[r].status # "refused"
             /\ record[r] # NoRecord /\ record[r].status \in InFlight /\ record[r].boot = boot
                  => record'[r] = record[r]
    PROVE  ClickIsOne'
  <1> SUFFICES ASSUME NEW r \in Clicks \ pruned'
               PROVE  /\ \A w \in Workers : Busy(w)' /\ worker'[w].run = r =>
                           /\ record'[r] # NoRecord
                           /\ record'[r].status \in InFlight /\ record'[r].boot = boot'
                           /\ \A v \in Workers : Busy(v)' /\ worker'[v].run = r => v = w
                           /\ worker'[w].at \in {"new", "running"} => calls'[r] = 0
                      /\ \A t \in starting' : thread'[t].run = r =>
                           /\ calls'[r] = 0
                           /\ \A w \in Workers : Busy(w)' => worker'[w].run # r
                      /\ calls'[r] <= 1
                      /\ calls'[r] = 1 => record'[r] # NoRecord /\ record'[r].status # "refused"
    BY DEF ClickIsOne
  <1>1. r \in Clicks \ pruned
    OBVIOUS
  <1>2. ASSUME NEW w \in Workers, Busy(w)', worker'[w].run = r
        PROVE  /\ record'[r] # NoRecord
               /\ record'[r].status \in InFlight /\ record'[r].boot = boot'
               /\ \A v \in Workers : Busy(v)' /\ worker'[v].run = r => v = w
               /\ worker'[w].at \in {"new", "running"} => calls'[r] = 0
    BY <1>1, <1>2 DEF ClickIsOne, Busy
  <1>3. ASSUME NEW t \in starting', thread'[t].run = r
        PROVE  calls'[r] = 0 /\ \A w \in Workers : Busy(w)' => worker'[w].run # r
    BY <1>1, <1>3 DEF ClickIsOne, Busy
  <1>4. /\ calls'[r] <= 1
        /\ calls'[r] = 1 => record'[r] # NoRecord /\ record'[r].status # "refused"
    BY <1>1 DEF ClickIsOne
  <1> QED BY <1>2, <1>3, <1>4

\* The request in the lock has its click to itself.
LEMMA LockedClick ==
    ASSUME TypeOK, OneStarts, ClickIsOne, NEW t \in Threads,
           thread[t].at \in {"admitting", "queueing"}
    PROVE  /\ t \in starting /\ thread[t].run \in Clicks
           /\ thread[t].run \notin pruned =>
                /\ calls[thread[t].run] = 0
                /\ \A w \in Workers : Busy(w) => worker[w].run # thread[t].run
  BY DEF TypeOK, OneStarts, ClickIsOne

LEMMA PaidSweep ==
    ASSUME TypeOK, OneStarts, OneStarts', ClickIsOne, NEW t \in Threads,
           (\E r \in Clicks : Post(t, r)) \/ Prune(t)
    PROVE  ClickIsOne'
  <1>1. /\ UNCHANGED <<boot, worker, calls, starting>>
        /\ pruned \subseteq pruned'
    BY DEF Post, Prune
  <1>2. ASSUME NEW u \in starting PROVE thread'[u].run = thread[u].run
    <2>1. u \in Threads /\ thread[u].at \in {"admitting", "queueing"}
      BY DEF OneStarts, TypeOK
    <2>2. thread[t].at \notin {"admitting", "queueing"}
      BY DEF Post, Prune, Idle
    <2>3. u # t
      BY <2>1, <2>2
    <2> QED BY <2>1, <2>3 DEF Post, Prune, TypeOK
  <1>3. ASSUME NEW r \in Clicks \ pruned'
        PROVE  /\ record[r] # NoRecord =>
                    /\ record'[r] # NoRecord
                    /\ record[r].status # "refused" => record'[r].status # "refused"
               /\ record[r] # NoRecord /\ record[r].status \in InFlight /\ record[r].boot = boot
                    => record'[r] = record[r]
    <2>1. CASE \E q \in Clicks : Post(t, q)
      <3>1. record'[r] = AsOf(record[r])
        BY <2>1 DEF Post
      <3> QED BY <3>1, ReadRecord
    <2>2. CASE Prune(t)
      <3>1. record[r] # NoRecord => r \notin thread[t].doomed
        BY <2>2 DEF Prune, Files
      <3>2. record[r] # NoRecord => record'[r] = record[r]
        BY <2>2, <3>1 DEF Prune
      <3> QED BY <3>2
    <2> QED BY <2>1, <2>2
  <1> QED BY <1>1, <1>2, <1>3, PaidKept

LEMMA PaidEnter ==
    ASSUME TypeOK, OneStarts, ClickIsOne, NEW t \in Threads, Enter(t)
    PROVE  ClickIsOne'
  <1>1. UNCHANGED <<boot, record, worker, calls, pruned>>
    BY DEF Enter
  <1>2. CASE Standing(thread[t].run)
    <2>1. starting' = {}
      BY <1>2 DEF Enter
    <2> QED BY <1>1, <2>1, PaidKept
  <1>3. CASE ~ Standing(thread[t].run)
    <2> DEFINE q == thread[t].run
    <2>1. q \in Clicks /\ starting' = {t} /\ thread'[t].run = q
      BY <1>3 DEF Enter, TypeOK
    <2>2. record[q] = NoRecord \/ record[q].status = "refused"
      BY <1>3, <2>1, ReadRecord DEF Standing
    <2>3. q \notin pruned =>
            calls[q] = 0 /\ \A w \in Workers : Busy(w) => worker[w].run # q
      <3>1. ASSUME q \notin pruned PROVE calls[q] # 1 /\ calls[q] <= 1
        BY <2>1, <2>2, <3>1 DEF ClickIsOne
      <3>2. ASSUME q \notin pruned, NEW w \in Workers, Busy(w) PROVE worker[w].run # q
        BY <2>1, <2>2, <3>2 DEF ClickIsOne, InFlight
      <3>3. calls[q] \in Nat
        BY <2>1 DEF TypeOK
      <3> QED BY <3>1, <3>2, <3>3
    <2> HIDE DEF q
    <2>4. ASSUME NEW r \in Clicks \ pruned'
          PROVE  \A u \in starting' : thread'[u].run = r =>
                   calls'[r] = 0 /\ \A w \in Workers : Busy(w)' => worker'[w].run # r
      BY <1>1, <2>1, <2>3 DEF Busy
    <2> QED BY <1>1, <2>4 DEF ClickIsOne, Busy
  <1> QED BY <1>2, <1>3

\* A request that ends without a worker writes the record of its own click.
LEMMA PaidTurnedAway ==
    ASSUME TypeOK, OneStarts, ClickIsOne, NEW t \in Threads, Deny(t) \/ QueueFails(t)
    PROVE  ClickIsOne'
  <1>1. /\ UNCHANGED <<boot, worker, calls, pruned>> /\ starting' = {}
        /\ thread[t].at \in {"admitting", "queueing"}
        /\ \A r \in Clicks : r # thread[t].run => record'[r] = record[r]
    BY DEF Deny, QueueFails, TypeOK
  <1>2. ASSUME NEW r \in Clicks \ pruned, r = thread[t].run
        PROVE  calls[r] = 0 /\ \A w \in Workers : Busy(w) => worker[w].run # r
    BY <1>1, <1>2, LockedClick
  <1>3. ASSUME NEW r \in Clicks \ pruned'
        PROVE  /\ \A w \in Workers : Busy(w)' /\ worker'[w].run = r =>
                    /\ record'[r] # NoRecord
                    /\ record'[r].status \in InFlight /\ record'[r].boot = boot'
                    /\ \A v \in Workers : Busy(v)' /\ worker'[v].run = r => v = w
                    /\ worker'[w].at \in {"new", "running"} => calls'[r] = 0
               /\ calls'[r] <= 1
               /\ calls'[r] = 1 => record'[r] # NoRecord /\ record'[r].status # "refused"
    <2>1. CASE r = thread[t].run
      BY <1>1, <1>2, <2>1 DEF Busy
    <2>2. CASE r # thread[t].run
      BY <1>1, <2>2 DEF ClickIsOne, Busy
    <2> QED BY <2>1, <2>2
  <1> QED BY <1>1, <1>3 DEF ClickIsOne

LEMMA PaidQueue ==
    ASSUME TypeOK, OneStarts, ClickIsOne, NEW t \in Threads, NEW w \in Workers, Queue(t, w)
    PROVE  ClickIsOne'
  <1> DEFINE q == thread[t].run
  <1>1. /\ UNCHANGED <<boot, calls, pruned>> /\ starting' = {}
        /\ thread[t].at \in {"admitting", "queueing"}
        /\ \A r \in Clicks : r # q => record'[r] = record[r]
    BY DEF Queue, TypeOK
  <1>2. /\ q \in Clicks
        /\ q \notin pruned =>
             calls[q] = 0 /\ \A v \in Workers : Busy(v) => worker[v].run # q
    BY <1>1, LockedClick
  <1>3. record'[q] = Fresh("queued")
    BY <1>2 DEF Queue, TypeOK
  <1>4. /\ record'[q] # NoRecord /\ record'[q].status = "queued" /\ record'[q].boot = boot
    BY <1>3, FreshRecord DEF Statuses
  <1>5. /\ Busy(w)' /\ worker'[w].run = q
        /\ \A v \in Workers : v # w => worker'[v] = worker[v]
        /\ ~ Busy(w)
    BY DEF Queue, TypeOK, Busy, Asleep
  <1> HIDE DEF q
  <1>6. ASSUME NEW r \in Clicks \ pruned'
        PROVE  /\ \A x \in Workers : Busy(x)' /\ worker'[x].run = r =>
                    /\ record'[r] # NoRecord
                    /\ record'[r].status \in InFlight /\ record'[r].boot = boot'
                    /\ \A v \in Workers : Busy(v)' /\ worker'[v].run = r => v = x
                    /\ worker'[x].at \in {"new", "running"} => calls'[r] = 0
               /\ calls'[r] <= 1
               /\ calls'[r] = 1 => record'[r] # NoRecord /\ record'[r].status # "refused"
    <2>1. CASE r = q
      <3>1. \A v \in Workers : Busy(v)' /\ worker'[v].run = r => v = w
        BY <1>1, <1>2, <1>5, <2>1 DEF Busy
      <3> QED BY <1>1, <1>2, <1>4, <2>1, <3>1 DEF InFlight
    <2>2. CASE r # q
      <3>1. \A v \in Workers : Busy(v)' /\ worker'[v].run = r =>
              Busy(v) /\ worker'[v] = worker[v] /\ worker[v].run = r
        BY <1>5, <2>2 DEF Busy
      <3> QED BY <1>1, <2>2, <3>1 DEF ClickIsOne
    <2> QED BY <2>1, <2>2
  <1> QED BY <1>1, <1>6 DEF ClickIsOne

\* What a step of the worker of one click keeps.
LEMMA PaidWorkerKept ==
    ASSUME TypeOK, ClickIsOne, NEW w \in Workers, Busy(w), NEW q, q = worker[w].run,
           UNCHANGED <<boot, pruned, starting, thread>>,
           \A v \in Workers : v # w => worker'[v] = worker[v],
           \A r \in Clicks : r # q => record'[r] = record[r] /\ calls'[r] = calls[r],
           worker'[w].at # "none" => worker'[w].run = q,
           q \notin pruned =>
             /\ record'[q] # NoRecord /\ record'[q].status # "refused"
             /\ worker'[w].at # "none" =>
                  record'[q].status \in InFlight /\ record'[q].boot = boot
             /\ calls'[q] <= 1
             /\ worker'[w].at \in {"new", "running"} => calls'[q] = 0
    PROVE  ClickIsOne'
  <1>1. \A v \in Workers : Busy(v)' => Busy(v) /\ worker'[v].run = worker[v].run
    BY DEF Busy
  <1>2. ASSUME NEW r \in Clicks \ pruned'
        PROVE  /\ \A x \in Workers : Busy(x)' /\ worker'[x].run = r =>
                    /\ record'[r] # NoRecord
                    /\ record'[r].status \in InFlight /\ record'[r].boot = boot'
                    /\ \A v \in Workers : Busy(v)' /\ worker'[v].run = r => v = x
                    /\ worker'[x].at \in {"new", "running"} => calls'[r] = 0
               /\ \A t \in starting' : thread'[t].run = r =>
                    /\ calls'[r] = 0
                    /\ \A x \in Workers : Busy(x)' => worker'[x].run # r
               /\ calls'[r] <= 1
               /\ calls'[r] = 1 => record'[r] # NoRecord /\ record'[r].status # "refused"
    <2>1. CASE r = q
      <3>1. \A x \in Workers : Busy(x)' /\ worker'[x].run = r => x = w
        BY <1>1, <2>1 DEF ClickIsOne
      <3>2. \A t \in starting' : thread'[t].run # r
        BY <2>1 DEF ClickIsOne
      <3> QED BY <2>1, <3>1, <3>2 DEF Busy
    <2>2. CASE r # q
      <3>1. \A x \in Workers : Busy(x)' /\ worker'[x].run = r =>
              Busy(x) /\ worker'[x] = worker[x] /\ worker[x].run = r
        BY <1>1, <2>2 DEF Busy
      <3>2. /\ calls'[r] = calls[r] /\ record'[r] = record[r]
            /\ calls[r] <= 1
            /\ calls[r] = 1 => record[r] # NoRecord /\ record[r].status # "refused"
        BY <2>2 DEF ClickIsOne
      <3>3. ASSUME NEW x \in Workers, Busy(x)', worker'[x].run = r
            PROVE  /\ record'[r] # NoRecord
                   /\ record'[r].status \in InFlight /\ record'[r].boot = boot'
                   /\ \A v \in Workers : Busy(v)' /\ worker'[v].run = r => v = x
                   /\ worker'[x].at \in {"new", "running"} => calls'[r] = 0
        BY <3>1, <3>2, <3>3 DEF ClickIsOne
      <3>4. ASSUME NEW t \in starting', thread'[t].run = r
            PROVE  calls'[r] = 0 /\ \A x \in Workers : Busy(x)' => worker'[x].run # r
        BY <3>1, <3>2, <3>4 DEF ClickIsOne
      <3> QED BY <3>2, <3>3, <3>4
    <2> QED BY <2>1, <2>2
  <1> QED BY <1>2 DEF ClickIsOne

\* What ClickIsOne says of a worker's own click.
LEMMA OwnClick ==
    ASSUME TypeOK, ClickIsOne, NEW w \in Workers, Busy(w)
    PROVE  /\ worker[w].run \in Clicks /\ calls[worker[w].run] \in Nat
           /\ worker[w].run \notin pruned =>
                /\ record[worker[w].run] # NoRecord
                /\ record[worker[w].run].status \in InFlight
                /\ record[worker[w].run].status # "refused"
                /\ record[worker[w].run].boot = boot
                /\ calls[worker[w].run] <= 1
                /\ worker[w].at \in {"new", "running"} => calls[worker[w].run] = 0
  <1>1. worker[w].run \in Clicks /\ calls[worker[w].run] \in Nat
    BY DEF TypeOK, Busy
  <1> QED BY <1>1 DEF ClickIsOne, InFlight

LEMMA WrittenRecord ==
    ASSUME TypeOK, NEW w \in Workers, Busy(w), NEW status \in Statuses, Written(w, status)
    PROVE  /\ \A r \in Clicks : r # worker[w].run => record'[r] = record[r]
           /\ record'[worker[w].run] # NoRecord
           /\ record'[worker[w].run].status = status
           /\ record'[worker[w].run].boot = boot
  <1> DEFINE entry == [status |-> status, boot |-> boot, started |-> worker[w].started]
  <1>1. worker[w].run \in Clicks
    BY DEF TypeOK, Busy
  <1>2. entry \in Records
    BY DEF TypeOK, Records
  <1>3. entry # NoRecord
    BY <1>2, AdvisoryAssumption
  <1>4. record' = [record EXCEPT ![worker[w].run] = entry]
    BY DEF Written
  <1>5. entry.status = status /\ entry.boot = boot
    OBVIOUS
  <1> HIDE DEF entry
  <1> QED BY <1>1, <1>3, <1>4, <1>5 DEF TypeOK

LEMMA PaidWorker ==
    ASSUME TypeOK, ClickIsOne, NEW w \in Workers,
           \/ MarkRunning(w) \/ MarkRunningFails(w) \/ CallFails(w)
           \/ \E price \in Prices : Call(w, price)
           \/ Ledger(w) \/ Finish(w)
    PROVE  ClickIsOne'
  <1> DEFINE q == worker[w].run
  <1>0. Busy(w)
    BY DEF MarkRunning, MarkRunningFails, CallFails, Call, Ledger, Finish, Busy
  <1>1. /\ UNCHANGED <<boot, pruned, starting, thread>>
        /\ \A v \in Workers : v # w => worker'[v] = worker[v]
    BY DEF MarkRunning, MarkRunningFails, CallFails, Call, Ledger, Finish, Becomes, TypeOK
  <1>2. /\ q \in Clicks /\ calls[q] \in Nat
        /\ q \notin pruned =>
             /\ record[q] # NoRecord /\ record[q].status \in InFlight
             /\ record[q].status # "refused" /\ record[q].boot = boot
             /\ calls[q] <= 1
             /\ worker[w].at \in {"new", "running"} => calls[q] = 0
    BY <1>0, OwnClick
  <1>3. CASE MarkRunning(w)
    <2>1. /\ \A r \in Clicks : r # q => record'[r] = record[r]
          /\ record'[q] # NoRecord /\ record'[q].status = "running" /\ record'[q].boot = boot
      BY <1>0, <1>3, WrittenRecord DEF MarkRunning, Statuses
    <2>2. worker'[w].run = q /\ calls' = calls /\ worker[w].at = "new"
      BY <1>3 DEF MarkRunning, Becomes, TypeOK
    <2> HIDE DEF q
    <2>3. q \notin pruned =>
             /\ record'[q] # NoRecord /\ record'[q].status # "refused"
             /\ record'[q].status \in InFlight /\ record'[q].boot = boot
             /\ calls'[q] <= 1 /\ calls'[q] = 0
      BY <1>2, <2>1, <2>2 DEF InFlight
    <2>4. q = worker[w].run
      BY DEF q
    <2> QED BY <1>0, <1>1, <2>1, <2>2, <2>3, <2>4, PaidWorkerKept
  <1>4. CASE MarkRunningFails(w)
    <2>1. worker'[w].at = "none" /\ UNCHANGED <<calls, record>>
      BY <1>4 DEF MarkRunningFails, TypeOK, Asleep
    <2>2. q = worker[w].run
      OBVIOUS
    <2> HIDE DEF q
    <2> QED BY <1>0, <1>1, <1>2, <2>1, <2>2, PaidWorkerKept
  <1>5. CASE CallFails(w) \/ \E price \in Prices : Call(w, price)
    <2>1. /\ worker'[w].at \in {"succeeded", "failed"} /\ worker'[w].run = q
          /\ record' = record /\ worker[w].at = "running"
      BY <1>5 DEF CallFails, Call, Becomes, TypeOK
    <2>2. calls' = [calls EXCEPT ![q] = calls[q] + 1]
      BY <1>5 DEF CallFails, Call
    <2>3. /\ \A r \in Clicks : r # q => calls'[r] = calls[r]
          /\ calls'[q] = calls[q] + 1
      BY <1>2, <2>2 DEF TypeOK
    <2>4. q = worker[w].run
      OBVIOUS
    <2> HIDE DEF q
    <2>5. q \notin pruned => calls'[q] <= 1
      BY <1>2, <2>1, <2>3
    <2> QED BY <1>0, <1>1, <1>2, <2>1, <2>3, <2>4, <2>5, PaidWorkerKept
  <1>6. CASE Ledger(w)
    <2>1. /\ worker'[w].at \in {"write_succeeded", "write_failed"} /\ worker'[w].run = q
          /\ UNCHANGED <<calls, record>>
      BY <1>6 DEF Ledger, Becomes, TypeOK
    <2>2. q = worker[w].run
      OBVIOUS
    <2> HIDE DEF q
    <2> QED BY <1>0, <1>1, <1>2, <2>1, <2>2, PaidWorkerKept
  <1>7. CASE Finish(w)
    <2>1. \E status \in {"failed", "succeeded"} : Written(w, status)
      BY <1>7 DEF Finish
    <2>2. /\ \A r \in Clicks : r # q => record'[r] = record[r]
          /\ record'[q] # NoRecord /\ record'[q].status # "refused"
      BY <1>0, <2>1, WrittenRecord DEF Statuses
    <2>3. worker'[w].at = "none" /\ calls' = calls
      BY <1>7 DEF Finish, TypeOK, Asleep
    <2>4. q = worker[w].run
      OBVIOUS
    <2> HIDE DEF q
    <2> QED BY <1>0, <1>1, <1>2, <2>2, <2>3, <2>4, PaidWorkerKept
  <1> QED BY <1>3, <1>4, <1>5, <1>6, <1>7

LEMMA PaidStep ==
    ASSUME TypeOK, OneStarts, OneStarts', ClickIsOne, [Next]_vars
    PROVE  ClickIsOne'
  <1>1. ASSUME NEW t \in Threads, Admit(t) PROVE ClickIsOne'
    <2>1. UNCHANGED <<boot, record, worker, calls, pruned, starting>>
      BY <1>1 DEF Admit
    <2>2. \A u \in starting' : u \in starting /\ thread'[u].run = thread[u].run
      BY <1>1, <2>1 DEF Admit, TypeOK
    <2> QED BY <2>1, <2>2, PaidKept
  <1>2. CASE Reboot
    <2>1. \A w \in Workers : ~ Busy(w)'
      BY <1>2 DEF Reboot, Busy, Asleep
    <2>2. UNCHANGED <<record, calls, pruned>> /\ starting' = {}
      BY <1>2 DEF Reboot
    <2> QED BY <2>1, <2>2 DEF ClickIsOne
  <1>3. CASE Elapses \/ UNCHANGED vars
    <2>1. UNCHANGED <<boot, record, worker, calls, pruned, starting, thread>>
      BY <1>3 DEF Elapses, vars
    <2> QED BY <2>1, PaidKept
  <1> QED BY <1>1, <1>2, <1>3, PaidSweep, PaidEnter, PaidTurnedAway, PaidQueue, PaidWorker
          DEF Next

-----------------------------------------------------------------------------
(* Every record in flight has its worker                                   *)

LEMMA FlightRequest ==
    ASSUME TypeOK, FlightHasWorker, NEW t \in Threads,
           \/ \E r \in Clicks : Post(t, r)
           \/ Prune(t) \/ Enter(t) \/ Deny(t) \/ Admit(t) \/ QueueFails(t)
    PROVE  FlightHasWorker'
  <1>1. UNCHANGED <<boot, worker, leaked>>
    BY DEF Post, Prune, Enter, Deny, Admit, QueueFails
  <1>2. boot \in Nat
    BY DEF TypeOK
  <1>3. ASSUME NEW r \in Clicks, record'[r] # NoRecord
        PROVE  /\ record'[r].boot <= boot
               /\ record'[r].status \in InFlight /\ record'[r].boot = boot
                    => record'[r] = record[r] /\ record[r] # NoRecord
    <2>1. CASE \E q \in Clicks : Post(t, q)
      <3>1. record'[r] = AsOf(record[r])
        BY <2>1 DEF Post
      <3>2. record[r] # NoRecord
        BY <1>3, <3>1, ReadRecord
      <3> QED BY <3>1, <3>2, ReadRecord DEF FlightHasWorker
    <2>2. CASE Prune(t) \/ Enter(t) \/ Admit(t)
      <3>1. record'[r] = record[r]
        BY <1>3, <2>2 DEF Prune, Enter, Admit
      <3> QED BY <1>3, <3>1 DEF FlightHasWorker
    <2>3. CASE Deny(t) \/ QueueFails(t)
      <3>1. \/ record'[r] = record[r]
            \/ \E status \in {"refused", "failed"} : record'[r] = Fresh(status)
        BY <2>3 DEF Deny, QueueFails, TypeOK
      <3> QED BY <1>2, <1>3, <3>1, FreshRecord DEF FlightHasWorker, Statuses, InFlight
    <2> QED BY <2>1, <2>2, <2>3
  <1> QED BY <1>1, <1>3 DEF FlightHasWorker, Busy

LEMMA FlightQueue ==
    ASSUME TypeOK, FlightHasWorker, NEW t \in Threads, NEW w \in Workers, Queue(t, w)
    PROVE  FlightHasWorker'
  <1> DEFINE q == thread[t].run
  <1>1. UNCHANGED <<boot, leaked>> /\ boot \in Nat /\ q \in Clicks
    BY DEF Queue, TypeOK
  <1>2. Busy(w)' /\ worker'[w].run = q
    BY DEF Queue, TypeOK, Busy
  <1>3. \A v \in Workers : Busy(v) => Busy(v)' /\ worker'[v].run = worker[v].run
    BY DEF Queue, TypeOK, Busy, Asleep
  <1>4. /\ \A r \in Clicks : r # q => record'[r] = record[r]
        /\ record'[q] = Fresh("queued")
    BY <1>1 DEF Queue, TypeOK
  <1>5. record'[q].boot = boot
    BY <1>4, FreshRecord DEF Statuses
  <1> HIDE DEF q
  <1>6. ASSUME NEW r \in Clicks, record'[r] # NoRecord
        PROVE  /\ record'[r].boot <= boot'
               /\ (r \notin leaked' /\ record'[r].status \in InFlight /\ record'[r].boot = boot')
                    => \E v \in Workers : Busy(v)' /\ worker'[v].run = r
    <2>1. CASE r = q
      BY <1>1, <1>2, <1>5, <2>1
    <2>2. CASE r # q
      BY <1>1, <1>3, <1>4, <1>6, <2>2 DEF FlightHasWorker
    <2> QED BY <2>1, <2>2
  <1> QED BY <1>6 DEF FlightHasWorker

LEMMA FlightWorker ==
    ASSUME TypeOK, FlightHasWorker, NEW w \in Workers,
           \/ MarkRunning(w) \/ MarkRunningFails(w) \/ CallFails(w)
           \/ \E price \in Prices : Call(w, price)
           \/ Ledger(w) \/ Finish(w)
    PROVE  FlightHasWorker'
  <1> DEFINE q == worker[w].run
  <1>0. Busy(w) /\ boot' = boot /\ boot \in Nat /\ leaked \subseteq leaked'
    BY DEF MarkRunning, MarkRunningFails, CallFails, Call, Ledger, Finish, Busy, TypeOK
  <1>1. \A v \in Workers : Busy(v) /\ v # w => Busy(v)' /\ worker'[v].run = worker[v].run
    BY DEF MarkRunning, MarkRunningFails, CallFails, Call, Ledger, Finish, Becomes, TypeOK,
           Busy
  <1>2. \/ /\ Busy(w)' /\ worker'[w].run = q
        \/ q \in leaked'
        \/ record'[q].status \notin InFlight
    <2>1. CASE MarkRunningFails(w)
      BY <2>1 DEF MarkRunningFails
    <2>2. CASE Finish(w)
      <3>1. \E status \in {"failed", "succeeded"} : Written(w, status)
        BY <2>2 DEF Finish
      <3> QED BY <1>0, <3>1, WrittenRecord DEF Statuses, InFlight
    <2>3. CASE \/ MarkRunning(w) \/ CallFails(w) \/ Ledger(w)
               \/ \E price \in Prices : Call(w, price)
      BY <2>3 DEF MarkRunning, CallFails, Ledger, Call, Becomes, Busy, TypeOK
    <2> QED BY <2>1, <2>2, <2>3
  <1>3. /\ \A r \in Clicks : r # q => record'[r] = record[r]
        /\ record'[q] = record[q] \/ record'[q].boot = boot
    <2>1. CASE MarkRunning(w) \/ Finish(w)
      <3>1. \E status \in {"failed", "succeeded", "running"} : Written(w, status)
        BY <2>1 DEF MarkRunning, Finish
      <3> QED BY <1>0, <3>1, WrittenRecord DEF Statuses
    <2>2. CASE \/ MarkRunningFails(w) \/ CallFails(w) \/ Ledger(w)
               \/ \E price \in Prices : Call(w, price)
      BY <2>2 DEF MarkRunningFails, CallFails, Ledger, Call
    <2> QED BY <2>1, <2>2
  <1>4. q = worker[w].run
    OBVIOUS
  <1> HIDE DEF q
  <1>5. ASSUME NEW r \in Clicks, record'[r] # NoRecord
        PROVE  /\ record'[r].boot <= boot'
               /\ (r \notin leaked' /\ record'[r].status \in InFlight /\ record'[r].boot = boot')
                    => \E v \in Workers : Busy(v)' /\ worker'[v].run = r
    <2>1. CASE r = q
      <3>1. record'[r].boot <= boot'
        BY <1>0, <1>3, <1>5, <2>1 DEF FlightHasWorker
      <3>2. ASSUME r \notin leaked', record'[r].status \in InFlight
            PROVE  Busy(w)' /\ worker'[w].run = r
        BY <1>2, <2>1, <3>2
      <3> QED BY <3>1, <3>2
    <2>2. CASE r # q
      <3>1. record'[r] = record[r]
        BY <1>3, <2>2
      <3>2. record'[r].boot <= boot'
        BY <1>0, <1>5, <3>1 DEF FlightHasWorker
      <3>3. ASSUME r \notin leaked', record'[r].status \in InFlight, record'[r].boot = boot'
            PROVE  \E v \in Workers : Busy(v)' /\ worker'[v].run = r
        <4>1. PICK v \in Workers : Busy(v) /\ worker[v].run = r
          BY <1>0, <1>5, <3>1, <3>3 DEF FlightHasWorker
        <4>2. v # w
          BY <1>4, <2>2, <4>1
        <4> QED BY <1>1, <4>1, <4>2
      <3> QED BY <3>2, <3>3
    <2> QED BY <2>1, <2>2
  <1> QED BY <1>5 DEF FlightHasWorker

LEMMA FlightStep ==
    ASSUME TypeOK, FlightHasWorker, [Next]_vars
    PROVE  FlightHasWorker'
  <1>1. CASE Reboot
    <2>1. record' = record /\ boot' = boot + 1 /\ boot \in Nat
      BY <1>1 DEF Reboot, TypeOK
    <2>2. ASSUME NEW r \in Clicks, record[r] # NoRecord
          PROVE  record[r].boot <= boot' /\ record[r].boot # boot'
      <3>1. record[r].boot \in Nat /\ record[r].boot <= boot
        BY <2>2 DEF FlightHasWorker, TypeOK, Records
      <3> QED BY <2>1, <3>1
    <2> QED BY <2>1, <2>2 DEF FlightHasWorker
  <1>2. CASE Elapses \/ UNCHANGED vars
    BY <1>2 DEF Elapses, vars, FlightHasWorker, Busy
  <1> QED BY <1>1, <1>2, FlightRequest, FlightQueue, FlightWorker DEF Next

-----------------------------------------------------------------------------
LEMMA AdvisoryStep == AdvisoryInv /\ [Next]_vars => AdvisoryInv'
  <1> SUFFICES ASSUME AdvisoryInv, [Next]_vars PROVE AdvisoryInv'
    OBVIOUS
  <1> USE DEF AdvisoryInv
  <1>1. TypeOK'
    BY TypeStep
  <1>2. OneStarts'
    BY StartsStep
  <1>3. SpendingIsCounted' /\ ClickIsOne' /\ FlightHasWorker'
    BY <1>1, <1>2, SpendingStep, PaidStep, FlightStep
  <1> QED BY <1>1, <1>2, <1>3

LEMMA AdvisoryInvariant == Spec => []AdvisoryInv
  BY AdvisoryInit, AdvisoryStep, PTL DEF Spec

\* Clicks admitted together, workers that finish late, faults and reboots:
\* the calls of a window never pass the ceiling of their tool, and a click
\* whose record stands is paid for once.
THEOREM ClicksAreBounded == Spec => []SpendingIsBounded
  <1>1. AdvisoryInv => SpendingIsBounded
    <2> SUFFICES ASSUME AdvisoryInv PROVE SpendingIsBounded
      OBVIOUS
    <2> USE DEF AdvisoryInv
    <2>1. CeilingHolds
      <3> SUFFICES ASSUME NEW tool \in Tools
                   PROVE  Cardinality(InWindow(tool)) + Cardinality(Owing(tool)) <= MaxRuns
        BY DEF CeilingHolds, Owing
      <3>1. Cardinality(InWindow(tool)) + Cardinality(Owing(tool)) + Promised(tool) <= MaxRuns
        BY DEF SpendingIsCounted
      <3> QED BY <3>1, SpendingSets, AdvisoryAssumption
    <2>2. PaidOnce
      BY DEF PaidOnce, ClickIsOne
    <2> QED BY <2>1, <2>2 DEF SpendingIsBounded
  <1> QED BY <1>1, AdvisoryInvariant, PTL

\* A record that reads as in flight has a worker, or is one whose worker died
\* on its first write: every other run has come to an end a reader can see.
THEOREM RecordsHaveWorkers == Spec => []NoRunStandsStill
  <1>1. AdvisoryInv => NoRunStandsStill
    <2> SUFFICES ASSUME AdvisoryInv, NEW r \in Files \ leaked,
                        AsOf(record[r]).status \in InFlight
                 PROVE  \E w \in Workers : worker[w].run = r
      BY DEF NoRunStandsStill
    <2> USE DEF AdvisoryInv
    <2>1. r \in Clicks /\ record[r] # NoRecord
      BY DEF Files
    <2>2. record[r].status \in InFlight /\ record[r].boot = boot
      BY <2>1, ReadRecord
    <2> QED BY <2>1, <2>2 DEF FlightHasWorker
  <1> QED BY <1>1, AdvisoryInvariant, PTL
=============================================================================
