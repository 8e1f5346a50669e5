----------------------------- MODULE TickProofs -----------------------------
(***************************************************************************)
(* What Tick promises for any number of databases, events, days and        *)
(* failures.                                                               *)
(***************************************************************************)
EXTENDS Tick, TLAPS

\* Which day an instant is on.
LEMMA DayBounds ==
    ASSUME NEW i \in Nat
    PROVE  /\ Day(i) \in Nat
           /\ Midnight(Day(i)) <= i
           /\ i < Midnight(Day(i) + 1)
  BY TickAssumption DEF Day, Midnight

\* Midnights come in the order of their days.
LEMMA MidnightOrder ==
    ASSUME NEW c \in Nat, NEW d \in Nat
    PROVE  /\ Midnight(c) \in Nat
           /\ c <= d => Midnight(c) <= Midnight(d)
           /\ c < d => Midnight(c + 1) <= Midnight(d)
           /\ Midnight(c) < Midnight(d) => c < d
  BY TickAssumption DEF Midnight

\* An instant is before a midnight exactly when its day is before that day.
LEMMA DayOrder ==
    ASSUME NEW i \in Nat, NEW d \in Nat
    PROVE  i < Midnight(d) <=> Day(i) < d
  <1>1. /\ Day(i) \in Nat
        /\ Midnight(Day(i)) <= i
        /\ i < Midnight(Day(i) + 1)
    BY DayBounds
  <1>2. /\ Midnight(Day(i)) \in Nat /\ Midnight(d) \in Nat
        /\ Midnight(Day(i)) < Midnight(d) => Day(i) < d
        /\ Day(i) < d => Midnight(Day(i) + 1) <= Midnight(d)
    BY <1>1, MidnightOrder
  <1>3. Midnight(Day(i) + 1) \in Nat
    BY <1>1, MidnightOrder
  <1> QED BY <1>1, <1>2, <1>3

\* Days run to the day on which the clock stops.
LEMMA DayType ==
    /\ \A i \in Instants : Day(i) \in Days
    /\ Days \subseteq Nat /\ 0 \in Days
    /\ \A i \in Instants : i \in Nat
    /\ \A d \in Days : Midnight(d) \in Nat /\ Midnight(d + 1) \in Nat
  <1>1. LastInstant \in Nat /\ Day(LastInstant) \in Nat
    BY TickAssumption, DayBounds
  <1>2. ASSUME NEW i \in Instants
        PROVE  i \in Nat /\ Day(i) \in Days
    <2>1. i \in Nat /\ i <= LastInstant
      BY <1>1 DEF Instants
    <2>2. i < Midnight(Day(LastInstant) + 1)
      BY <1>1, <2>1, DayBounds, MidnightOrder
    <2>3. Day(i) \in Nat /\ Day(i) < Day(LastInstant) + 1
      BY <1>1, <2>1, <2>2, DayBounds, DayOrder
    <2> QED BY <1>1, <2>1, <2>3 DEF Days
  <1> QED BY <1>1, <1>2, MidnightOrder DEF Days

LEMMA EventsType ==
    ASSUME NEW db, NEW from, NEW to
    PROVE  EventsIn(db, from, to) \subseteq Events
  BY DEF EventsIn
-----------------------------------------------------------------------------
LEMMA TypeInit == Init => TypeOK
  <1> SUFFICES ASSUME Init PROVE TypeOK
    OBVIOUS
  <1>1. 0 \in Instants /\ 0 \in Days
    BY TickAssumption, DayType DEF Instants
  <1>2. FilesOK
    BY <1>1 DEF Init, FilesOK, NoDigest, NoEntry, Marking, Windows, Ledgers
  <1>3. CommandOK
    BY <1>1 DEF Init, CommandOK, Marking, Windows
  <1>4. OperatorOK
    BY DEF Init, OperatorOK, Marking, Windows
  <1> QED BY <1>2, <1>3, <1>4 DEF TypeOK

\* A tick works on today, or on yesterday when there is one.
LEMMA CatchupType ==
    ASSUME NEW mark \in Instants \cup {Never}, t1 \in Instants
    PROVE  CatchupDay(mark) \in Days
  <1>1. Today \in Days /\ Today \in Nat
    BY DayType DEF Today
  <1>2. CASE mark # Never /\ mark < Midnight(Today)
    <2>1. mark \in Nat
      BY <1>2, DayType
    <2>2. Day(mark) \in Nat /\ Day(mark) < Today
      BY <1>1, <1>2, <2>1, DayBounds, DayOrder
    <2> QED BY <1>1, <1>2, <2>2, DayBounds, TickAssumption DEF CatchupDay, Days
  <1> QED BY <1>1, <1>2 DEF CatchupDay

LEMMA TypeWorld ==
    ASSUME TypeOK, Advance \/ \E e \in Events, db \in Dbs : Log(e, db)
    PROVE  TypeOK'
  <1>1. CASE Advance
    <2>1. now' \in Instants
      BY <1>1, TickAssumption DEF Advance, Instants, TypeOK, FilesOK
    <2> QED BY <1>1, <2>1 DEF Advance, TypeOK, FilesOK, CommandOK, OperatorOK,
                              files, command, operator
  <1>2. ASSUME NEW e \in Events, NEW db \in Dbs, Log(e, db)
        PROVE  TypeOK'
    <2>1. PICK at \in Midnight(Day(now)) .. now :
             log' = [log EXCEPT ![e] = [db |-> db, at |-> at]]
      BY <1>2 DEF Log
    <2>2. at \in Instants
      <3>1. now \in Instants /\ Day(now) \in Days /\ now \in Nat
        BY DayType DEF TypeOK, FilesOK
      <3>2. Midnight(Day(now)) \in Nat
        BY <3>1, DayType
      <3> QED BY <3>1, <3>2, <2>1, TickAssumption DEF Instants
    <2>3. log' \in [Events -> [db : Dbs, at : Instants] \cup {Unlogged}]
      BY <2>1, <2>2 DEF TypeOK, FilesOK
    <2> QED BY <1>2, <2>3 DEF Log, TypeOK, FilesOK, CommandOK, OperatorOK,
                              files, command, operator
  <1> QED BY <1>1, <1>2

\* What starts and ends a command touches no file.
LEMMA TypeEntry ==
    ASSUME TypeOK,
           \/ TickStarts \/ RetryStarts
           \/ \E k \in Keys : IngestStarts(k)
           \/ \E from, to \in Days : BackfillStarts(from, to)
           \/ TakesDb \/ TakesDigest \/ CommandEnds
    PROVE  TypeOK'
  <1>1. /\ Day(now) \in Days /\ 0 \in Instants /\ now \in Instants
        /\ \A from, to : Discovered(from, to) \subseteq Dbs
    BY DayType, TickAssumption DEF TypeOK, FilesOK, Instants, Discovered
  <1>2. CASE TickStarts
    <2>1. todo' \subseteq Keys
      BY <1>1, <1>2 DEF TickStarts, Start, Keys
    <2> QED BY <1>1, <1>2, <2>1
            DEF TickStarts, Start, Locals, TypeOK, FilesOK, CommandOK, OperatorOK,
                Windows, world, files, operator
  <1>3. CASE RetryStarts
    BY <1>1, <1>3
       DEF RetryStarts, Retryable, Start, Locals, TypeOK, FilesOK, CommandOK,
           OperatorOK, Windows, world, files, operator
  <1>4. ASSUME NEW k \in Keys, IngestStarts(k)
        PROVE  TypeOK'
    BY <1>1, <1>4
       DEF IngestStarts, Start, Locals, TypeOK, FilesOK, CommandOK, OperatorOK,
           Windows, world, files, operator
  <1>5. ASSUME NEW from \in Days, NEW to \in Days, BackfillStarts(from, to)
        PROVE  TypeOK'
    <2>1. PICK dbs \in {{db} : db \in Dbs}
                         \cup {Discovered(Midnight(from), Midnight(to + 1))} :
             Start("backfill", dbs \X (from .. to))
      BY <1>5 DEF BackfillStarts
    <2>2. dbs \subseteq Dbs
      BY <1>1
    <2>3. from .. to \subseteq Days
      BY DayType, TickAssumption, DayBounds DEF Days
    <2>4. todo' \subseteq Keys
      BY <2>1, <2>2, <2>3 DEF Start, Keys
    <2>5. spent' \in [Bounds -> Nat]
      BY <1>5 DEF BackfillStarts, Spend, TypeOK, FilesOK, Bounds
    <2> QED BY <1>1, <1>5, <2>1, <2>4, <2>5
            DEF BackfillStarts, Start, Locals, TypeOK, FilesOK, CommandOK,
                OperatorOK, Windows, world, files, operator
  <1>6. CASE TakesDb
    <2>1. PICK k \in todo :
             /\ todo' = todo \ {k}
             /\ before' = watermark[k[1]]
             /\ held' = FALSE
             /\ Locals("compact", <<k[1], CatchupDay(watermark[k[1]])>>, {}, Never)
      BY <1>6 DEF TakesDb
    <2>2. k[1] \in Dbs /\ todo \subseteq Keys
      BY DEF TypeOK, CommandOK, Keys
    <2>3. watermark[k[1]] \in Instants \cup {Never} /\ t1 \in Instants
      BY <2>2 DEF TypeOK, FilesOK, CommandOK, Marking
    <2>4. CatchupDay(watermark[k[1]]) \in Days
      BY <2>3, CatchupType
    <2>5. key' \in Keys
      BY <2>1, <2>2, <2>4 DEF Locals, Keys
    <2> QED BY <1>6, <2>1, <2>2, <2>3, <2>5
            DEF TakesDb, Locals, TypeOK, FilesOK, CommandOK, OperatorOK, Windows,
                world, files, operator
  <1>7. CASE TakesDigest
    BY <1>7
       DEF TakesDigest, Locals, TypeOK, FilesOK, CommandOK, OperatorOK, Windows,
           world, files, operator
  <1>8. CASE CommandEnds
    BY <1>1, <1>8
       DEF CommandEnds, Locals, TypeOK, FilesOK, CommandOK, OperatorOK, Windows,
           world, files, operator
  <1> QED BY <1>2, <1>3, <1>4, <1>5, <1>6, <1>7, <1>8

\* The next digest is one of today, or none yet.
LEMMA TypeTurn ==
    ASSUME TypeOK, pc \notin {"idle", "next"},
           NEW failed \in BOOLEAN, Turn(failed),
           UNCHANGED operator, FilesOK'
    PROVE  TypeOK'
  <1>1. CommandOK'
    <2>1. key \in Keys /\ t1 \in Instants /\ cmd # "none"
      BY DEF TypeOK, CommandOK
    <2>2. <<key[1], Today>> \in Keys
      BY <2>1, DayType DEF Keys, Today
    <2>3. held' \in BOOLEAN
      BY DEF Turn, TypeOK, CommandOK
    <2>4. CASE CatchingUp
      BY <2>1, <2>2, <2>3, <2>4
         DEF Turn, NextDigest, Locals, TypeOK, CommandOK, Windows
    <2>5. CASE ~CatchingUp
      BY <2>1, <2>3, <2>5
         DEF Turn, NextDigest, Locals, TypeOK, CommandOK, Windows
    <2> QED BY <2>4, <2>5
  <1>2. OperatorOK'
    BY DEF TypeOK, OperatorOK, operator
  <1> QED BY <1>1, <1>2 DEF TypeOK

LEMMA TypeCompaction ==
    ASSUME TypeOK, Compacts \/ CompactFails \/ Emits \/ Marks \/ Saves
    PROVE  TypeOK'
  <1>1. CASE Compacts
    <2>1. key \in Keys /\ key[1] \in Dbs /\ key[2] \in Days
      BY <1>1 DEF Compacts, TypeOK, CommandOK, Keys
    <2>2. WindowEnd \in Nat
      BY <2>1, DayType DEF WindowEnd, TypeOK, CommandOK
    <2>3. FilesOK'
      BY <1>1, <2>1 DEF Compacts, TypeOK, FilesOK, world
    <2> DEFINE content == DayEvents(key, WindowEnd)
    <2>4. content \subseteq Events
      BY EventsType DEF DayEvents
    <2>5. CASE Turn(FALSE)
      BY <1>1, <2>3, <2>5, TypeTurn DEF Compacts
    <2>6. CASE /\ Locals("emit", key, content, WindowEnd)
               /\ UNCHANGED <<cmd, todo, t1, consolidate, before, held, copy>>
      <3>1. CommandOK'
        BY <1>1, <2>1, <2>2, <2>4, <2>6
           DEF Compacts, Locals, TypeOK, CommandOK, Windows, Never
      <3>2. OperatorOK'
        BY <1>1 DEF Compacts, TypeOK, OperatorOK, operator
      <3> QED BY <2>3, <3>1, <3>2 DEF TypeOK
    <2> QED BY <1>1, <2>5, <2>6 DEF Compacts
  <1>2. CASE CompactFails
    <2>1. FilesOK'
      BY <1>2 DEF CompactFails, Spend, Bounds, TypeOK, FilesOK, world, files
    <2>2. CASE cmd = "tick"
      BY <1>2, <2>1, <2>2, TypeTurn DEF CompactFails
    <2>3. CASE cmd # "tick"
      BY <1>2, <2>1, <2>3
         DEF CompactFails, Locals, TypeOK, CommandOK, OperatorOK, Windows, operator
    <2> QED BY <2>2, <2>3
  <1>3. CASE Emits
    <2>1. FilesOK'
      BY <1>3 DEF Emits, TypeOK, FilesOK, CommandOK, world
    <2> QED BY <1>3, <2>1 DEF Emits, TypeOK, CommandOK, OperatorOK, operator
  <1>4. CASE Marks
    <2>1. LeastOf(upto, now) \in Instants
      BY <1>4, TickAssumption
         DEF Marks, LeastOf, TypeOK, FilesOK, CommandOK, Windows, Instants
    <2>2. copy' \in Marking
      BY <1>4, <2>1 DEF Marks, Marking, TypeOK, FilesOK
    <2> QED BY <1>4, <2>2
            DEF Marks, TypeOK, FilesOK, CommandOK, OperatorOK, world, files, operator
  <1>5. CASE Saves
    <2>1. FilesOK'
      BY <1>5 DEF Saves, TypeOK, FilesOK, CommandOK, world
    <2>2. copy' \in Marking
      BY <1>5 DEF Saves, Marking
    <2> QED BY <1>5, <2>1, <2>2
            DEF Saves, Locals, TypeOK, CommandOK, OperatorOK, Windows, operator
  <1> QED BY <1>1, <1>2, <1>3, <1>4, <1>5

LEMMA TypeIngest ==
    ASSUME TypeOK,
           Skips \/ Wake \/ ReadsDigest \/ Refused \/ StageFails \/ Publishes \/ Records
    PROVE  TypeOK'
  <1>1. CASE Skips
    <2>1. FilesOK'
      BY <1>1 DEF Skips, TypeOK, FilesOK, world, files
    <2> QED BY <1>1, <2>1, TypeTurn DEF Skips
  <1>2. CASE Wake
    BY <1>2 DEF Wake, Locals, TypeOK, FilesOK, CommandOK, OperatorOK, Windows,
                world, files, operator
  <1>3. CASE ReadsDigest
    <2>1. FilesOK' /\ OperatorOK'
      BY <1>3 DEF ReadsDigest, TypeOK, FilesOK, OperatorOK, world, files, operator
    <2>2. CASE Turn(FALSE)
      BY <1>3, <2>1, <2>2, TypeTurn DEF ReadsDigest
    <2>3. CASE /\ Locals("agent", key, digest[key].content, digest[key].to)
               /\ UNCHANGED <<cmd, todo, t1, consolidate, before, held, copy>>
      <3>1. digest[key] \in [to : Windows, content : SUBSET Events]
        BY <1>3 DEF ReadsDigest, TypeOK, FilesOK, CommandOK
      <3> QED BY <1>3, <2>1, <2>3, <3>1 DEF ReadsDigest, Locals, TypeOK, CommandOK
    <2> QED BY <1>3, <2>2, <2>3 DEF ReadsDigest
  <1>4. CASE Refused
    <2>1. FilesOK'
      BY <1>4 DEF Refused, Spend, Bounds, TypeOK, FilesOK, world, files
    <2> QED BY <1>4, <2>1, TypeTurn DEF Refused
  <1>5. CASE StageFails
    <2>1. PICK retryable \in BOOLEAN :
             ledger' = [ledger EXCEPT ![key] = Entry("failed", got, Never, retryable)]
      BY <1>5 DEF StageFails
    <2>2. ledger' \in Ledgers
      BY <1>5, <2>1 DEF StageFails, Entry, Ledgers, Windows, TypeOK, FilesOK, CommandOK
    <2>3. FilesOK'
      BY <1>5, <2>2 DEF StageFails, Spend, Bounds, TypeOK, FilesOK, world
    <2> QED BY <1>5, <2>3, TypeTurn DEF StageFails
  <1>6. CASE Publishes
    <2>1. wiki' \in [Keys -> SUBSET SUBSET Events]
      BY <1>6 DEF Publishes, TypeOK, FilesOK, CommandOK
    <2> QED BY <1>6, <2>1
            DEF Publishes, TypeOK, FilesOK, CommandOK, OperatorOK, world, operator
  <1>7. CASE Records
    <2>1. ledger' \in Ledgers
      BY <1>7 DEF Records, Entry, Ledgers, TypeOK, FilesOK, CommandOK
    <2>2. FilesOK'
      BY <1>7, <2>1 DEF Records, TypeOK, FilesOK, world
    <2> QED BY <1>7, <2>2, TypeTurn DEF Records
  <1> QED BY <1>1, <1>2, <1>3, <1>4, <1>5, <1>6, <1>7

LEMMA TypeKill ==
    ASSUME TypeOK, Kill
    PROVE  TypeOK'
  <1>1. orphans' \subseteq Keys \X SUBSET Events
    <2>1. pc = "record" => <<key, got>> \in Keys \X SUBSET Events
      BY DEF TypeOK, CommandOK
    <2> QED BY <2>1 DEF Kill, TypeOK, FilesOK
  <1>2. FilesOK'
    BY <1>1 DEF Kill, Spend, Bounds, TypeOK, FilesOK, world
  <1>3. copy' \in Marking /\ 0 \in Instants
    BY TickAssumption DEF Kill, Marking, Instants
  <1>4. CommandOK'
    BY <1>3 DEF Kill, Locals, TypeOK, CommandOK, Windows
  <1> QED BY <1>2, <1>4 DEF Kill, TypeOK, OperatorOK, operator

LEMMA TypeOperator ==
    ASSUME TypeOK,
           \/ \E k \in Keys, to \in 1 .. Midnight(Day(LastInstant) + 1) :
                 OperatorCompacts(k, to)
           \/ OperatorEmits \/ OperatorMarks \/ OperatorSaves \/ OperatorDies
    PROVE  TypeOK'
  <1>1. ASSUME OperatorEnds
        PROVE  OperatorOK'
    BY <1>1 DEF OperatorEnds, OperatorOK, Windows, Marking
  <1>2. ASSUME NEW k \in Keys, NEW to \in 1 .. Midnight(Day(LastInstant) + 1),
               OperatorCompacts(k, to)
        PROVE  TypeOK'
    <2>1. to \in Nat
      BY DayBounds, MidnightOrder, TickAssumption
    <2>2. ogot' \subseteq Events
      BY <1>2, EventsType DEF OperatorCompacts, DayEvents
    <2>3. FilesOK'
      BY <1>2 DEF OperatorCompacts, Spend, Bounds, Keys, TypeOK, FilesOK, world
    <2>4. OperatorOK'
      BY <1>2, <2>1, <2>2 DEF OperatorCompacts, TypeOK, OperatorOK, Windows, Never
    <2> QED BY <1>2, <2>3, <2>4 DEF OperatorCompacts, TypeOK, CommandOK, command
  <1>3. CASE OperatorEmits
    <2>1. FilesOK'
      BY <1>3 DEF OperatorEmits, TypeOK, FilesOK, OperatorOK, world
    <2> QED BY <1>3, <2>1 DEF OperatorEmits, TypeOK, CommandOK, OperatorOK, command
  <1>4. CASE OperatorMarks
    <2>1. LeastOf(oupto, now) \in Instants
      BY <1>4, TickAssumption
         DEF OperatorMarks, LeastOf, TypeOK, FilesOK, OperatorOK, Windows, Instants
    <2>2. ocopy' \in Marking
      BY <1>4, <2>1 DEF OperatorMarks, Marking, TypeOK, FilesOK
    <2> QED BY <1>4, <2>2
            DEF OperatorMarks, TypeOK, FilesOK, CommandOK, OperatorOK, world, files,
                command
  <1>5. CASE OperatorSaves
    <2>1. FilesOK'
      BY <1>5 DEF OperatorSaves, TypeOK, FilesOK, OperatorOK, world
    <2> QED BY <1>1, <1>5, <2>1 DEF OperatorSaves, TypeOK, CommandOK, command
  <1>6. CASE OperatorDies
    BY <1>1, <1>6
       DEF OperatorDies, TypeOK, FilesOK, CommandOK, world, files, command
  <1> QED BY <1>2, <1>3, <1>4, <1>5, <1>6

LEMMA TypeStep ==
    ASSUME TypeOK, [Next]_vars
    PROVE  TypeOK'
  <1>1. CASE UNCHANGED vars
    BY <1>1 DEF vars, world, files, command, operator,
                TypeOK, FilesOK, CommandOK, OperatorOK
  <1> QED BY <1>1, TypeWorld, TypeEntry, TypeCompaction, TypeIngest, TypeKill,
             TypeOperator DEF Next, Steps

\* Whatever ticks, operators and failures do, in any order, every file of the
\* state store keeps its shape and a command in progress knows its digest.
THEOREM TypeCorrect == Spec => []TypeOK
  <1> QED BY TypeInit, TypeStep, PTL DEF Spec
-----------------------------------------------------------------------------
(* The ledger tells the truth because an entry is written by the process   *)
(* that published, after it did.                                           *)

LedgerInv ==
    /\ LedgerTellsTheTruth
    /\ pc = "record" => got \in wiki[key]

\* The wiki only gains, and only `Records` calls something ingested.
LEMMA LedgerKept ==
    ASSUME LedgerInv, UNCHANGED <<ledger, wiki>>, pc' # "record"
    PROVE  LedgerInv'
  BY DEF LedgerInv, LedgerTellsTheTruth

LEMMA LedgerStep ==
    ASSUME TypeOK, LedgerInv, [Next]_vars
    PROVE  LedgerInv'
  <1>1. CASE UNCHANGED vars
    BY <1>1 DEF vars, files, command, LedgerInv, LedgerTellsTheTruth
  <1>2. CASE \/ Advance \/ \E e \in Events, db \in Dbs : Log(e, db)
             \/ \E k \in Keys, to \in 1 .. Midnight(Day(LastInstant) + 1) :
                   OperatorCompacts(k, to)
             \/ OperatorEmits \/ OperatorMarks \/ OperatorSaves \/ OperatorDies
    <2>1. UNCHANGED <<ledger, wiki, pc, got, key>>
      BY <1>2 DEF Advance, Log, OperatorCompacts, OperatorEmits, OperatorMarks,
                  OperatorSaves, OperatorDies, files, command
    <2> QED BY <2>1 DEF LedgerInv, LedgerTellsTheTruth
  <1>3. CASE \/ TickStarts \/ RetryStarts
             \/ \E k \in Keys : IngestStarts(k)
             \/ \E from, to \in Days : BackfillStarts(from, to)
             \/ TakesDb \/ TakesDigest \/ CommandEnds \/ Kill
    <2>1. UNCHANGED <<ledger, wiki>> /\ pc' # "record"
      BY <1>3 DEF TickStarts, RetryStarts, IngestStarts, BackfillStarts, Start,
                  TakesDb, TakesDigest, CommandEnds, Kill, Locals, files
    <2> QED BY <2>1, LedgerKept
  <1>4. ASSUME NEW failed, Turn(failed)
        PROVE  pc' # "record"
    BY <1>4 DEF Turn, NextDigest, Locals
  <1>5. CASE \/ Compacts \/ CompactFails \/ Emits \/ Marks \/ Saves
             \/ Skips \/ Wake \/ ReadsDigest \/ Refused
    <2>1. UNCHANGED <<ledger, wiki>> /\ pc' # "record"
      BY <1>4, <1>5 DEF Compacts, CompactFails, Emits, Marks, Saves, Skips, Wake,
                        ReadsDigest, Refused, Locals, files
    <2> QED BY <2>1, LedgerKept
  <1>6. CASE StageFails
    <2>1. PICK retryable \in BOOLEAN :
             ledger' = [ledger EXCEPT ![key] = Entry("failed", got, Never, retryable)]
      BY <1>6 DEF StageFails
    <2>2. wiki' = wiki /\ pc' # "record" /\ key \in Keys /\ DOMAIN ledger = Keys
      BY <1>4, <1>6 DEF StageFails, TypeOK, FilesOK, CommandOK, Ledgers
    <2>3. ASSUME NEW k \in Keys, ledger'[k].status = "ingested"
          PROVE  ledger'[k].content \in wiki'[k]
      <3>1. k # key /\ ledger'[k] = ledger[k]
        BY <2>1, <2>2, <2>3 DEF Entry
      <3> QED BY <2>2, <2>3, <3>1 DEF LedgerInv, LedgerTellsTheTruth
    <2> QED BY <2>2, <2>3 DEF LedgerInv, LedgerTellsTheTruth
  <1>7. CASE Publishes
    <2>1. /\ UNCHANGED <<ledger, key, got>> /\ key \in Keys
          /\ \A k \in Keys : wiki[k] \subseteq wiki'[k]
          /\ got \in wiki'[key]
      BY <1>7 DEF Publishes, TypeOK, FilesOK, CommandOK
    <2> QED BY <2>1 DEF LedgerInv, LedgerTellsTheTruth
  <1>8. CASE Records
    <2>1. /\ ledger' = [ledger EXCEPT ![key] = Entry("ingested", got, upto, FALSE)]
          /\ wiki' = wiki /\ pc' # "record" /\ key \in Keys /\ DOMAIN ledger = Keys
          /\ got \in wiki[key]
      BY <1>4, <1>8 DEF Records, TypeOK, FilesOK, CommandOK, Ledgers, LedgerInv
    <2>2. ASSUME NEW k \in Keys, ledger'[k].status = "ingested"
          PROVE  ledger'[k].content \in wiki'[k]
      <3>1. CASE k = key
        BY <2>1, <3>1 DEF Entry
      <3>2. CASE k # key
        BY <2>1, <2>2, <3>2 DEF LedgerInv, LedgerTellsTheTruth
      <3> QED BY <3>1, <3>2
    <2> QED BY <2>1, <2>2 DEF LedgerInv, LedgerTellsTheTruth
  <1> QED BY <1>1, <1>2, <1>3, <1>5, <1>6, <1>7, <1>8 DEF Next, Steps

\* Kills between commit and entry, failures and operators without the lock
\* included, the ledger never claims a content that the wiki was not given.
THEOREM LedgerIsTrue == Spec => []LedgerTellsTheTruth
  <1>1. Init => LedgerInv
    BY DEF Init, LedgerInv, LedgerTellsTheTruth, NoEntry
  <1>2. TypeOK /\ LedgerInv /\ [Next]_vars => LedgerInv'
    BY LedgerStep
  <1>3. LedgerInv => LedgerTellsTheTruth
    BY DEF LedgerInv
  <1> QED BY <1>1, <1>2, <1>3, TypeCorrect, PTL DEF Spec
-----------------------------------------------------------------------------
(* Midnight.  Without operator commands the watermark moves only with a    *)
(* tick's digest of today, and only after the catch-up has come through.   *)
(* That the wiki then has the whole of yesterday rests on what a window's  *)
(* end tells: a digest that ends at midnight was read after midnight and   *)
(* holds all that was logged that day, whoever read it and however long    *)
(* ago, and so does a ledger entry.                                        *)

WholeDay(k) == EventsIn(k[1], Midnight(k[2]), Midnight(k[2] + 1))
Ingested(content) == \A e \in Notable \cap content : InTheWiki(e)
InHand == {"emit", "mark", "save", "decide", "agent", "record"}

\* A content read up to midnight is that of the whole day, which is over.
IsWhole(k, to, content) ==
    to = Midnight(k[2] + 1) => k[2] < Day(now) /\ content = WholeDay(k)

NoOperators ==
    /\ opc = "idle" /\ cmd # "backfill"
    /\ t1 <= now
    /\ pc \in {"compact", "emit", "mark", "save", "decide"} => cmd = "tick"
    /\ cmd = "tick" /\ pc # "next" => key[2] <= Today

DigestsAreWhole ==
    /\ \A k \in Keys : IsWhole(k, digest[k].to, digest[k].content)
    /\ pc \in InHand => IsWhole(key, upto, got)

WholeDaysAreIngested ==
    \A k \in Keys :
       ledger[k].status = "ingested" /\ ledger[k].to = Midnight(k[2] + 1)
          => k[2] < Day(now) /\ Ingested(WholeDay(k))

\* A catch-up is of yesterday, whole, and leaves the watermark alone.
CatchUpOfYesterday ==
    CatchingUp =>
       /\ key[2] = Today - 1
       /\ ~held /\ pc \notin {"mark", "save"}
       /\ pc \in {"emit", "decide", "agent", "record"} => upto = Midnight(key[2] + 1)
       /\ pc \in {"decide", "ingest"} => digest[key].to = Midnight(key[2] + 1)

\* Today's digest moves the watermark when yesterday is in the wiki.
YesterdayIsIngested(db) ==
    watermark[db] # Never /\ Day(watermark[db]) + 1 = Today
       => Ingested(WholeDay(<<db, Today - 1>>))

TodayAfterYesterday ==
    (cmd = "tick" /\ pc \in {"compact", "emit", "mark", "save"} /\ key[2] = Today) =>
       /\ pc \in {"emit", "mark", "save"} => upto = t1
       /\ pc \in {"mark", "save"} => ~held
       /\ pc = "save" => copy = [watermark EXCEPT ![key[1]] = t1]
       /\ ~held => YesterdayIsIngested(key[1])

MidnightInv ==
    /\ NoOperators /\ DigestsAreWhole /\ WholeDaysAreIngested
    /\ CatchUpOfYesterday /\ TodayAfterYesterday

\* The wiki keeps what it has, and a day that is over gets no more events.
LEMMA Forward ==
    ASSUME TypeOK, TypeOK', [Next]_vars
    PROVE  /\ now <= now' /\ Day(now) <= Day(now')
           /\ \A e : InTheWiki(e) => InTheWiki(e)'
           /\ \A k \in Keys : k[2] < Day(now) => WholeDay(k)' = WholeDay(k)
  <1>1. now \in Nat /\ now' \in Nat
    BY DayType DEF TypeOK, FilesOK
  <1>2. ASSUME \A k \in Keys : wiki[k] \subseteq wiki'[k]
        PROVE  \A e : InTheWiki(e) => InTheWiki(e)'
    BY <1>2 DEF InTheWiki
  <1>3. CASE Advance
    <2>1. now' = now + 1 /\ UNCHANGED <<log, wiki>>
      BY <1>3 DEF Advance, files
    <2>2. Day(now) <= Day(now')
      BY <1>1, <2>1, TickAssumption DEF Day
    <2> QED BY <1>1, <1>2, <2>1, <2>2 DEF WholeDay, EventsIn
  <1>4. ASSUME NEW e \in Events, NEW db \in Dbs, Log(e, db)
        PROVE  /\ UNCHANGED <<now, wiki>>
               /\ \A k \in Keys : k[2] < Day(now) => WholeDay(k)' = WholeDay(k)
    <2>1. PICK at \in Midnight(Day(now)) .. now :
             log' = [log EXCEPT ![e] = [db |-> db, at |-> at]]
      BY <1>4 DEF Log
    <2>2. /\ \A f \in Events : f # e => log'[f] = log[f]
          /\ log'[e].at = at /\ log[e] = Unlogged
      BY <1>4, <2>1 DEF Log, TypeOK, FilesOK
    <2>3. ASSUME NEW k \in Keys, k[2] < Day(now)
          PROVE  WholeDay(k)' = WholeDay(k)
      <3>1. k[2] \in Nat /\ Day(now) \in Nat
        BY <1>1, DayType, DayBounds DEF Keys
      <3>2. Midnight(k[2] + 1) <= Midnight(Day(now))
        BY <2>3, <3>1, MidnightOrder
      <3>3. /\ Midnight(Day(now)) \in Nat /\ Midnight(k[2] + 1) \in Nat
            /\ at \in Int /\ Midnight(Day(now)) <= at
        BY <1>1, <3>1, MidnightOrder
      <3>4. ~(at < Midnight(k[2] + 1))
        BY <3>2, <3>3
      <3>5. \A f \in Events : f \in WholeDay(k)' <=> f \in WholeDay(k)
        BY <2>2, <3>4 DEF WholeDay, EventsIn
      <3>6. WholeDay(k) \subseteq Events /\ WholeDay(k)' \subseteq Events
        BY DEF WholeDay, EventsIn
      <3> QED BY <3>5, <3>6
    <2> QED BY <1>4, <2>3 DEF Log, files
  <1>5. CASE \/ UNCHANGED vars
             \/ TickStarts \/ RetryStarts
             \/ \E k \in Keys : IngestStarts(k)
             \/ \E from, to \in Days : BackfillStarts(from, to)
             \/ Kill
             \/ \E k \in Keys, to \in 1 .. Midnight(Day(LastInstant) + 1) :
                   OperatorCompacts(k, to)
             \/ OperatorEmits \/ OperatorMarks \/ OperatorSaves \/ OperatorDies
    <2>1. UNCHANGED <<now, log, wiki>>
      BY <1>5 DEF vars, world, files, TickStarts, RetryStarts, IngestStarts,
                  BackfillStarts, Start, Kill, OperatorCompacts, OperatorEmits,
                  OperatorMarks, OperatorSaves, OperatorDies
    <2> QED BY <1>1, <1>2, <2>1, DayBounds DEF WholeDay, EventsIn
  <1>6. CASE Steps
    <2>1. UNCHANGED <<now, log>> /\ (wiki' = wiki \/ Publishes)
      BY <1>6 DEF world, files, Steps, TakesDb, TakesDigest, CommandEnds, Compacts,
                  CompactFails, Emits, Marks, Saves, Skips, Wake, ReadsDigest,
                  Refused, StageFails, Publishes, Records
    <2>2. \A k \in Keys : wiki[k] \subseteq wiki'[k]
      BY <2>1 DEF Publishes, TypeOK, FilesOK
    <2> QED BY <1>1, <1>2, <2>1, <2>2, DayBounds DEF WholeDay, EventsIn
  <1>7. ASSUME NEW e \in Events, NEW db \in Dbs, Log(e, db)
        PROVE  /\ now <= now' /\ Day(now) <= Day(now')
               /\ \A f : InTheWiki(f) => InTheWiki(f)'
               /\ \A k \in Keys : k[2] < Day(now) => WholeDay(k)' = WholeDay(k)
    BY <1>1, <1>2, <1>4, <1>7, DayBounds
  <1> QED BY <1>3, <1>5, <1>6, <1>7 DEF Next

LEMMA WholeStays ==
    ASSUME TypeOK, TypeOK', [Next]_vars,
           NEW k \in Keys, NEW to, NEW content, IsWhole(k, to, content)
    PROVE  IsWhole(k, to, content)'
  <1>1. Day(now) \in Nat /\ Day(now') \in Nat /\ k[2] \in Nat
    BY DayType, DayBounds DEF TypeOK, FilesOK, Keys
  <1> QED BY <1>1, Forward DEF IsWhole

LEMMA IngestedStays ==
    ASSUME TypeOK, TypeOK', [Next]_vars,
           NEW k \in Keys, k[2] < Day(now), Ingested(WholeDay(k))
    PROVE  k[2] < Day(now') /\ Ingested(WholeDay(k))'
  <1>1. Day(now) \in Nat /\ Day(now') \in Nat /\ k[2] \in Nat
    BY DayType, DayBounds DEF TypeOK, FilesOK, Keys
  <1> QED BY <1>1, Forward DEF Ingested

LEMMA DigestsStay ==
    ASSUME TypeOK, TypeOK', [Next]_vars, MidnightInv, UNCHANGED digest
    PROVE  \A k \in Keys : IsWhole(k, digest[k].to, digest[k].content)'
  <1> SUFFICES ASSUME NEW k \in Keys
               PROVE  IsWhole(k, digest[k].to, digest[k].content)'
    OBVIOUS
  <1> DEFINE to == digest[k].to
             content == digest[k].content
  <1>1. IsWhole(k, to, content)
    BY DEF MidnightInv, DigestsAreWhole
  <1> HIDE DEF to, content
  <1>2. \A t, c : IsWhole(k, t, c) => (t = Midnight(k[2] + 1)
                     => k[2] < Day(now') /\ c = WholeDay(k)')
    BY WholeStays DEF IsWhole
  <1>3. to = Midnight(k[2] + 1) => k[2] < Day(now') /\ content = WholeDay(k)'
    BY <1>1, <1>2
  <1> QED BY <1>3 DEF IsWhole, to, content

LEMMA LedgerStays ==
    ASSUME TypeOK, TypeOK', [Next]_vars, MidnightInv, UNCHANGED ledger
    PROVE  WholeDaysAreIngested'
  BY IngestedStays DEF MidnightInv, WholeDaysAreIngested

\* Between two digests, or with no command, only the files matter.
LEMMA Between ==
    ASSUME TypeOK, TypeOK', [Next]_vars, MidnightInv, UNCHANGED digest,
           WholeDaysAreIngested', pc' \in {"idle", "next"}, opc' = "idle",
           cmd' # "backfill", t1' <= now'
    PROVE  MidnightInv'
  <1>1. NoOperators' /\ CatchUpOfYesterday' /\ TodayAfterYesterday'
    BY DEF NoOperators, CatchUpOfYesterday, CatchingUp, TodayAfterYesterday, TypeOK,
           CommandOK
  <1>2. DigestsAreWhole'
    BY DigestsStay DEF DigestsAreWhole, InHand
  <1> QED BY <1>1, <1>2 DEF MidnightInv

LEMMA HandStays ==
    ASSUME TypeOK, TypeOK', [Next]_vars, MidnightInv, pc \in InHand,
           UNCHANGED <<key, upto, got>>
    PROVE  IsWhole(key, upto, got)'
  <1>1. key \in Keys /\ IsWhole(key, upto, got)
    BY DEF InHand, TypeOK, CommandOK, MidnightInv, DigestsAreWhole
  <1>2. \A k \in Keys : \A t, c : IsWhole(k, t, c) => (t = Midnight(k[2] + 1)
                     => k[2] < Day(now') /\ c = WholeDay(k)')
    BY WholeStays DEF IsWhole
  <1>3. upto = Midnight(key[2] + 1)
           => key[2] < Day(now') /\ \A k \in Keys : k = key => got = WholeDay(k)'
    BY <1>1, <1>2
  <1> QED BY <1>1, <1>3 DEF IsWhole, WholeDay

\* The day of the tick has begun.
LEMMA TodayBegan ==
    ASSUME TypeOK, MidnightInv
    PROVE  /\ Today \in Nat /\ Day(now) \in Nat /\ Today <= Day(now)
           /\ t1 \in Nat /\ t1 < Midnight(Today + 1)
  <1>1. t1 \in Nat /\ now \in Nat /\ t1 <= now
    BY DayType DEF TypeOK, FilesOK, CommandOK, MidnightInv, NoOperators
  <1>2. Today \in Nat /\ Day(now) \in Nat /\ Day(t1) = Today
    BY <1>1, DayBounds DEF Today
  <1>3. t1 < Midnight(Today + 1) /\ now < Midnight(Day(now) + 1)
    BY <1>1, <1>2, DayBounds
  <1>4. t1 < Midnight(Day(now) + 1)
    BY <1>1, <1>2, <1>3, MidnightOrder
  <1>5. Today < Day(now) + 1
    BY <1>1, <1>2, <1>4, DayOrder
  <1> QED BY <1>1, <1>2, <1>3, <1>5

LEMMA YesterdayStays ==
    ASSUME TypeOK, TypeOK', [Next]_vars, MidnightInv, NEW db \in Dbs,
           UNCHANGED <<t1, watermark>>, YesterdayIsIngested(db)
    PROVE  YesterdayIsIngested(db)'
  <1>1. CASE watermark[db] # Never /\ Day(watermark[db]) + 1 = Today
    <2> DEFINE y == <<db, Today - 1>>
    <2>1. watermark[db] \in Instants
      BY <1>1 DEF TypeOK, FilesOK, Marking
    <2>2. Day(watermark[db]) \in Days /\ Today - 1 = Day(watermark[db])
      <3>1. Day(watermark[db]) \in Days /\ Day(watermark[db]) \in Nat
        BY <2>1, DayType
      <3> QED BY <1>1, <3>1
    <2>3. Today - 1 < Day(now)
      BY <2>2, TodayBegan
    <2>4. y \in Keys /\ y[2] < Day(now) /\ Ingested(WholeDay(y))
      BY <1>1, <2>2, <2>3 DEF Keys, YesterdayIsIngested
    <2>5. \A k \in Keys : k[2] < Day(now) /\ Ingested(WholeDay(k))
             => \A e \in Notable \cap WholeDay(k)' : InTheWiki(e)'
      BY IngestedStays DEF Ingested
    <2>6. \A k \in Keys : k = y
             => \A e \in Notable \cap WholeDay(k)' : InTheWiki(e)'
      BY <2>4, <2>5
    <2> QED BY <2>4, <2>6 DEF YesterdayIsIngested, Ingested, WholeDay, Today
  <1>2. CASE ~(watermark[db] # Never /\ Day(watermark[db]) + 1 = Today)
    BY <1>2 DEF YesterdayIsIngested, Today
  <1> QED BY <1>1, <1>2

\* A catch-up that came through leaves yesterday to today.
LEMMA TurnInv ==
    ASSUME TypeOK, TypeOK', [Next]_vars, MidnightInv, pc \notin {"idle", "next"},
           NEW failed \in BOOLEAN, Turn(failed), WholeDaysAreIngested',
           UNCHANGED <<now, digest, watermark, opc>>,
           NEW k \in Keys, k = key,
           CatchingUp /\ ~failed => Ingested(WholeDay(k))'
    PROVE  MidnightInv'
  <1>1. UNCHANGED <<cmd, t1>> /\ t1' <= now' /\ opc' = "idle" /\ cmd' # "backfill"
    BY DEF Turn, NextDigest, MidnightInv, NoOperators
  <1>2. CASE ~CatchingUp
    <2>1. pc' = "next"
      BY <1>2 DEF Turn, NextDigest, Locals
    <2> QED BY <1>1, <2>1, Between
  <1>3. CASE CatchingUp
    <2>1. /\ pc' = "compact" /\ key' = <<key[1], Today>> /\ held' = failed
          /\ cmd = "tick" /\ key[2] = Today - 1
      BY <1>3 DEF Turn, NextDigest, Locals, CatchingUp, MidnightInv, CatchUpOfYesterday
    <2>2. Today' = Today /\ Today \in Nat
      BY <1>1, TodayBegan DEF Today
    <2>3. NoOperators' /\ CatchUpOfYesterday'
      BY <1>1, <2>1, <2>2 DEF NoOperators, CatchUpOfYesterday, CatchingUp
    <2>4. DigestsAreWhole'
      BY <2>1, DigestsStay DEF DigestsAreWhole, InHand
    <2>5. ~failed => YesterdayIsIngested(key[1])'
      <3>1. k = <<key[1], Today - 1>>
        BY <2>1 DEF Keys
      <3>2. <<key[1], Today - 1>>' = <<key[1], Today - 1>>
        BY <2>1, <2>2
      <3> QED BY <1>3, <2>1, <2>2, <3>1, <3>2 DEF YesterdayIsIngested
    <2>6. TodayAfterYesterday'
      BY <2>1, <2>5 DEF TodayAfterYesterday, YesterdayIsIngested
    <2> QED BY <2>3, <2>4, <2>6 DEF MidnightInv
  <1> QED BY <1>2, <1>3

\* The clock and the log move; the command does not.
LEMMA MidnightWorld ==
    ASSUME TypeOK, TypeOK', [Next]_vars, MidnightInv,
           \/ Advance \/ UNCHANGED vars
           \/ \E e \in Events, db \in Dbs : Log(e, db)
    PROVE  MidnightInv'
  <1>1. UNCHANGED <<files, command, operator>>
    BY DEF Advance, Log, vars
  <1>2. WholeDaysAreIngested' /\ \A k \in Keys : IsWhole(k, digest[k].to, digest[k].content)'
    BY <1>1, LedgerStays, DigestsStay DEF files
  <1>3. DigestsAreWhole'
    BY <1>1, <1>2, HandStays DEF DigestsAreWhole, command
  <1>4. t1 <= now'
    <2>1. t1 \in Nat /\ now \in Nat /\ now' \in Nat
      BY DayType DEF TypeOK, FilesOK, CommandOK
    <2> QED BY <2>1, Forward DEF MidnightInv, NoOperators
  <1>5. NoOperators' /\ CatchUpOfYesterday'
    BY <1>1, <1>4 DEF MidnightInv, NoOperators, CatchUpOfYesterday, CatchingUp, Today,
                      files, command, operator
  <1>6. TodayAfterYesterday'
    <2>1. pc \in {"compact", "emit", "mark", "save"} => key[1] \in Dbs
      BY DEF TypeOK, CommandOK, Keys
    <2>2. ASSUME key[1] \in Dbs, YesterdayIsIngested(key[1])
          PROVE  YesterdayIsIngested(key[1])'
      <3>1. \A db \in Dbs : YesterdayIsIngested(db) => YesterdayIsIngested(db)'
        BY <1>1, YesterdayStays DEF files, command
      <3>2. \A db \in Dbs : db = key[1] => YesterdayIsIngested(db)'
        BY <2>2, <3>1
      <3> QED BY <1>1, <2>2, <3>2 DEF YesterdayIsIngested, Ingested, WholeDay, EventsIn,
                                      command
    <2>3. Today' = Today
      BY <1>1 DEF Today, command
    <2> QED BY <1>1, <2>1, <2>2, <2>3
            DEF MidnightInv, TodayAfterYesterday, files, command
  <1> QED BY <1>2, <1>3, <1>5, <1>6 DEF MidnightInv

LEMMA MidnightEntry ==
    ASSUME TypeOK, TypeOK', [Next]_vars, MidnightInv,
           \/ TickStarts \/ RetryStarts
           \/ \E k \in Keys : IngestStarts(k)
           \/ TakesDb \/ TakesDigest \/ CommandEnds \/ Kill
    PROVE  MidnightInv'
  <1>1. /\ UNCHANGED <<now, log, digest, ledger, wiki, watermark, operator>>
        /\ opc' = "idle"
    BY DEF TickStarts, RetryStarts, IngestStarts, Start, TakesDb, TakesDigest,
           CommandEnds, Kill, world, files, operator, MidnightInv, NoOperators
  <1>2. WholeDaysAreIngested'
    BY <1>1, LedgerStays
  <1>3. now \in Nat /\ t1 <= now
    BY DayType DEF TypeOK, FilesOK, MidnightInv, NoOperators
  <1>4. CASE \/ TickStarts \/ RetryStarts
             \/ \E k \in Keys : IngestStarts(k)
             \/ CommandEnds \/ Kill
    <2>1. pc' \in {"idle", "next"} /\ cmd' # "backfill"
      BY <1>4 DEF TickStarts, RetryStarts, IngestStarts, Start, CommandEnds, Kill, Locals,
                  MidnightInv, NoOperators
    <2>2. t1' \in {t1, now, 0}
      BY <1>4 DEF TickStarts, RetryStarts, IngestStarts, Start, CommandEnds, Kill
    <2>3. t1' <= now'
      BY <1>1, <1>3, <2>2
    <2> QED BY <1>1, <1>2, <2>1, <2>3, Between
  <1>5. CASE TakesDigest
    <2>1. pc' = "ingest" /\ UNCHANGED <<cmd, t1>> /\ cmd # "tick" /\ cmd # "backfill"
      BY <1>5 DEF TakesDigest, Locals, MidnightInv, NoOperators
    <2>2. DigestsAreWhole'
      BY <1>1, <2>1, DigestsStay DEF DigestsAreWhole, InHand
    <2>3. NoOperators' /\ CatchUpOfYesterday' /\ TodayAfterYesterday'
      BY <1>1, <1>3, <2>1 DEF NoOperators, CatchUpOfYesterday, CatchingUp, TodayAfterYesterday
    <2> QED BY <1>2, <2>2, <2>3 DEF MidnightInv
  <1>6. CASE TakesDb
    <2>1. PICK k \in todo :
             Locals("compact", <<k[1], CatchupDay(watermark[k[1]])>>, {}, Never)
      BY <1>6 DEF TakesDb
    <2>2. /\ pc' = "compact" /\ held' = FALSE /\ UNCHANGED <<cmd, t1>> /\ cmd = "tick"
          /\ key'[1] = k[1] /\ key'[2] = CatchupDay(watermark[k[1]])
      BY <1>6, <2>1 DEF TakesDb, Locals
    <2>3. Today \in Nat /\ Today' = Today
      BY <2>2, TodayBegan DEF Today
    <2>4. key'[2] \in {Today - 1, Today}
      BY <2>2 DEF CatchupDay
    <2>5. NoOperators' /\ CatchUpOfYesterday'
      BY <1>1, <1>3, <2>2, <2>3, <2>4 DEF NoOperators, CatchUpOfYesterday, CatchingUp
    <2>6. DigestsAreWhole'
      BY <1>1, <2>2, DigestsStay DEF DigestsAreWhole, InHand
    <2>7. key'[2] = Today => YesterdayIsIngested(key[1])'
      <3> DEFINE mark == watermark[k[1]]
      <3>1. mark \in Instants \cup {Never}
        BY DEF TypeOK, FilesOK, CommandOK, Marking, Keys
      <3>2. CASE mark = Never
        BY <1>1, <2>2, <3>2 DEF YesterdayIsIngested
      <3>3. CASE mark # Never /\ key'[2] = Today
        <4>1. mark \in Nat /\ Day(mark) \in Nat /\ Midnight(Today) \in Nat
          BY <2>3, <3>1, <3>3, DayType, DayBounds, MidnightOrder
        <4>2. ~(mark < Midnight(Today))
          BY <2>2, <2>3, <3>3 DEF CatchupDay
        <4>3. ~(Day(mark) < Today)
          BY <2>3, <4>1, <4>2, DayOrder
        <4>4. Day(mark) + 1 # Today
          BY <2>3, <4>1, <4>3
        <4> QED BY <1>1, <2>2, <2>3, <4>4 DEF YesterdayIsIngested
      <3> QED BY <3>2, <3>3
    <2>8. TodayAfterYesterday'
      BY <2>2, <2>3, <2>7 DEF TodayAfterYesterday
    <2> QED BY <1>2, <2>5, <2>6, <2>8 DEF MidnightInv
  <1> QED BY <1>4, <1>5, <1>6

LEMMA MidnightCompaction ==
    ASSUME TypeOK, TypeOK', [Next]_vars, MidnightInv,
           Compacts \/ CompactFails \/ Emits \/ Marks \/ Saves
    PROVE  MidnightInv'
  <1>1. /\ UNCHANGED <<now, log, ledger, wiki, operator>>
        /\ cmd = "tick" /\ opc' = "idle" /\ key \in Keys /\ key[2] \in Nat
        /\ key[2] <= Today /\ t1 <= now
    BY DayType
       DEF Compacts, CompactFails, Emits, Marks, Saves, world, files, operator,
           TypeOK, CommandOK, Keys, MidnightInv, NoOperators
  <1>2. WholeDaysAreIngested'
    BY <1>1, LedgerStays
  <1>3. Today \in Nat /\ Day(now) \in Nat /\ Today <= Day(now)
    BY TodayBegan
  <1>4. CASE CompactFails
    <2>1. Turn(TRUE) /\ pc \notin {"idle", "next"} /\ UNCHANGED <<now, digest, watermark, opc>>
      BY <1>1, <1>4 DEF CompactFails, files, operator
    <2> QED BY <1>1, <1>2, <2>1, TurnInv
  <1>5. CASE Compacts
    <2>1. /\ pc' = "emit" /\ key' = key /\ upto' = WindowEnd
          /\ got' = DayEvents(key, WindowEnd)
          /\ UNCHANGED <<cmd, t1, held, digest, watermark>>
      BY <1>1, <1>5 DEF Compacts, Locals
    <2>2. Today' = Today
      BY <2>1 DEF Today
    <2>3. CASE key[2] = Today
      <3>1. upto' = t1 /\ t1 < Midnight(key[2] + 1) /\ t1 \in Nat
        BY <1>1, <2>1, <2>3, TodayBegan DEF WindowEnd
      <3>2. upto' # Midnight(key[2] + 1)
        BY <1>1, <3>1, MidnightOrder
      <3>3. DigestsAreWhole'
        BY <2>1, <3>2, DigestsStay DEF DigestsAreWhole, IsWhole
      <3>4. NoOperators' /\ CatchUpOfYesterday'
        BY <1>1, <1>3, <2>1, <2>2, <2>3 DEF NoOperators, CatchUpOfYesterday, CatchingUp
      <3>5. ~held => YesterdayIsIngested(key[1])
        BY <1>1, <1>5, <2>3 DEF MidnightInv, TodayAfterYesterday, Compacts
      <3>6. ~held' => YesterdayIsIngested(key[1])'
        BY <1>1, <2>1, <2>2, <3>5
           DEF YesterdayIsIngested, Ingested, WholeDay, EventsIn, InTheWiki
      <3>7. TodayAfterYesterday'
        BY <2>1, <3>1, <3>6 DEF TodayAfterYesterday
      <3> QED BY <1>2, <3>3, <3>4, <3>7 DEF MidnightInv
    <2>4. CASE key[2] < Today
      <3>1. CatchingUp /\ key[2] = Today - 1 /\ ~held
        BY <1>1, <1>5, <2>4 DEF CatchingUp, MidnightInv, CatchUpOfYesterday, Compacts
      <3>2. upto' = Midnight(key[2] + 1) /\ got' = WholeDay(key)
        BY <1>3, <2>1, <2>4 DEF WindowEnd, DayEvents, WholeDay
      <3>3. IsWhole(key, upto, got)'
        BY <1>1, <1>3, <2>1, <2>4, <3>2 DEF IsWhole, WholeDay, EventsIn
      <3>4. DigestsAreWhole'
        BY <2>1, <3>3, DigestsStay DEF DigestsAreWhole
      <3>5. NoOperators' /\ CatchUpOfYesterday' /\ TodayAfterYesterday'
        BY <1>1, <1>3, <2>1, <2>2, <2>4, <3>1, <3>2
           DEF NoOperators, CatchUpOfYesterday, TodayAfterYesterday
      <3> QED BY <1>2, <3>4, <3>5 DEF MidnightInv
    <2> QED BY <1>1, <1>3, <2>3, <2>4
  <1>6. CASE Emits
    <2>1. /\ digest' = [digest EXCEPT ![key] = [to |-> upto, content |-> got]]
          /\ pc' \in {"decide", "mark"} /\ pc = "emit"
          /\ pc' = "mark" => ~CatchingUp /\ ~held
          /\ UNCHANGED <<cmd, key, t1, held, got, upto, watermark>>
          /\ DOMAIN digest = Keys
      BY <1>1, <1>6 DEF Emits, TypeOK, FilesOK
    <2>2. Today' = Today /\ CatchingUp' = CatchingUp
      BY <1>1, <2>1 DEF Today, CatchingUp
    <2>3. IsWhole(key, upto, got)'
      BY <2>1, HandStays DEF InHand
    <2>4. \A k \in Keys : IsWhole(k, digest[k].to, digest[k].content)'
      <3> SUFFICES ASSUME NEW k \in Keys
                   PROVE  IsWhole(k, digest[k].to, digest[k].content)'
        OBVIOUS
      <3>1. CASE k = key
        BY <1>1, <2>1, <2>3, <3>1 DEF IsWhole, WholeDay, EventsIn
      <3>2. CASE k # key
        <4>1. digest'[k] = digest[k] /\ IsWhole(k, digest[k].to, digest[k].content)
          BY <2>1, <3>2 DEF MidnightInv, DigestsAreWhole
        <4> QED BY <1>1, <4>1 DEF IsWhole, WholeDay, EventsIn
      <3> QED BY <3>1, <3>2
    <2>5. DigestsAreWhole'
      BY <2>3, <2>4 DEF DigestsAreWhole
    <2>6. digest'[key'].to = upto
      BY <1>1, <2>1
    <2>7. NoOperators' /\ CatchUpOfYesterday'
      BY <1>1, <2>1, <2>2, <2>6 DEF MidnightInv, NoOperators, CatchUpOfYesterday
    <2>8. YesterdayIsIngested(key[1]) => YesterdayIsIngested(key[1])'
      BY <1>1, <2>1, <2>2 DEF YesterdayIsIngested, Ingested, WholeDay, EventsIn, InTheWiki
    <2>9. TodayAfterYesterday'
      BY <1>1, <2>1, <2>2, <2>8 DEF MidnightInv, TodayAfterYesterday
    <2> QED BY <1>2, <2>5, <2>7, <2>9 DEF MidnightInv
  <1>7. CASE Marks
    <2>1. /\ copy' = [watermark EXCEPT ![key[1]] = LeastOf(upto, now)]
          /\ pc' = "save" /\ pc = "mark"
          /\ UNCHANGED <<cmd, key, t1, held, got, upto, watermark, digest>>
      BY <1>7 DEF Marks, files
    <2>2. key[2] = Today /\ ~CatchingUp /\ upto = t1 /\ ~held /\ Today' = Today
      BY <1>1, <1>3, <2>1
         DEF MidnightInv, CatchUpOfYesterday, CatchingUp, TodayAfterYesterday, Today
    <2>3. LeastOf(upto, now) = t1
      BY <1>1, <2>2 DEF LeastOf
    <2>4. DigestsAreWhole'
      BY <2>1, HandStays, DigestsStay DEF DigestsAreWhole, InHand
    <2>5. NoOperators' /\ CatchUpOfYesterday'
      BY <1>1, <1>3, <2>1, <2>2 DEF NoOperators, CatchUpOfYesterday, CatchingUp
    <2>6. YesterdayIsIngested(key[1])'
      BY <1>1, <2>1, <2>2
         DEF YesterdayIsIngested, Ingested, WholeDay, EventsIn, InTheWiki, MidnightInv,
             TodayAfterYesterday
    <2>7. TodayAfterYesterday'
      BY <2>1, <2>2, <2>3, <2>6 DEF TodayAfterYesterday
    <2> QED BY <1>2, <2>4, <2>5, <2>7 DEF MidnightInv
  <1>8. CASE Saves
    <2>1. /\ pc' = "decide" /\ pc = "save"
          /\ UNCHANGED <<cmd, key, t1, held, got, upto, digest>>
      BY <1>1, <1>8 DEF Saves
    <2>2. key[2] = Today /\ Today' = Today
      BY <1>1, <1>3, <2>1 DEF MidnightInv, CatchUpOfYesterday, CatchingUp, Today
    <2>3. DigestsAreWhole'
      BY <2>1, HandStays, DigestsStay DEF DigestsAreWhole, InHand
    <2>4. NoOperators' /\ CatchUpOfYesterday' /\ TodayAfterYesterday'
      BY <1>1, <1>3, <2>1, <2>2
         DEF NoOperators, CatchUpOfYesterday, CatchingUp, TodayAfterYesterday
    <2> QED BY <1>2, <2>3, <2>4 DEF MidnightInv
  <1> QED BY <1>4, <1>5, <1>6, <1>7, <1>8

\* A content the wiki was given is ingested.
LEMMA GivenIsIngested ==
    ASSUME NEW k \in Keys, NEW content \in wiki[k]
    PROVE  Ingested(content)
  BY DEF Ingested, InTheWiki

\* What `decide` and `_ingest` leave out is in the wiki, or not notable.
LEMMA LeftOutIsIngested ==
    ASSUME TypeOK, LedgerInv, MidnightInv, CatchingUp,
           \/ Skips
           \/ pc = "ingest" /\ Unchanged(key, digest[key].content)
    PROVE  Ingested(WholeDay(key))
  <1>1. key \in Keys /\ pc \in {"decide", "ingest"}
    BY DEF Skips, TypeOK, CommandOK
  <1>2. CASE Skips
    <2>1. upto = Midnight(key[2] + 1) /\ pc = "decide" /\ ~Wakes
      BY <1>2 DEF Skips, MidnightInv, CatchUpOfYesterday
    <2>2. got = WholeDay(key)
      BY <2>1 DEF MidnightInv, DigestsAreWhole, IsWhole, InHand
    <2>3. CASE AlreadyIngested
      BY <1>1, <2>1, <2>3 DEF AlreadyIngested, MidnightInv, WholeDaysAreIngested
    <2>4. CASE Unchanged(key, got)
      BY <1>1, <2>2, <2>4, GivenIsIngested DEF Unchanged, LedgerInv, LedgerTellsTheTruth
    <2>5. CASE got \cap Notable = {}
      BY <2>2, <2>5 DEF Ingested
    <2> QED BY <2>1, <2>3, <2>4, <2>5 DEF Wakes
  <1>3. CASE pc = "ingest" /\ Unchanged(key, digest[key].content)
    <2>1. digest[key].to = Midnight(key[2] + 1)
      BY <1>3 DEF MidnightInv, CatchUpOfYesterday
    <2>2. digest[key].content = WholeDay(key)
      BY <1>1, <2>1 DEF MidnightInv, DigestsAreWhole, IsWhole
    <2> QED BY <1>1, <1>3, <2>2, GivenIsIngested
            DEF Unchanged, LedgerInv, LedgerTellsTheTruth
  <1> QED BY <1>2, <1>3

LEMMA MidnightIngest ==
    ASSUME TypeOK, TypeOK', LedgerInv, [Next]_vars, MidnightInv,
           Skips \/ Wake \/ ReadsDigest \/ Refused \/ StageFails \/ Publishes \/ Records
    PROVE  MidnightInv'
  <1>1. /\ UNCHANGED <<now, log, digest, watermark, operator>>
        /\ opc' = "idle" /\ cmd # "backfill" /\ key \in Keys /\ t1 <= now
        /\ pc \notin {"idle", "next"}
    BY DEF Skips, Wake, ReadsDigest, Refused, StageFails, Publishes, Records, world,
           files, operator, TypeOK, CommandOK, MidnightInv, NoOperators
  <1>2. ASSUME NEW content, content = WholeDay(key), Ingested(content),
               wiki' = wiki
        PROVE  \A k \in Keys : k = key => Ingested(WholeDay(k))'
    BY <1>1, <1>2 DEF Ingested, InTheWiki, WholeDay, EventsIn
  <1>3. CASE Skips
    <2>1. Turn(FALSE) /\ UNCHANGED <<opc, ledger, wiki>>
      BY <1>3 DEF Skips, files, operator
    <2>2. CatchingUp => \A k \in Keys : k = key => Ingested(WholeDay(k))'
      BY <1>2, <1>3, <2>1, LeftOutIsIngested
    <2>3. WholeDaysAreIngested'
      BY <2>1, LedgerStays
    <2> QED BY <1>1, <2>1, <2>2, <2>3, TurnInv
  <1>4. CASE Wake
    <2>1. /\ pc' = "ingest" /\ pc = "decide"
          /\ UNCHANGED <<cmd, key, t1, held, ledger>>
      BY <1>4 DEF Wake, Locals, files
    <2>2. Today' = Today /\ (CatchingUp' => CatchingUp)
      BY <2>1 DEF Today, CatchingUp
    <2>3. WholeDaysAreIngested' /\ DigestsAreWhole'
      BY <1>1, <2>1, LedgerStays, DigestsStay DEF DigestsAreWhole, InHand
    <2>4. NoOperators' /\ CatchUpOfYesterday' /\ TodayAfterYesterday'
      BY <1>1, <2>1, <2>2
         DEF MidnightInv, NoOperators, CatchUpOfYesterday, TodayAfterYesterday
    <2> QED BY <2>3, <2>4 DEF MidnightInv
  <1>5. CASE ReadsDigest
    <2>1. UNCHANGED <<opc, ledger, wiki>> /\ pc = "ingest"
      BY <1>5 DEF ReadsDigest, files, operator
    <2>2. WholeDaysAreIngested'
      BY <2>1, LedgerStays
    <2>3. CASE Unchanged(key, digest[key].content)
      <3>1. Turn(FALSE)
        BY <1>5, <2>3 DEF ReadsDigest
      <3>2. CatchingUp => \A k \in Keys : k = key => Ingested(WholeDay(k))'
        BY <1>2, <2>1, <2>3, LeftOutIsIngested
      <3> QED BY <1>1, <2>1, <2>2, <3>1, <3>2, TurnInv
    <2>4. CASE ~Unchanged(key, digest[key].content)
      <3>1. /\ pc' = "agent" /\ key' = key
            /\ got' = digest[key].content /\ upto' = digest[key].to
            /\ UNCHANGED <<cmd, t1, held>>
        BY <1>5, <2>4 DEF ReadsDigest, Locals
      <3>2. Today' = Today /\ (CatchingUp' => CatchingUp)
        BY <2>1, <3>1 DEF Today, CatchingUp
      <3>3. \A k \in Keys : IsWhole(k, digest[k].to, digest[k].content)'
        BY <1>1, DigestsStay
      <3>4. IsWhole(key, upto, got)'
        BY <1>1, <3>1, <3>3 DEF IsWhole, WholeDay, EventsIn
      <3>5. DigestsAreWhole'
        BY <3>3, <3>4 DEF DigestsAreWhole
      <3>6. NoOperators' /\ CatchUpOfYesterday' /\ TodayAfterYesterday'
        BY <1>1, <2>1, <3>1, <3>2
           DEF MidnightInv, NoOperators, CatchUpOfYesterday, TodayAfterYesterday
      <3> QED BY <2>2, <3>5, <3>6 DEF MidnightInv
    <2> QED BY <2>3, <2>4
  <1>6. CASE Refused
    <2>1. Turn(TRUE) /\ UNCHANGED <<opc, ledger>>
      BY <1>6 DEF Refused, files, operator
    <2> QED BY <1>1, <2>1, LedgerStays, TurnInv
  <1>7. CASE StageFails
    <2>1. PICK retryable \in BOOLEAN :
             ledger' = [ledger EXCEPT ![key] = Entry("failed", got, Never, retryable)]
      BY <1>7 DEF StageFails
    <2>2. Turn(TRUE) /\ UNCHANGED opc /\ DOMAIN ledger = Keys
      BY <1>7 DEF StageFails, operator, TypeOK, FilesOK, Ledgers
    <2>3. \A k \in Keys : ledger'[k].status = "ingested" => ledger'[k] = ledger[k]
      BY <1>1, <2>1, <2>2 DEF Entry
    <2>4. WholeDaysAreIngested'
      BY <2>3, IngestedStays DEF MidnightInv, WholeDaysAreIngested
    <2> QED BY <1>1, <2>2, <2>4, TurnInv
  <1>8. CASE Publishes
    <2>1. /\ pc' = "record" /\ pc = "agent"
          /\ UNCHANGED <<cmd, key, t1, held, got, upto, ledger>>
      BY <1>8 DEF Publishes
    <2>2. Today' = Today /\ (CatchingUp' => CatchingUp)
      BY <2>1 DEF Today, CatchingUp
    <2>3. WholeDaysAreIngested' /\ DigestsAreWhole'
      BY <1>1, <2>1, LedgerStays, DigestsStay, HandStays DEF DigestsAreWhole, InHand
    <2>4. NoOperators' /\ CatchUpOfYesterday' /\ TodayAfterYesterday'
      BY <1>1, <2>1, <2>2
         DEF MidnightInv, NoOperators, CatchUpOfYesterday, TodayAfterYesterday
    <2> QED BY <2>3, <2>4 DEF MidnightInv
  <1>9. CASE Records
    <2>1. /\ ledger' = [ledger EXCEPT ![key] = Entry("ingested", got, upto, FALSE)]
          /\ Turn(FALSE) /\ UNCHANGED <<opc, wiki>> /\ DOMAIN ledger = Keys
          /\ pc = "record" /\ got \in wiki[key]
      BY <1>9 DEF Records, operator, TypeOK, FilesOK, Ledgers, LedgerInv
    <2>2. IsWhole(key, upto, got) /\ Ingested(got)
      BY <1>1, <2>1, GivenIsIngested DEF MidnightInv, DigestsAreWhole, InHand
    <2>3. \A k \in Keys : k # key => ledger'[k] = ledger[k]
      BY <2>1
    <2>4. upto = Midnight(key[2] + 1)
             => /\ key[2] < Day(now)
                /\ \A k \in Keys : k = key => Ingested(WholeDay(k))'
      BY <1>2, <2>1, <2>2 DEF IsWhole
    <2>5. ASSUME NEW k \in Keys, ledger'[k].status = "ingested",
                 ledger'[k].to = Midnight(k[2] + 1)
          PROVE  k[2] < Day(now)' /\ Ingested(WholeDay(k))'
      <3>1. CASE k = key
        BY <1>1, <2>1, <2>4, <2>5, <3>1 DEF Entry
      <3>2. CASE k # key
        BY <2>3, <2>5, <3>2, IngestedStays DEF MidnightInv, WholeDaysAreIngested
      <3> QED BY <3>1, <3>2
    <2>6. WholeDaysAreIngested'
      BY <2>5 DEF WholeDaysAreIngested
    <2>7. CatchingUp => upto = Midnight(key[2] + 1)
      BY <2>1 DEF MidnightInv, CatchUpOfYesterday
    <2> QED BY <1>1, <2>1, <2>4, <2>6, <2>7, TurnInv
  <1> QED BY <1>3, <1>4, <1>5, <1>6, <1>7, <1>8, <1>9

LEMMA MidnightInit ==
    ASSUME Init
    PROVE  MidnightInv
  <1>1. ASSUME NEW k \in Keys
        PROVE  Midnight(k[2] + 1) # Never
    <2>1. k[2] \in Days
      BY DEF Keys
    <2>2. Midnight(k[2] + 1) \in Nat
      BY <2>1, DayType
    <2> QED BY <2>2 DEF Never
  <1>2. DigestsAreWhole
    BY <1>1 DEF Init, DigestsAreWhole, IsWhole, InHand, NoDigest
  <1>3. WholeDaysAreIngested
    BY DEF Init, WholeDaysAreIngested, NoEntry
  <1>4. NoOperators /\ CatchUpOfYesterday /\ TodayAfterYesterday
    BY DEF Init, NoOperators, CatchUpOfYesterday, CatchingUp, TodayAfterYesterday
  <1> QED BY <1>2, <1>3, <1>4 DEF MidnightInv

LEMMA MidnightStep ==
    ASSUME MaxCompacts = 0, MaxBackfills = 0,
           TypeOK, TypeOK', LedgerInv, [Next]_vars, MidnightInv
    PROVE  MidnightInv'
  <1>1. spent["compacts"] \in Nat /\ spent["backfills"] \in Nat /\ opc = "idle"
    BY DEF TypeOK, FilesOK, Bounds, MidnightInv, NoOperators
  <1>2. ~ \/ \E from, to \in Days : BackfillStarts(from, to)
          \/ \E k \in Keys, to \in 1 .. Midnight(Day(LastInstant) + 1) :
                OperatorCompacts(k, to)
          \/ OperatorEmits \/ OperatorMarks \/ OperatorSaves \/ OperatorDies
    BY <1>1 DEF BackfillStarts, OperatorCompacts, OperatorEmits, OperatorMarks,
                OperatorSaves, OperatorDies
  <1> QED BY <1>2, MidnightWorld, MidnightEntry, MidnightCompaction, MidnightIngest
          DEF Next, Steps

LEMMA NothingIsLeft ==
    ASSUME TypeOK, MidnightInv, [Next]_vars, NEW db \in Dbs
    PROVE  LeavesNothing(db)
  <1>1. watermark[db] \in Instants \cup {Never}
    BY DEF TypeOK, FilesOK, Marking
  <1>2. CASE watermark' = watermark
    <2>1. watermark[db] # Never => Day(watermark[db]) \in Nat
      BY <1>1, DayType
    <2>2. watermark[db] # Never => Day(watermark[db]) # Day(watermark[db]) + 1
      BY <2>1
    <2> QED BY <1>2, <2>2 DEF LeavesNothing
  <1>3. CASE Saves
    <2>1. /\ cmd = "tick" /\ pc = "save" /\ watermark' = copy /\ key \in Keys
          /\ key[2] <= Today /\ ~CatchingUp /\ key[2] \in Nat
      BY <1>3, DayType DEF Saves, TypeOK, CommandOK, Keys, MidnightInv, NoOperators,
                           CatchUpOfYesterday
    <2>2. key[2] = Today /\ Today \in Nat
      BY <2>1, TodayBegan DEF CatchingUp
    <2>3. watermark' = [watermark EXCEPT ![key[1]] = t1] /\ YesterdayIsIngested(key[1])
      BY <2>1, <2>2 DEF MidnightInv, TodayAfterYesterday
    <2>4. CASE db # key[1]
      <3>1. watermark'[db] = watermark[db]
        BY <2>3, <2>4
      <3>2. watermark[db] # Never => Day(watermark[db]) \in Nat
        BY <1>1, DayType
      <3>3. watermark[db] # Never => Day(watermark[db]) # Day(watermark[db]) + 1
        BY <3>2
      <3> QED BY <3>1, <3>3 DEF LeavesNothing
    <2>5. CASE db = key[1]
      <3>1. watermark'[db] = t1 /\ Day(t1) = Today
        BY <2>3, <2>5 DEF TypeOK, FilesOK, Marking, Today
      <3>2. CASE watermark[db] # Never /\ Today = Day(watermark[db]) + 1
        <4>1. Day(watermark[db]) \in Nat
          BY <1>1, <3>2, DayType
        <4>2. Today - 1 = Day(watermark[db]) /\ Today - 1 + 1 = Today
          BY <3>2, <4>1
        <4>3. Ingested(WholeDay(<<db, Today - 1>>))
          BY <2>3, <2>5, <3>2 DEF YesterdayIsIngested
        <4>4. WholeDay(<<db, Today - 1>>)
                 = EventsIn(db, Midnight(Day(watermark[db])), Midnight(Today))
          BY <4>2 DEF WholeDay
        <4> QED BY <3>1, <4>3, <4>4 DEF LeavesNothing, Ingested
      <3>3. CASE ~(watermark[db] # Never /\ Today = Day(watermark[db]) + 1)
        BY <3>1, <3>3 DEF LeavesNothing
      <3> QED BY <3>2, <3>3
    <2> QED BY <2>4, <2>5
  <1>4. watermark' = watermark \/ Saves
    <2>1. ~OperatorSaves
      BY DEF OperatorSaves, MidnightInv, NoOperators
    <2> QED BY <2>1
            DEF Next, Steps, vars, files, Advance, Log, TickStarts, RetryStarts,
                IngestStarts, BackfillStarts, Start, TakesDb, TakesDigest, CommandEnds,
                Compacts, CompactFails, Emits, Marks, Skips, Wake, ReadsDigest, Refused,
                StageFails, Publishes, Records, Kill, OperatorCompacts, OperatorEmits,
                OperatorMarks, OperatorDies
  <1> QED BY <1>2, <1>3, <1>4

\* Ticks, retries and single ingests alone leave nothing behind at midnight,
\* for any number of databases and days, whatever fails and is killed: what
\* TLC finds after a `dbwiki compact` takes an operator.
THEOREM TicksLeaveNothing ==
    ASSUME MaxCompacts = 0, MaxBackfills = 0
    PROVE  Spec => NothingIsLeftAtMidnight
  <1>1. Init => LedgerInv /\ MidnightInv
    <2>1. Init => LedgerInv
      BY DEF Init, LedgerInv, LedgerTellsTheTruth, NoEntry
    <2> QED BY <2>1, MidnightInit
  <1>2. TypeOK /\ TypeOK' /\ LedgerInv /\ MidnightInv /\ [Next]_vars
           => LedgerInv' /\ MidnightInv'
    BY LedgerStep, MidnightStep
  <1>3. TypeOK /\ MidnightInv /\ [Next]_vars => \A db \in Dbs : LeavesNothing(db)
    BY NothingIsLeft
  <1> QED BY <1>1, <1>2, <1>3, TypeCorrect, PTL DEF Spec, NothingIsLeftAtMidnight
-----------------------------------------------------------------------------
(* Once.  Without operator commands the digest of a day only grows: each   *)
(* tick reads from midnight to a later end, over a log that only grows.  So *)
(* a content the wiki was given and which is the digest's again has been   *)
(* the digest's ever since, and the ledger still has its entry.            *)

\* A digest holds what was logged up to its end, and ends when it was read.
OfTheLog(k) ==
    /\ digest[k].content \subseteq DayEvents(k, digest[k].to)
    /\ digest[k].to <= Midnight(k[2] + 1) /\ digest[k].to <= now
    /\ cmd = "tick" => digest[k].to <= t1

DigestsGrow ==
    /\ \A k \in Keys : OfTheLog(k)
    /\ pc = "emit" => /\ digest[key].content \subseteq got
                      /\ got \subseteq DayEvents(key, upto)
                      /\ upto <= Midnight(key[2] + 1) /\ upto <= t1

GivenByDigests == \A k \in Keys : \A content \in wiki[k] : content \subseteq digest[k].content

\* The wiki has the digest as it is: the ledger says so, or the process that
\* published it has not come to it, or died before it did.
GivenIsKnown ==
    \A k \in Keys : digest[k].content \in wiki[k] =>
        \/ <<k, digest[k].content>> \in orphans
        \/ Unchanged(k, digest[k].content)
        \/ pc = "record" /\ key = k

AgentIsOfDigest == pc \in {"agent", "record"} => got = digest[key].content
AgentIsNew == pc = "agent" /\ got \in wiki[key] => <<key, got>> \in orphans

OnceInv ==
    /\ DigestsGrow /\ GivenByDigests
    /\ GivenIsKnown /\ AgentIsOfDigest /\ AgentIsNew

\* A log that only grows.
LEMMA LogGrows ==
    ASSUME TypeOK, [Next]_vars
    PROVE  \A e \in Events : log[e] # Unlogged => log'[e] = log[e]
  <1>1. ASSUME NEW e \in Events, NEW db \in Dbs, Log(e, db)
        PROVE  \A f \in Events : log[f] # Unlogged => log'[f] = log[f]
    BY <1>1 DEF Log, TypeOK, FilesOK
  <1>2. log' = log \/ \E e \in Events, db \in Dbs : Log(e, db)
    BY DEF Next, Steps, vars, world, Advance, TickStarts, RetryStarts,
           IngestStarts, BackfillStarts, Start, TakesDb, TakesDigest, CommandEnds,
           Compacts, CompactFails, Emits, Marks, Saves, Skips, Wake, ReadsDigest,
           Refused, StageFails, Publishes, Records, Kill, OperatorCompacts,
           OperatorEmits, OperatorMarks, OperatorSaves, OperatorDies
  <1> QED BY <1>1, <1>2

LEMMA LaterHoldsMore ==
    ASSUME TypeOK, NEW k, NEW a \in Int, NEW b \in Int, a <= b
    PROVE  DayEvents(k, a) \subseteq DayEvents(k, b)
  <1> SUFFICES ASSUME NEW e \in DayEvents(k, a)
               PROVE  e \in DayEvents(k, b)
    OBVIOUS
  <1>1. e \in Events /\ log[e] # Unlogged /\ log[e].at < a
    BY DEF DayEvents, EventsIn
  <1>2. log[e].at \in Nat
    BY <1>1, DayType DEF TypeOK, FilesOK
  <1>3. log[e].at < b
    BY <1>1, <1>2
  <1> QED BY <1>1, <1>3 DEF DayEvents, EventsIn

LEMMA DigestParts ==
    ASSUME TypeOK, NEW k \in Keys
    PROVE  /\ digest[k].to \in Int /\ digest[k].content \subseteq Events
           /\ now \in Nat /\ t1 \in Nat /\ k[2] \in Nat /\ Midnight(k[2] + 1) \in Nat
  <1>1. digest[k] \in [to : Windows, content : SUBSET Events] /\ k[2] \in Days
    BY DEF TypeOK, FilesOK, Keys
  <1>2. now \in Instants /\ t1 \in Instants
    BY DEF TypeOK, FilesOK, CommandOK
  <1>3. now \in Nat /\ t1 \in Nat /\ k[2] \in Nat /\ Midnight(k[2] + 1) \in Nat
    BY <1>1, <1>2, DayType
  <1>4. digest[k].to \in Windows /\ digest[k].content \subseteq Events
    BY <1>1
  <1> QED BY <1>3, <1>4 DEF Windows, Never

\* What a digest file that is left alone promises.
LEMMA DigestHolds ==
    ASSUME TypeOK, TypeOK', [Next]_vars, DigestsGrow, NEW k \in Keys,
           digest'[k] = digest[k],
           cmd' = "tick" => t1' = now \/ (cmd = "tick" /\ t1' = t1)
    PROVE  OfTheLog(k)'
  <1>1. OfTheLog(k)
    BY DEF DigestsGrow
  <1>2. now <= now' /\ now \in Nat /\ now' \in Nat /\ digest[k].to \in Int
    BY Forward, DigestParts, DayType DEF TypeOK, FilesOK
  <1>3. DayEvents(k, digest[k].to) \subseteq DayEvents(k, digest[k].to)'
    BY LogGrows DEF DayEvents, EventsIn
  <1>4. cmd' = "tick" => digest[k].to <= t1'
    BY <1>1, <1>2 DEF OfTheLog
  <1>5. digest'[k].content \subseteq DayEvents(k, digest[k].to)'
    BY <1>1, <1>3 DEF OfTheLog
  <1> QED BY <1>1, <1>2, <1>4, <1>5 DEF OfTheLog

\* Steps that leave the files of the ingest alone, outside a stage.
LEMMA OnceStill ==
    ASSUME TypeOK, TypeOK', [Next]_vars, OnceInv, UNCHANGED <<digest, wiki, ledger, orphans>>,
           pc # "record", pc' \notin {"emit", "agent", "record"},
           cmd' = "tick" => t1' = now \/ (cmd = "tick" /\ t1' = t1)
    PROVE  OnceInv'
  <1>1. DigestsGrow'
    BY DigestHolds DEF OnceInv, DigestsGrow
  <1>2. GivenIsKnown' /\ GivenByDigests'
    BY DEF OnceInv, GivenIsKnown, GivenByDigests, Unchanged
  <1> QED BY <1>1, <1>2 DEF OnceInv, AgentIsOfDigest, AgentIsNew

LEMMA OnceWorld ==
    ASSUME TypeOK, TypeOK', [Next]_vars, OnceInv,
           \/ Advance \/ UNCHANGED vars
           \/ \E e \in Events, db \in Dbs : Log(e, db)
    PROVE  OnceInv'
  <1>1. UNCHANGED <<files, command>>
    BY DEF Advance, Log, vars
  <1>2. pc = "emit" => got' \subseteq DayEvents(key, upto)'
    <2>1. DayEvents(key, upto) \subseteq DayEvents(key, upto)'
      BY <1>1, LogGrows DEF DayEvents, EventsIn, command
    <2>2. pc = "emit" => got \subseteq DayEvents(key, upto)
      BY DEF OnceInv, DigestsGrow
    <2>3. got' = got
      BY <1>1 DEF command
    <2> QED BY <2>1, <2>2, <2>3
  <1>3. \A k \in Keys : OfTheLog(k)'
    BY <1>1, DigestHolds DEF files, command, OnceInv
  <1>4. DigestsGrow'
    BY <1>1, <1>2, <1>3 DEF OnceInv, DigestsGrow, files, command
  <1>5. GivenIsKnown' /\ GivenByDigests' /\ AgentIsOfDigest' /\ AgentIsNew'
    BY <1>1 DEF OnceInv, GivenIsKnown, GivenByDigests, AgentIsOfDigest, AgentIsNew,
                Unchanged, files, command
  <1> QED BY <1>4, <1>5 DEF OnceInv

LEMMA OnceEntry ==
    ASSUME TypeOK, TypeOK', [Next]_vars, OnceInv,
           \/ TickStarts \/ RetryStarts
           \/ \E k \in Keys : IngestStarts(k)
           \/ TakesDb \/ TakesDigest \/ CommandEnds \/ Kill
    PROVE  OnceInv'
  <1>1. CASE \/ TickStarts \/ RetryStarts
             \/ \E k \in Keys : IngestStarts(k)
             \/ TakesDb \/ TakesDigest \/ CommandEnds
    <2>1. /\ UNCHANGED <<digest, wiki, ledger, orphans>>
          /\ pc' \notin {"emit", "agent", "record"}
          /\ cmd' = "tick" => t1' = now \/ (cmd = "tick" /\ t1' = t1)
      BY <1>1 DEF TickStarts, RetryStarts, IngestStarts, Start, TakesDb, TakesDigest,
                  CommandEnds, Locals, files
    <2>2. pc # "record"
      BY <1>1 DEF TickStarts, RetryStarts, IngestStarts, Start, TakesDb, TakesDigest,
                  CommandEnds, TypeOK, CommandOK
    <2> QED BY <2>1, <2>2, OnceStill
  <1>2. CASE Kill
    <2>1. /\ UNCHANGED <<digest, wiki, ledger>> /\ orphans \subseteq orphans'
          /\ pc = "record" => <<key, got>> \in orphans'
          /\ pc' = "idle" /\ cmd' = "none"
      BY <1>2 DEF Kill, Locals
    <2>2. DigestsGrow'
      BY <2>1, DigestHolds DEF OnceInv, DigestsGrow
    <2>3. GivenIsKnown' /\ GivenByDigests'
      BY <2>1 DEF OnceInv, GivenIsKnown, GivenByDigests, AgentIsOfDigest, Unchanged
    <2> QED BY <2>1, <2>2, <2>3 DEF OnceInv, AgentIsOfDigest, AgentIsNew
  <1> QED BY <1>1, <1>2

\* A turn comes after a digest that is done with.
LEMMA TurnsOn ==
    ASSUME NEW failed, Turn(failed)
    PROVE  pc' \in {"compact", "next"} /\ UNCHANGED <<cmd, t1>>
  BY DEF Turn, NextDigest, Locals

\* What a tick reads is more than what the digest holds.
LEMMA OnceCompacts ==
    ASSUME TypeOK, TypeOK', [Next]_vars, MidnightInv, OnceInv, Compacts
    PROVE  OnceInv'
  <1>1. /\ cmd = "tick" /\ pc = "compact" /\ key \in Keys /\ key[2] <= Today
        /\ UNCHANGED <<now, log, digest, wiki, ledger, orphans>>
    BY DEF Compacts, world, TypeOK, CommandOK, MidnightInv, NoOperators
  <1>2. /\ pc' = "emit" /\ key' = key /\ upto' = WindowEnd
        /\ got' = DayEvents(key, WindowEnd)
        /\ UNCHANGED <<cmd, t1>>
    BY <1>1 DEF Compacts, Locals
  <1>3. /\ t1 \in Nat /\ Today \in Nat /\ t1 < Midnight(Today + 1)
        /\ key[2] \in Nat /\ Midnight(key[2] + 1) \in Nat /\ digest[key].to \in Int
    BY <1>1, TodayBegan, DigestParts
  <1>4. WindowEnd \in Nat /\ WindowEnd <= Midnight(key[2] + 1) /\ WindowEnd <= t1
    <2>1. CASE key[2] = Today
      BY <1>1, <1>3, <2>1 DEF WindowEnd
    <2>2. CASE key[2] # Today
      <3>1. key[2] < Today /\ WindowEnd = Midnight(key[2] + 1)
        BY <1>1, <1>3, <2>2 DEF WindowEnd
      <3>2. Midnight(key[2] + 1) <= Midnight(Today) /\ Midnight(Today) <= t1
            /\ Midnight(Today) \in Nat
        BY <1>3, <3>1, MidnightOrder, DayBounds DEF Today
      <3> QED BY <1>3, <3>1, <3>2
    <2> QED BY <2>1, <2>2
  <1>5. digest[key].to <= WindowEnd
    <2>1. OfTheLog(key)
      BY <1>1 DEF OnceInv, DigestsGrow
    <2> QED BY <1>1, <1>3, <2>1 DEF WindowEnd, OfTheLog
  <1>6. digest[key].content \subseteq DayEvents(key, WindowEnd)
    <2>1. DayEvents(key, digest[key].to) \subseteq DayEvents(key, WindowEnd)
      BY <1>3, <1>4, <1>5, LaterHoldsMore
    <2>2. OfTheLog(key)
      BY <1>1 DEF OnceInv, DigestsGrow
    <2> QED BY <2>1, <2>2 DEF OfTheLog
  <1>7. got' = DayEvents(key, upto)'
    BY <1>1, <1>2 DEF DayEvents, EventsIn
  <1>8. \A k \in Keys : OfTheLog(k)'
    BY <1>1, <1>2, DigestHolds DEF OnceInv
  <1>9. DigestsGrow'
    BY <1>1, <1>2, <1>4, <1>6, <1>7, <1>8 DEF DigestsGrow
  <1>10. GivenIsKnown' /\ GivenByDigests' /\ AgentIsOfDigest' /\ AgentIsNew'
    BY <1>1, <1>2 DEF OnceInv, GivenIsKnown, GivenByDigests, AgentIsOfDigest, AgentIsNew,
                      Unchanged
  <1> QED BY <1>9, <1>10 DEF OnceInv

\* A digest is replaced by a larger one: one the wiki has is no larger.
LEMMA OnceEmits ==
    ASSUME TypeOK, TypeOK', [Next]_vars, MidnightInv, OnceInv, Emits
    PROVE  OnceInv'
  <1>1. /\ pc = "emit" /\ pc' \in {"decide", "mark"} /\ key \in Keys
        /\ digest' = [digest EXCEPT ![key] = [to |-> upto, content |-> got]]
        /\ DOMAIN digest = Keys
        /\ UNCHANGED <<now, log, wiki, ledger, orphans, cmd, t1, key, got, upto>>
    BY DEF Emits, world, TypeOK, FilesOK, CommandOK
  <1>2. /\ digest[key].content \subseteq got /\ got \subseteq DayEvents(key, upto)
        /\ upto <= Midnight(key[2] + 1) /\ upto <= t1 /\ t1 <= now
    BY <1>1 DEF OnceInv, DigestsGrow, MidnightInv, NoOperators
  <1>3. digest'[key].to = upto /\ digest'[key].content = got
    BY <1>1
  <1>4. upto \in Int /\ t1 \in Nat /\ now \in Nat
    BY <1>1, DigestParts DEF TypeOK, CommandOK, Windows, Never
  <1>5. ASSUME NEW k \in Keys
        PROVE  OfTheLog(k)'
    <2>1. CASE k = key
      <3>1. got \subseteq DayEvents(k, digest[k].to)'
        BY <1>1, <1>2, <1>3, <2>1 DEF DayEvents, EventsIn
      <3> QED BY <1>1, <1>2, <1>3, <1>4, <2>1, <3>1 DEF OfTheLog
    <2>2. CASE k # key
      BY <1>1, <2>2, DigestHolds DEF OnceInv
    <2> QED BY <2>1, <2>2
  <1>6. DigestsGrow'
    BY <1>1, <1>5 DEF DigestsGrow
  <1>7. ASSUME NEW k \in Keys, NEW content \in wiki[k]
        PROVE  content \subseteq digest'[k].content
    <2>1. content \subseteq digest[k].content
      BY <1>7 DEF OnceInv, GivenByDigests
    <2> QED BY <1>1, <1>2, <2>1
  <1>8. ASSUME NEW k \in Keys, digest'[k].content \in wiki[k]
        PROVE  \/ <<k, digest'[k].content>> \in orphans
               \/ Unchanged(k, digest'[k].content)
    <2>1. digest'[k].content \subseteq digest[k].content
      BY <1>8 DEF OnceInv, GivenByDigests
    <2>2. digest'[k].content = digest[k].content
      BY <1>1, <1>2, <2>1
    <2> QED BY <1>1, <1>8, <2>2 DEF OnceInv, GivenIsKnown
  <1>9. GivenByDigests' /\ GivenIsKnown'
    BY <1>1, <1>7, <1>8 DEF GivenByDigests, GivenIsKnown, Unchanged
  <1> QED BY <1>1, <1>6, <1>9 DEF OnceInv, AgentIsOfDigest, AgentIsNew

LEMMA OnceCompaction ==
    ASSUME TypeOK, TypeOK', [Next]_vars, MidnightInv, OnceInv,
           Compacts \/ CompactFails \/ Emits \/ Marks \/ Saves
    PROVE  OnceInv'
  <1>1. CASE CompactFails \/ Marks \/ Saves
    <2>1. cmd = "tick" /\ pc # "record"
      BY <1>1 DEF CompactFails, Marks, Saves, MidnightInv, NoOperators
    <2>2. /\ UNCHANGED <<digest, wiki, ledger, orphans, cmd, t1>>
          /\ pc' \notin {"emit", "agent", "record"}
      BY <1>1, <2>1, TurnsOn DEF CompactFails, Marks, Saves, files
    <2> QED BY <2>1, <2>2, OnceStill
  <1> QED BY <1>1, OnceCompacts, OnceEmits

LEMMA OnceIngest ==
    ASSUME TypeOK, TypeOK', [Next]_vars, OnceInv,
           Skips \/ Wake \/ ReadsDigest \/ Refused \/ StageFails \/ Publishes \/ Records
    PROVE  OnceInv'
  <1>1. /\ key \in Keys /\ UNCHANGED <<digest, cmd, t1>>
        /\ DOMAIN ledger = Keys /\ DOMAIN wiki = Keys
    BY TurnsOn DEF Skips, Wake, ReadsDigest, Refused, StageFails, Publishes, Records, files,
                   TypeOK, FilesOK, CommandOK, Ledgers
  <1>2. pc' # "emit"
    BY TurnsOn DEF Skips, Wake, ReadsDigest, Refused, StageFails, Publishes, Records, Locals
  <1>3. DigestsGrow'
    BY <1>1, <1>2, DigestHolds DEF OnceInv, DigestsGrow
  <1>4. CASE \/ Skips \/ Wake \/ Refused
             \/ ReadsDigest /\ Unchanged(key, digest[key].content)
    <2>1. /\ UNCHANGED <<wiki, ledger, orphans>> /\ pc # "record"
          /\ pc' \notin {"emit", "agent", "record"}
      BY <1>4, TurnsOn DEF Skips, Wake, Refused, ReadsDigest, Locals, files
    <2> QED BY <1>1, <2>1, OnceStill
  <1>5. CASE ReadsDigest /\ ~Unchanged(key, digest[key].content)
    <2>1. /\ UNCHANGED <<wiki, ledger, orphans, key>> /\ pc = "ingest"
          /\ pc' = "agent" /\ got' = digest[key].content
      BY <1>5 DEF ReadsDigest, Locals, files
    <2>2. got' \in wiki[key] => <<key, got'>> \in orphans
      BY <1>1, <1>5, <2>1 DEF OnceInv, GivenIsKnown
    <2>3. GivenIsKnown' /\ GivenByDigests'
      BY <1>1, <2>1 DEF OnceInv, GivenIsKnown, GivenByDigests, Unchanged
    <2> QED BY <1>1, <1>3, <2>1, <2>2, <2>3 DEF OnceInv, AgentIsOfDigest, AgentIsNew
  <1>6. CASE StageFails
    <2>1. PICK retryable \in BOOLEAN :
             ledger' = [ledger EXCEPT ![key] = Entry("failed", got, Never, retryable)]
      BY <1>6 DEF StageFails
    <2>2. /\ UNCHANGED <<wiki, orphans>> /\ pc = "agent" /\ pc' \in {"compact", "next"}
      BY <1>6, TurnsOn DEF StageFails
    <2>3. got = digest[key].content /\ (got \in wiki[key] => <<key, got>> \in orphans)
      BY <2>2 DEF OnceInv, AgentIsOfDigest, AgentIsNew
    <2>4. ASSUME NEW k \in Keys, digest[k].content \in wiki[k]
          PROVE  <<k, digest[k].content>> \in orphans \/ Unchanged(k, digest[k].content)'
      <3>1. CASE k = key
        BY <2>3, <2>4, <3>1
      <3>2. CASE k # key
        <4>1. ledger'[k] = ledger[k]
          BY <1>1, <2>1, <3>2
        <4> QED BY <1>1, <2>2, <2>4, <4>1 DEF OnceInv, GivenIsKnown, Unchanged
      <3> QED BY <3>1, <3>2
    <2>5. GivenIsKnown' /\ GivenByDigests'
      BY <1>1, <2>2, <2>4 DEF OnceInv, GivenIsKnown, GivenByDigests, Unchanged
    <2> QED BY <1>3, <2>2, <2>5 DEF OnceInv, AgentIsOfDigest, AgentIsNew
  <1>7. CASE Publishes
    <2>1. /\ wiki' = [wiki EXCEPT ![key] = @ \cup {got}]
          /\ pc = "agent" /\ pc' = "record" /\ UNCHANGED <<ledger, orphans, key, got>>
      BY <1>7 DEF Publishes
    <2>2. got = digest[key].content
      BY <2>1 DEF OnceInv, AgentIsOfDigest
    <2>3. /\ wiki'[key] = wiki[key] \cup {got}
          /\ \A k \in Keys : k # key => wiki'[k] = wiki[k]
      BY <1>1, <2>1
    <2>4. ASSUME NEW k \in Keys, NEW content \in wiki'[k]
          PROVE  content \subseteq digest[k].content
      BY <2>2, <2>3, <2>4 DEF OnceInv, GivenByDigests
    <2>5. ASSUME NEW k \in Keys, digest[k].content \in wiki'[k]
          PROVE  \/ <<k, digest[k].content>> \in orphans
                 \/ Unchanged(k, digest[k].content)
                 \/ key = k
      BY <2>1, <2>3, <2>5 DEF OnceInv, GivenIsKnown
    <2>6. GivenIsKnown' /\ GivenByDigests'
      BY <1>1, <2>1, <2>4, <2>5 DEF GivenIsKnown, GivenByDigests, Unchanged
    <2> QED BY <1>1, <1>3, <2>1, <2>2, <2>6 DEF OnceInv, AgentIsOfDigest, AgentIsNew
  <1>8. CASE Records
    <2>1. /\ ledger' = [ledger EXCEPT ![key] = Entry("ingested", got, upto, FALSE)]
          /\ UNCHANGED <<wiki, orphans>> /\ pc = "record" /\ pc' \in {"compact", "next"}
      BY <1>8, TurnsOn DEF Records
    <2>2. got = digest[key].content
      BY <2>1 DEF OnceInv, AgentIsOfDigest
    <2>3. ASSUME NEW k \in Keys, digest[k].content \in wiki[k]
          PROVE  <<k, digest[k].content>> \in orphans \/ Unchanged(k, digest[k].content)'
      <3>1. CASE k = key
        BY <1>1, <2>1, <2>2, <3>1 DEF Unchanged, Entry
      <3>2. CASE k # key
        <4>1. ledger'[k] = ledger[k]
          BY <1>1, <2>1, <3>2
        <4> QED BY <1>1, <2>3, <3>2, <4>1 DEF OnceInv, GivenIsKnown, Unchanged
      <3> QED BY <3>1, <3>2
    <2>4. GivenIsKnown' /\ GivenByDigests'
      BY <1>1, <2>1, <2>3 DEF OnceInv, GivenIsKnown, GivenByDigests, Unchanged
    <2> QED BY <1>3, <2>1, <2>4 DEF OnceInv, AgentIsOfDigest, AgentIsNew
  <1> QED BY <1>4, <1>5, <1>6, <1>7, <1>8

LEMMA OnceInit ==
    ASSUME Init
    PROVE  OnceInv
  <1>1. ASSUME NEW k \in Keys
        PROVE  Never <= Midnight(k[2] + 1) /\ Never <= now
    <2>1. Midnight(k[2] + 1) \in Nat
      BY DayType DEF Keys
    <2> QED BY <2>1 DEF Never, Init
  <1>2. DigestsGrow
    BY <1>1 DEF Init, DigestsGrow, OfTheLog, NoDigest
  <1> QED BY <1>2 DEF Init, OnceInv, GivenByDigests, GivenIsKnown, AgentIsOfDigest, AgentIsNew

LEMMA OnceStep ==
    ASSUME MaxCompacts = 0, MaxBackfills = 0,
           TypeOK, TypeOK', MidnightInv, OnceInv, [Next]_vars
    PROVE  OnceInv'
  <1>1. spent["compacts"] \in Nat /\ spent["backfills"] \in Nat /\ opc = "idle"
    BY DEF TypeOK, FilesOK, Bounds, MidnightInv, NoOperators
  <1>2. ~ \/ \E from, to \in Days : BackfillStarts(from, to)
          \/ \E k \in Keys, to \in 1 .. Midnight(Day(LastInstant) + 1) :
                OperatorCompacts(k, to)
          \/ OperatorEmits \/ OperatorMarks \/ OperatorSaves \/ OperatorDies
    BY <1>1 DEF BackfillStarts, OperatorCompacts, OperatorEmits, OperatorMarks,
                OperatorSaves, OperatorDies
  <1> QED BY <1>2, OnceWorld, OnceEntry, OnceCompaction, OnceIngest DEF Next, Steps

\* Ticks, retries and single ingests alone give the wiki a digest once, unless
\* one died between its commit and its ledger entry, for any number of
\* databases and days, whatever fails and is killed (Orchestrator._ingest).
THEOREM TicksIngestOnce ==
    ASSUME MaxCompacts = 0, MaxBackfills = 0
    PROVE  Spec => OncePerContent
  <1>1. Init => LedgerInv /\ MidnightInv /\ OnceInv
    <2>1. Init => LedgerInv
      BY DEF Init, LedgerInv, LedgerTellsTheTruth, NoEntry
    <2> QED BY <2>1, MidnightInit, OnceInit
  <1>2. TypeOK /\ TypeOK' /\ LedgerInv /\ MidnightInv /\ OnceInv /\ [Next]_vars
           => LedgerInv' /\ MidnightInv' /\ OnceInv'
    BY LedgerStep, MidnightStep, OnceStep
  <1>3. OnceInv => \A k \in Keys :
           (pc = "agent" /\ pc' = "record" /\ key = k /\ got \in wiki[k])
              => <<k, got>> \in orphans
    BY DEF OnceInv, AgentIsNew
  <1> QED BY <1>1, <1>2, <1>3, TypeCorrect, PTL DEF Spec, OncePerContent
=============================================================================
