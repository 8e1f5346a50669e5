-------------------------------- MODULE Tick --------------------------------
(***************************************************************************)
(* The scheduler tick of dbwiki and the commands that share its state:    *)
(* `run`, `ingest`, `retry` and `backfill`, which hold the single-flight  *)
(* lock (cli.LOCKED), and `compact`, which does not.  They read the log   *)
(* in Elasticsearch, write digest files, move the per-database watermark  *)
(* and record in the ingest ledger what the wiki was given.               *)
(*                                                                         *)
(* What is at stake is the end of the day: every tick compacts midnight    *)
(* to now, so what is logged after a day's last tick is read only by the   *)
(* catch-up of the next day's first one, which runs only if the watermark  *)
(* stops short of midnight.                                                *)
(*                                                                         *)
(* A digest is the set of the events it holds; its content hash is that    *)
(* set (Compactor.content_hash), and it is notable when one of them is.    *)
(* The stage that turns a digest into a commit is WikiTransaction's: here  *)
(* it publishes, fails with a ledger entry, or is refused without one.     *)
(***************************************************************************)
EXTENDS Integers

CONSTANTS
    Dbs,          \* databases
    Events,       \* events that may be logged
    Notable,      \* those a pattern library classifies as notable
    DayLength,    \* instants in a day
    LastInstant,  \* where the clock stops (bound)
    MaxFailures,  \* failures of Elasticsearch or of a stage (bound)
    MaxKills,     \* killed processes (bound)
    MaxCompacts,  \* `dbwiki compact` commands (bound)
    MaxBackfills, \* `dbwiki backfill` commands (bound)
    Unlogged      \* no log entry

ASSUME TickAssumption ==
    /\ Notable \subseteq Events
    /\ DayLength \in Nat \ {0}
    /\ LastInstant \in Nat
    /\ {MaxFailures, MaxKills, MaxCompacts, MaxBackfills} \subseteq Nat
    /\ Unlogged \notin [db : Dbs, at : Nat]

Midnight(day) == day * DayLength
Day(instant) == instant \div DayLength
Days == 0 .. Day(LastInstant)
Instants == 0 .. LastInstant
Keys == Dbs \X Days                      \* ledger_key: digests/<db>/<day>.json
Never == -1                              \* no watermark, no digest
LeastOf(a, b) == IF a <= b THEN a ELSE b

VARIABLES
    now,       \* the clock
    log,       \* log[e]: database and timestamp of an indexed event
    known,     \* databases with a registry file (StateStore.known_dbs)
    digest,    \* digest[k]: window end and events of a digest file
    watermark, \* watermark[db]: .state/watermarks.json
    ledger,    \* ledger[k]: .state/ingest_ledger.json
    wiki,      \* wiki[k]: the digest contents the wiki was given, a set of sets
    orphans,   \* <<k, content>> published, but its ledger write never happened
    spent,     \* how much of each bound was used

    \* the command that holds the lock
    cmd,         \* its name, or "none"
    pc,          \* where it is
    todo,        \* digests it has still to work on
    key,         \* the digest it works on
    t1,          \* the tick's clock reading
    consolidate, \* `run --consolidate`
    before,      \* watermark[db] as the tick read it
    held,        \* the catch-up failed: the watermark is held back
    got, upto,   \* content and window end of the digest in memory
    copy,        \* the watermark map as set_watermark is about to save it

    \* the `compact` command, which takes no lock
    opc, okey, ogot, oupto, ocopy

files    == <<known, digest, watermark, ledger, wiki, orphans>>
command  == <<cmd, pc, todo, key, t1, consolidate, before, held, got, upto, copy>>
operator == <<opc, okey, ogot, oupto, ocopy>>
world    == <<now, log>>
vars     == <<world, files, spent, command, operator>>

NoDigest == [to |-> Never, content |-> {}]
NoEntry  == [status |-> "none", content |-> {}, to |-> Never, retryable |-> FALSE]
Entry(status, content, to, retryable) ==
    [status |-> status, content |-> content, to |-> to, retryable |-> retryable]

NoKey == CHOOSE k \in Keys : k[2] = 0
Today == Day(t1)
CatchingUp == cmd = "tick" /\ pc # "next" /\ key[2] < Today

\* What Elasticsearch holds of a database in the window [from, to).
EventsIn(db, from, to) ==
    {e \in Events : /\ log[e] # Unlogged
                    /\ log[e].db = db
                    /\ from <= log[e].at /\ log[e].at < to}

DayEvents(k, to) == EventsIn(k[1], Midnight(k[2]), to)

\* Mutant: only the databases that logged something in the window.
DiscoveredInWindow(from, to) == {db \in Dbs : EventsIn(db, from, to) # {}}

\* Compactor.discover_dbs: the registry's databases and those in the window.
Discovered(from, to) == known \cup {db \in Dbs : EventsIn(db, from, to) # {}}

Bounds == {"failures", "kills", "compacts", "backfills"}
Spend(what) == spent' = [spent EXCEPT ![what] = @ + 1]

Marking == [Dbs -> Instants \cup {Never}]
Windows == Nat \cup {Never}
Ledgers == [Keys -> [status : {"none", "ingested", "failed"}, content : SUBSET Events,
                     to : Windows, retryable : BOOLEAN]]

FilesOK ==
    /\ now \in Instants
    /\ log \in [Events -> [db : Dbs, at : Instants] \cup {Unlogged}]
    /\ known \subseteq Dbs
    /\ digest \in [Keys -> [to : Windows, content : SUBSET Events]]
    /\ watermark \in Marking
    /\ ledger \in Ledgers
    /\ wiki \in [Keys -> SUBSET SUBSET Events]
    /\ orphans \subseteq Keys \X SUBSET Events
    /\ spent \in [Bounds -> Nat]

CommandOK ==
    /\ cmd \in {"none", "tick", "ingest", "retry", "backfill"}
    /\ pc \in {"idle", "next", "compact", "emit", "mark", "save", "decide",
               "ingest", "agent", "record"}
    /\ cmd = "none" <=> pc = "idle"
    /\ pc \notin {"idle", "next"} => key \in Keys
    /\ todo \subseteq Keys
    /\ t1 \in Instants /\ before \in Instants \cup {Never}
    /\ held \in BOOLEAN /\ consolidate \in BOOLEAN
    /\ got \subseteq Events /\ upto \in Windows /\ copy \in Marking
    /\ pc \in {"emit", "mark"} => upto # Never

OperatorOK ==
    /\ opc \in {"idle", "emit", "mark", "save"}
    /\ opc # "idle" => okey \in Keys /\ oupto # Never
    /\ ogot \subseteq Events /\ oupto \in Windows /\ ocopy \in Marking

\* Every variable holds a value of its type, and a command that has a digest
\* in hand knows which.
TypeOK == FilesOK /\ CommandOK /\ OperatorOK

Init ==
    /\ now = 0
    /\ log = [e \in Events |-> Unlogged]
    /\ known = {}
    /\ digest = [k \in Keys |-> NoDigest]
    /\ watermark = [db \in Dbs |-> Never]
    /\ ledger = [k \in Keys |-> NoEntry]
    /\ wiki = [k \in Keys |-> {}]
    /\ orphans = {}
    /\ spent = [bound \in Bounds |-> 0]
    /\ cmd = "none" /\ pc = "idle" /\ todo = {} /\ key = NoKey
    /\ t1 = 0 /\ consolidate = FALSE /\ before = Never /\ held = FALSE
    /\ got = {} /\ upto = Never /\ copy = [db \in Dbs |-> Never]
    /\ opc = "idle" /\ okey = NoKey /\ ogot = {} /\ oupto = Never /\ ocopy = [db \in Dbs |-> Never]
-----------------------------------------------------------------------------
(* The world: time passes, and events reach Elasticsearch, late perhaps     *)
(* but on the day of their timestamp.                                       *)

Advance ==
    /\ now < LastInstant
    /\ now' = now + 1
    /\ UNCHANGED <<log, files, spent, command, operator>>

Log(e, db) ==
    /\ log[e] = Unlogged
    /\ \E at \in Midnight(Day(now)) .. now :
          log' = [log EXCEPT ![e] = [db |-> db, at |-> at]]
    /\ UNCHANGED <<now, files, spent, command, operator>>
-----------------------------------------------------------------------------
(* Commands that hold the lock.  A new one starts when the last has ended.  *)

\* The locals a command has no use for keep no old value.
Locals(pcNew, keyNew, gotNew, uptoNew) ==
    /\ pc' = pcNew /\ key' = keyNew /\ got' = gotNew /\ upto' = uptoNew

Start(name, work) ==
    /\ cmd = "none"
    /\ cmd' = name
    /\ todo' = work
    /\ Locals("next", NoKey, {}, Never)
    /\ UNCHANGED <<world, files, before, held, copy, operator>>

\* cmd_run: the tick reads the clock once and works on every database that
\* is known or logged something today.
TickStarts ==
    /\ Start("tick", {<<db, Day(now)>> : db \in Discovered(Midnight(Day(now)), now)})
    /\ t1' = now
    /\ consolidate' \in BOOLEAN
    /\ UNCHANGED spent

\* cmd_ingest: one digest by hand; the decision is recorded, never obeyed.
IngestStarts(k) ==
    /\ digest[k] # NoDigest
    /\ Start("ingest", {k})
    /\ UNCHANGED <<t1, consolidate, spent>>

\* cmd_retry, health.plan_retries: failures a rerun can fix whose digest is
\* still the one that failed.
Retryable == {k \in Keys : /\ ledger[k].status = "failed"
                           /\ ledger[k].retryable
                           /\ digest[k].content = ledger[k].content}

RetryStarts ==
    /\ Retryable # {}
    /\ Start("retry", Retryable)
    /\ UNCHANGED <<t1, consolidate, spent>>

\* cmd_backfill: a range of days that has begun, of one database or of those
\* discovered.
BackfillStarts(from, to) ==
    /\ spent["backfills"] < MaxBackfills
    /\ Midnight(to) <= now
    /\ \E dbs \in {{db} : db \in Dbs} \cup {Discovered(Midnight(from), Midnight(to + 1))} :
          Start("backfill", dbs \X (from .. to))
    /\ Spend("backfills")
    /\ UNCHANGED <<t1, consolidate>>

\* Mutant: no catch-up, as before 2026-09-23.
CatchupNever(mark) == Today

\* cli._catchup_day: yesterday, when the watermark stops short of today.
CatchupDay(mark) == IF mark # Never /\ mark < Midnight(Today) THEN Today - 1 ELSE Today

\* run_one_db begins with the watermark of its database.
TakesDb ==
    /\ cmd = "tick" /\ pc = "next"
    /\ \E k \in todo :
          /\ todo' = todo \ {k}
          /\ before' = watermark[k[1]]
          /\ held' = FALSE
          /\ Locals("compact", <<k[1], CatchupDay(watermark[k[1]])>>, {}, Never)
    /\ UNCHANGED <<world, files, spent, cmd, t1, consolidate, copy, operator>>

\* The other commands take their digests one by one, a backfill day by day.
TakesDigest ==
    /\ cmd \in {"ingest", "retry", "backfill"} /\ pc = "next"
    /\ \E k \in todo :
          /\ cmd = "backfill" => \A j \in todo : k[2] <= j[2]
          /\ todo' = todo \ {k}
          /\ Locals(IF cmd = "backfill" THEN "compact" ELSE "ingest", k, {}, Never)
    /\ UNCHANGED <<world, files, spent, cmd, t1, consolidate, before, held, copy, operator>>

CommandEnds ==
    /\ cmd # "none" /\ pc = "next" /\ todo = {}
    /\ cmd' = "none"
    /\ Locals("idle", NoKey, {}, Never)
    /\ before' = Never /\ held' = FALSE /\ t1' = 0 /\ consolidate' = FALSE
    /\ UNCHANGED <<world, files, spent, todo, copy, operator>>
-----------------------------------------------------------------------------
(* Compaction.                                                              *)

\* The window's end: the clock for a digest of today, midnight otherwise.
WindowEnd == IF cmd = "tick" /\ key[2] = Today THEN t1 ELSE Midnight(key[2] + 1)

\* After yesterday comes today, then the next database.
NextDigest ==
    /\ IF CatchingUp THEN Locals("compact", <<key[1], Today>>, {}, Never)
                      ELSE Locals("next", NoKey, {}, Never)
    /\ UNCHANGED <<cmd, todo, t1, consolidate, before, copy>>

\* What a command does after a digest.  A failed catch-up holds the watermark
\* back.
Turn(failed) ==
    /\ held' = IF CatchingUp THEN failed ELSE held
    /\ NextDigest

\* Compactor.compact: the log is read, the registry saved.
Compacts ==
    /\ pc = "compact"
    /\ known' = known \cup {key[1]}
    /\ LET content == DayEvents(key, WindowEnd)
       IN  IF cmd = "backfill" /\ content = {}
             THEN /\ Turn(FALSE)   \* nothing logged: no digest, no watermark
             ELSE /\ Locals("emit", key, content, WindowEnd)
                  /\ UNCHANGED <<cmd, todo, t1, consolidate, before, held, copy>>
    /\ UNCHANGED <<world, digest, watermark, ledger, wiki, orphans, spent, operator>>

\* Elasticsearch does not answer: the tick contains the failure, a backfill
\* ends.
CompactFails ==
    /\ pc = "compact"
    /\ spent["failures"] < MaxFailures
    /\ Spend("failures")
    /\ IF cmd = "tick" THEN Turn(TRUE)
       ELSE /\ todo' = {}
            /\ Locals("next", NoKey, {}, Never)
            /\ UNCHANGED <<cmd, t1, consolidate, before, held, copy>>
    /\ UNCHANGED <<world, files, operator>>

\* Compactor.emit: the digest twins replace the file.  A tick then moves the
\* watermark with today's digest, unless it is held back.
Emits ==
    /\ pc = "emit"
    /\ digest' = [digest EXCEPT ![key] = [to |-> upto, content |-> got]]
    /\ pc' = IF CatchingUp \/ (cmd = "tick" /\ held) THEN "decide" ELSE "mark"
    /\ UNCHANGED <<world, known, watermark, ledger, wiki, orphans, spent, operator,
                   cmd, todo, key, t1, consolidate, before, held, got, upto, copy>>

\* StateStore.set_watermark reads the whole map and saves it whole.  A
\* backfill marks no later than the clock (cli._watermark_after).
Marks ==
    /\ pc = "mark"
    /\ copy' = [watermark EXCEPT ![key[1]] = LeastOf(upto, now)]
    /\ pc' = "save"
    /\ UNCHANGED <<world, files, spent, operator,
                   cmd, todo, key, t1, consolidate, before, held, got, upto>>

Saves ==
    /\ pc = "save"
    /\ watermark' = copy
    /\ copy' = [db \in Dbs |-> Never]
    /\ IF cmd = "tick" THEN pc' = "decide" /\ UNCHANGED <<key, got, upto>>
                        ELSE Locals("next", NoKey, {}, Never)
    /\ UNCHANGED <<world, known, digest, ledger, wiki, orphans, spent, operator,
                   cmd, todo, t1, consolidate, before, held>>
-----------------------------------------------------------------------------
(* The trigger and the ingest stage.                                        *)

\* Mutants: a digest once ingested is never ingested again; nothing is known
\* to have been ingested.
AlreadyAtAnyWindow == ledger[key].status = "ingested"
UnchangedNever(k, content) == FALSE

\* trigger.decide, in its order; a catch-up is never a consolidation.
AlreadyIngested == ledger[key].status = "ingested" /\ ledger[key].to = upto
Unchanged(k, content) == ledger[k].status = "ingested" /\ ledger[k].content = content
Wakes ==
    /\ ~AlreadyIngested
    /\ ~Unchanged(key, got)
    /\ got \cap Notable # {} \/ (consolidate /\ ~CatchingUp)

Skips ==
    /\ pc = "decide" /\ ~Wakes
    /\ Turn(FALSE)
    /\ UNCHANGED <<world, files, spent, operator>>

Wake ==
    /\ pc = "decide" /\ Wakes
    /\ Locals("ingest", key, {}, Never)
    /\ UNCHANGED <<world, files, spent, operator,
                   cmd, todo, t1, consolidate, before, held, copy>>

\* Orchestrator._ingest reads the digest file itself, whatever it holds now.
ReadsDigest ==
    /\ pc = "ingest"
    /\ IF Unchanged(key, digest[key].content)
         THEN Turn(FALSE)
         ELSE /\ Locals("agent", key, digest[key].content, digest[key].to)
              /\ UNCHANGED <<cmd, todo, t1, consolidate, before, held, copy>>
    /\ UNCHANGED <<world, files, spent, operator>>

\* A dirty tree is refused before the stage: the ledger learns nothing.
Refused ==
    /\ pc = "agent"
    /\ spent["failures"] < MaxFailures
    /\ Spend("failures")
    /\ Turn(TRUE)
    /\ UNCHANGED <<world, files, operator>>

\* Mutant: the entry is written as if the stage had succeeded.
StageFailsUnnoticed ==
    /\ pc = "agent"
    /\ spent["failures"] < MaxFailures
    /\ Spend("failures")
    /\ ledger' = [ledger EXCEPT ![key] = Entry("ingested", got, upto, FALSE)]
    /\ Turn(TRUE)
    /\ UNCHANGED <<world, known, digest, watermark, wiki, orphans, operator>>

\* The stage fails and rolls back; its ledger entry replaces the last one.
StageFails ==
    /\ pc = "agent"
    /\ spent["failures"] < MaxFailures
    /\ Spend("failures")
    /\ \E retryable \in BOOLEAN :
          ledger' = [ledger EXCEPT ![key] = Entry("failed", got, Never, retryable)]
    /\ Turn(TRUE)
    /\ UNCHANGED <<world, known, digest, watermark, wiki, orphans, operator>>

Publishes ==
    /\ pc = "agent"
    /\ wiki' = [wiki EXCEPT ![key] = @ \cup {got}]
    /\ pc' = "record"
    /\ UNCHANGED <<world, known, digest, watermark, ledger, orphans, spent, operator,
                   cmd, todo, key, t1, consolidate, before, held, got, upto, copy>>

\* The ledger entry is written after the commit, outside the stage rail.
Records ==
    /\ pc = "record"
    /\ ledger' = [ledger EXCEPT ![key] = Entry("ingested", got, upto, FALSE)]
    /\ Turn(FALSE)
    /\ UNCHANGED <<world, known, digest, watermark, wiki, orphans, spent, operator>>

\* The process dies, and the lock with it.
Kill ==
    /\ cmd # "none" /\ spent["kills"] < MaxKills
    /\ Spend("kills")
    /\ orphans' = orphans \cup (IF pc = "record" THEN {<<key, got>>} ELSE {})
    /\ cmd' = "none" /\ todo' = {}
    /\ Locals("idle", NoKey, {}, Never)
    /\ before' = Never /\ held' = FALSE /\ t1' = 0 /\ consolidate' = FALSE
    /\ copy' = [db \in Dbs |-> Never]
    /\ UNCHANGED <<world, known, digest, watermark, ledger, wiki, operator>>
-----------------------------------------------------------------------------
(* `dbwiki compact`, which takes no lock: a whole day (`--date`), or a       *)
(* window (`--from --to`) whose digest is a file of its own.                *)

OperatorCompacts(k, to) ==
    /\ opc = "idle" /\ spent["compacts"] < MaxCompacts
    /\ Midnight(k[2]) <= now /\ to \in Midnight(k[2]) + 1 .. Midnight(k[2] + 1)
    /\ Spend("compacts")
    /\ known' = known \cup {k[1]}
    /\ okey' = k /\ ogot' = DayEvents(k, to) /\ oupto' = to
    /\ opc' = IF to = Midnight(k[2] + 1) THEN "emit" ELSE "mark"
    /\ UNCHANGED <<world, digest, watermark, ledger, wiki, orphans, command, ocopy>>

OperatorEmits ==
    /\ opc = "emit"
    /\ digest' = [digest EXCEPT ![okey] = [to |-> oupto, content |-> ogot]]
    /\ opc' = "mark"
    /\ UNCHANGED <<world, known, watermark, ledger, wiki, orphans, spent, command,
                   okey, ogot, oupto, ocopy>>

OperatorMarks ==
    /\ opc = "mark"
    /\ ocopy' = [watermark EXCEPT ![okey[1]] = LeastOf(oupto, now)]
    /\ opc' = "save"
    /\ UNCHANGED <<world, files, spent, command, okey, ogot, oupto>>

OperatorEnds ==
    /\ opc' = "idle" /\ okey' = NoKey /\ ogot' = {} /\ oupto' = Never
    /\ ocopy' = [db \in Dbs |-> Never]

OperatorSaves ==
    /\ opc = "save"
    /\ watermark' = ocopy
    /\ OperatorEnds
    /\ UNCHANGED <<world, known, digest, ledger, wiki, orphans, spent, command>>

OperatorDies ==
    /\ opc # "idle"
    /\ OperatorEnds
    /\ UNCHANGED <<world, files, spent, command>>
-----------------------------------------------------------------------------
Steps ==
    \/ TakesDb \/ TakesDigest \/ CommandEnds
    \/ Compacts \/ CompactFails \/ Emits \/ Marks \/ Saves
    \/ Skips \/ Wake \/ ReadsDigest \/ Refused \/ StageFails \/ Publishes \/ Records

Next ==
    \/ Advance
    \/ \E e \in Events, db \in Dbs : Log(e, db)
    \/ TickStarts \/ RetryStarts
    \/ \E k \in Keys : IngestStarts(k)
    \/ \E from, to \in Days : BackfillStarts(from, to)
    \/ Steps
    \/ Kill
    \/ \E k \in Keys, to \in 1 .. Midnight(Day(LastInstant) + 1) : OperatorCompacts(k, to)
    \/ OperatorEmits \/ OperatorMarks \/ OperatorSaves \/ OperatorDies

Spec == Init /\ [][Next]_vars

\* Time passes, cron starts ticks (not every one of them finds the lock held
\* by an operator), and a command that runs goes on to its end.  Nothing
\* says that it does not fail: the bound on failures does.
FairSpec == Spec /\ WF_vars(Advance) /\ SF_vars(TickStarts) /\ WF_vars(Steps)
                 /\ WF_vars(OperatorEmits \/ OperatorMarks \/ OperatorSaves)
-----------------------------------------------------------------------------
InTheWiki(e) == \E k \in Keys : e \in UNION wiki[k]

\* The watermark of db does not pass midnight, or the wiki has every notable
\* event of the day it leaves that was logged.
LeavesNothing(db) ==
    LET old == watermark[db]  new == watermark'[db]
    IN  (old # Never /\ new # Never /\ Day(new) = Day(old) + 1) =>
           \A e \in Notable :
              e \in EventsIn(db, Midnight(Day(old)), Midnight(Day(new))) => InTheWiki(e)

\* No tick leaves yesterday behind before the wiki has it: the watermark stops
\* short of midnight until the catch-up came through (run_one_db, _catch_up).
NothingIsLeftAtMidnight == [][\A db \in Dbs : LeavesNothing(db)]_vars

\* The same digest is given to the wiki once, unless the process died after
\* the commit and before the ledger entry.
OncePerContent ==
    [][\A k \in Keys : (pc = "agent" /\ pc' = "record" /\ key = k /\ got \in wiki[k])
          => <<k, got>> \in orphans]_vars

\* What the ledger calls ingested is in the wiki.
LedgerTellsTheTruth ==
    \A k \in Keys : ledger[k].status = "ingested" => ledger[k].content \in wiki[k]

\* Logged on its day, and the clock has not stopped: ticks will follow.
OfToday(e) == log[e] # Unlogged /\ Day(log[e].at) = Day(now) /\ now < LastInstant
DayOver(e) == log[e] # Unlogged /\ Day(log[e].at) < Day(now)

\* A watermark older than yesterday: no tick went by for a whole day, or every
\* catch-up of it failed, and what was left behind is the operator's to
\* backfill (_catch_up's uncovered_from).
Uncovered(e) ==
    log[e] # Unlogged /\ watermark[log[e].db] < Midnight(Day(now) - 1)

\* Every notable event of a database the tick follows gets to the wiki, by a
\* tick of its day or by the catch-up of the next, though stages fail,
\* processes die and clocks pass midnight in between.
EveryNotableEventIsIngested ==
    \A e \in Notable :
       (OfToday(e) /\ watermark[log[e].db] # Never)
           ~> (InTheWiki(e) \/ Uncovered(e))

\* While its day lasts, a notable event gets to the wiki whatever operators
\* compact, backfill or ingest meanwhile: no digest or ledger entry of theirs
\* keeps the ticks of the day from it for ever.
TodayReachesTheWiki ==
    \A e \in Notable : OfToday(e) ~> (InTheWiki(e) \/ DayOver(e))
=============================================================================
