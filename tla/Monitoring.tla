----------------------------- MODULE Monitoring -----------------------------
(***************************************************************************)
(* What the digests say about the recovery signal armed on an incident     *)
(* (monitoring.py).  Events happen, days are compacted and recompacted,    *)
(* the operator arms and extends a window, and a tick publishes a verdict. *)
(* An instant is a slot of a day; a group of a digest is a source and a    *)
(* code, with its first and last instant.                                  *)
(***************************************************************************)
EXTENDS Integers, FiniteSets, FiniteSetsExt

CONSTANTS
    Sources, WatchCodes,
    Routine,         \* the code of a line the library keeps no group of
    SlotsPerDay,     \* instants of a day
    MAX_WINDOW_DAYS,
    Signals,         \* what an operator may arm: [kind, on]
    Windows,         \* windows an operator may give: [start, until]
    LastSlot,        \* where the clock stops (bound)
    MaxEvents, MaxCommits, \* events that happen, commits of the page (bounds)
    Nothing

\* A window ends after it starts (incidents.MonitoringWindow), and what is
\* armed on an absence or a sighting is a code the library groups.
ASSUME MonitoringAssumption ==
    /\ SlotsPerDay \in Nat \ {0} /\ MAX_WINDOW_DAYS \in Nat \ {0} /\ LastSlot \in Nat
    /\ Routine \notin WatchCodes
    /\ \A w \in Windows : w.start \in Nat /\ w.until \in Nat /\ w.start < w.until
    /\ \A s \in Signals :
           /\ s.kind \in {"error_absent", "event_present", "flow_resumed", "manual"}
           /\ s.kind \in {"error_absent", "event_present"} => s.on \in WatchCodes

VARIABLES
    slot,
    events,   \* set of [at, source, code]
    digest,   \* digest[day]: what a compaction saw of it, or Nothing
    armed,    \* the monitoring of the incident page, or Nothing
    revision, \* commits of the wiki
    facts     \* .state/monitoring/<slug>.json, or Nothing
observing == <<slot, events, digest, armed, revision, facts>>

DayOf(t) == t \div SlotsPerDay
Days == 0..DayOf(LastSlot)

----------------------------------------------------------------------------
(* The window                                                              *)

\* A window that ends at midnight does not reach into that day.
DayCount(w) == DayOf(w.until) - DayOf(w.start) + (IF w.until % SlotsPerDay = 0 THEN 0 ELSE 1)
WindowDays(w) == DayOf(w.start)..(DayOf(w.start) + Min({DayCount(w), MAX_WINDOW_DAYS}) - 1)
Read(w) == {d \in WindowDays(w) \cap Days : digest[d] # Nothing}
GapsIgnored(w) == FALSE
Gaps(w) == Read(w) # WindowDays(w) \/ DayCount(w) > Cardinality(WindowDays(w))

Groups(d) == {<<e.source, e.code>> : e \in {x \in digest[d].seen : x.code # Routine}}
Of(d, g) == {e \in digest[d].seen : e.source = g[1] /\ e.code = g[2]}
FirstSeen(d, g) == Min({e.at : e \in Of(d, g)})
LastSeen(d, g) == Max({e.at : e \in Of(d, g)})
Spans(d, g, w) == FirstSeen(d, g) < w.until /\ LastSeen(d, g) >= w.start

\* The digests and, for a day none covers yet, a live count.
FirstEver(d, code, w) ==
    \E x \in digest[d].firsts : x.code = code /\ x.at >= w.start /\ x.at < w.until
Carries(d, code, w) ==
    (\E g \in Groups(d) : g[2] = code /\ Spans(d, g, w)) \/ FirstEver(d, code, w)
ProbeDay(w) == Min({Max(WindowDays(w)), DayOf(slot)})
Probed(code, w) ==
    LET day == ProbeDay(w)
    IN  /\ day \in WindowDays(w) \ Read(w)
        /\ \E e \in events : /\ e.code = code /\ DayOf(e.at) = day
                             /\ e.at >= w.start /\ e.at < w.until /\ e.at < slot

\* A digest the window covers whole counts everything; of another one only
\* the groups can be placed.
CoveredWhole(d, w) == d * SlotsPerDay >= w.start /\ digest[d].to <= w.until
Placed(d, s, w) ==
    IF CoveredWhole(d, w) THEN \E e \in digest[d].seen : e.source = s
    ELSE \E g \in Groups(d) : g[1] = s /\ Spans(d, g, w)
Loose(d, s, w) ==
    ~CoveredWhole(d, w) /\ \E e \in digest[d].seen : e.source = s /\ e.code = Routine

----------------------------------------------------------------------------
(* The verdict                                                             *)

Closed(w) == slot >= w.until
ErrorAbsent(code, w, probing) ==
    IF \/ \E d \in Read(w) : Carries(d, code, w)
       \/ probing /\ Probed(code, w)
    THEN "not_met"
    ELSE IF Gaps(w) THEN "insufficient"
    ELSE IF Closed(w) THEN "met" ELSE "insufficient"
EventPresent(code, w) ==
    IF \E d \in Read(w) : \E g \in Groups(d) : g[2] = code /\ Spans(d, g, w) THEN "met"
    ELSE IF Gaps(w) THEN "insufficient"
    ELSE IF Closed(w) THEN "not_met" ELSE "insufficient"
FlowResumed(s, w) ==
    IF \E d \in Read(w) : Placed(d, s, w) THEN "met"
    ELSE IF Read(w) # {} /\ \A d \in Read(w) : s \notin digest[d].sources THEN "insufficient"
    ELSE IF Gaps(w) \/ \E d \in Read(w) : Loose(d, s, w) THEN "insufficient"
    ELSE IF Closed(w) THEN "not_met" ELSE "insufficient"
Verdict(signal, w, probing) ==
    CASE signal.kind = "error_absent" -> ErrorAbsent(signal.on, w, probing)
      [] signal.kind = "event_present" -> EventPresent(signal.on, w)
      [] signal.kind = "flow_resumed" -> FlowResumed(signal.on, w)
      [] signal.kind = "manual" -> "insufficient"

\* What each day examined shows, the probed day with them.
Shows(d, signal, w) ==
    CASE signal.kind = "error_absent" -> Carries(d, signal.on, w)
      [] signal.kind = "event_present" -> \E g \in Groups(d) : g[2] = signal.on /\ Spans(d, g, w)
      [] signal.kind = "flow_resumed" -> Placed(d, signal.on, w)
Observed(signal, w, probing) ==
    [d \in (IF signal.kind = "manual" THEN {} ELSE Read(w))
           \cup (IF signal.kind = "error_absent" /\ probing /\ ProbeDay(w) \in WindowDays(w) \ Read(w)
                THEN {ProbeDay(w)} ELSE {}) |->
        IF d \in Read(w) THEN Shows(d, signal, w) ELSE Probed(signal.on, w)]

\* The case for closing: the days that support the verdict, the days of the
\* window nothing was read of, and whether it answers an older revision.
Supporting ==
    {d \in DOMAIN facts.observed : facts.observed[d] = (facts.signal.kind # "error_absent")}
Unexamined ==
    IF facts.verdict = "met" \/ facts.signal.kind = "manual" THEN {}
    ELSE WindowDays(facts.window) \ DOMAIN facts.observed
Stale == facts.revision # revision

----------------------------------------------------------------------------

MonitoringInit ==
    /\ slot = 0 /\ events = {} /\ digest = [d \in Days |-> Nothing]
    /\ armed = Nothing /\ revision = 0 /\ facts = Nothing

SlotPasses ==
    /\ slot < LastSlot /\ slot' = slot + 1
    /\ UNCHANGED <<events, digest, armed, revision, facts>>
Happens(s, code) ==
    /\ Cardinality(events) < MaxEvents
    /\ events' = events \cup {[at |-> slot, source |-> s, code |-> code]}
    /\ UNCHANGED <<slot, digest, armed, revision, facts>>

\* A tick compacts today, or catches up on yesterday, from the sources
\* it was asked for; a digest replaces the one before it.
Compact(d, selected) ==
    /\ d \in {DayOf(slot), DayOf(slot) - 1} \cap Days
    /\ LET seen == {e \in events : DayOf(e.at) = d /\ e.at < slot /\ e.source \in selected}
           end == (d + 1) * SlotsPerDay
       IN  digest' = [digest EXCEPT ![d] =
               [seen |-> seen, sources |-> selected,
                to |-> IF slot < end THEN slot ELSE end,
                firsts |-> {e \in seen : \A x \in events : x.code = e.code => x.at >= e.at}]]
    /\ UNCHANGED <<slot, events, armed, revision, facts>>

\* Arming, extending and resolving commit the page.
Commit == revision < MaxCommits /\ revision' = revision + 1
Arm(signal, w) ==
    /\ armed = Nothing /\ slot <= w.start
    /\ armed' = [signal |-> signal, window |-> w] /\ Commit
    /\ UNCHANGED <<slot, events, digest, facts>>
Extend(w) ==
    /\ armed # Nothing /\ w.start = armed.window.start /\ w.until > armed.window.until
    /\ armed' = [armed EXCEPT !.window = w] /\ Commit
    /\ UNCHANGED <<slot, events, digest, facts>>
Disarm ==
    /\ armed # Nothing
    /\ armed' = Nothing /\ Commit
    /\ UNCHANGED <<slot, events, digest, facts>>

\* A pattern that times out is published as an error; any other failure
\* leaves the file alone; what is not monitored loses its file.
PublishFacts(verdict, observed) ==
    facts' = [verdict |-> verdict, observed |-> observed, signal |-> armed.signal, window |-> armed.window,
              revision |-> revision, at |-> slot,
              held |-> UNION {digest[d].seen : d \in {x \in Days : digest[x] # Nothing}},
              days |-> {d \in Days : digest[d] # Nothing}]
EvaluateAll(outcome, probing) ==
    /\ IF armed = Nothing THEN facts' = Nothing
       ELSE CASE outcome = "answers" -> 
                     PublishFacts(Verdict(armed.signal, armed.window, probing),
                             Observed(armed.signal, armed.window, probing))
              [] outcome = "times_out" ->
                     IF armed.signal.kind = "event_present" THEN PublishFacts("error", <<>>)
                     ELSE UNCHANGED facts
              [] outcome = "raises" -> UNCHANGED facts
    /\ UNCHANGED <<slot, events, digest, armed, revision>>

MonitoringNext ==
    \/ SlotPasses \/ Disarm
    \/ \E s \in Sources, code \in WatchCodes \cup {Routine} : Happens(s, code)
    \/ \E d \in Days, selected \in (SUBSET Sources) \ {{}} : Compact(d, selected)
    \/ \E signal \in Signals, w \in Windows : Arm(signal, w)
    \/ \E w \in Windows : Extend(w)
    \/ \E outcome \in {"answers", "times_out", "raises"}, probing \in BOOLEAN :
           EvaluateAll(outcome, probing)

MonitoringSpec == MonitoringInit /\ [][MonitoringNext]_observing

----------------------------------------------------------------------------

Inside(e, w) == e.at >= w.start /\ e.at < w.until
Speaks(e, signal) ==
    IF signal.kind = "flow_resumed" THEN e.source = signal.on ELSE e.code = signal.on
RestsOnAbsence ==
    \/ facts.signal.kind = "error_absent" /\ facts.verdict = "met"
    \/ facts.signal.kind \in {"event_present", "flow_resumed"} /\ facts.verdict = "not_met"

\* A verdict that rests on absence has seen the whole window: it came after
\* the window closed, every day of the window had a digest, and no digest held
\* an event of the window that speaks against it; neither a day that was never
\* compacted, nor a window too long to walk, nor events of the first or the
\* last day that cannot be placed, nor a silent source make one.  The case for
\* closing says so: it cites every day of the window for an absence that was
\* met and a day for a sighting.  And a verdict of the revision shown is about
\* the monitoring in force.
AbsenceIsProven ==
    facts # Nothing =>
        /\ RestsOnAbsence =>
              /\ facts.at >= facts.window.until
              /\ \A t \in facts.window.start..(facts.window.until - 1) : DayOf(t) \in facts.days
              /\ ~\E e \in facts.held : Inside(e, facts.window) /\ Speaks(e, facts.signal)
              /\ Unexamined = {}
              /\ Supporting = IF facts.verdict = "met" THEN WindowDays(facts.window) ELSE {}
        /\ facts.verdict = "met" => Supporting # {}
        /\ ~Stale => armed # Nothing /\ facts.window = armed.window /\ facts.signal = armed.signal
=============================================================================
