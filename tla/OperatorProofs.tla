--------------------------- MODULE OperatorProofs ---------------------------
(***************************************************************************)
(* What operators may rely on, for any number of incidents, error codes,   *)
(* acts, failures and sinks, any log and any window: the pages of an       *)
(* incident tell the same story and nothing closes it but a resolve        *)
(* (IncidentLifecycle), an outage is told once, to everybody (Alerts), a   *)
(* verdict of absence has seen its whole window (Monitoring), and a weekly *)
(* review is mailed once and shows nothing that was put aside              *)
(* (WeeklyReview).                                                         *)
(***************************************************************************)
EXTENDS IncidentLifecycle, Alerts, Monitoring, WeeklyReview,
        FiniteSetTheorems, WellFoundedInduction, TLAPS

Kinds == {"record-action", "start-monitoring", "extend-monitoring", "resolve",
          "reopen", "merge"}
Intervals == [start : Nat, until : Nat]
ActionRecords ==
    [at : Nat, kind : Kinds, after : Status, window : Intervals \cup {NoWindow},
     pages : BOOLEAN, into : Incidents \cup {NoPage}]
Updates == [day : Nat, of : Incidents]
IncidentPages ==
    [status : Status, window : Intervals \cup {NoWindow}, actions : Seq(ActionRecords),
     evidence : SUBSET Nat, updates : SUBSET Updates]
Rows == [day : Nat, incident : Incidents, at : Nat]
CommandType ==
    [kind : Kinds, until : Nat, pages : BOOLEAN, into : Incidents \cup {NoPage}]

LifecycleTypeOK ==
    /\ instant \in Nat
    /\ page \in [Incidents -> IncidentPages]
    /\ listed \in [Incidents -> SUBSET {"Open", "Resolved"}]
    /\ log \in SUBSET (Nat \X Incidents \X Kinds)
    /\ linked \in [Incidents -> SUBSET Codes] /\ errors \subseteq Codes
    /\ rows \in [Codes -> SUBSET Rows]
    /\ pinned \in SUBSET [incident : Incidents, command : Commands, at : Nat]
    /\ replayed \subseteq Incidents

----------------------------------------------------------------------------
(* The last action of a kind.                                              *)

\* A set of indices has a last one.
LEMMA LastIndex ==
    ASSUME NEW n \in Nat, NEW I \in SUBSET (0 .. n), I # {}
    PROVE  Max(I) \in I /\ \A m \in I : m <= Max(I)
  <1> DEFINE Offsets == {n - m : m \in I}
  <1>1. PICK g \in Offsets : \A h \in Offsets : ~ (h < g)
    <2>1. Offsets \subseteq Nat
      OBVIOUS
    <2>2. PICK m \in I : TRUE
      OBVIOUS
    <2>3. n - m \in Offsets
      OBVIOUS
    <2> HIDE DEF Offsets
    <2>4. \E g \in Offsets : \A h \in Offsets : ~ (<<h, g>> \in OpToRel(<, Nat))
      BY <2>1, <2>3, NatLessThanWellFounded, WFMin
    <2>5. PICK g \in Offsets : \A h \in Offsets : ~ (<<h, g>> \in OpToRel(<, Nat))
      BY <2>4
    <2>6. ASSUME NEW h \in Offsets PROVE ~ (h < g)
      BY <2>1, <2>5 DEF OpToRel
    <2> QED BY <2>6
  <1>2. PICK last \in I : g = n - last
    OBVIOUS
  <1>3. ASSUME NEW m \in I PROVE last >= m
    <2>1. n - m \in Offsets /\ ~ (n - m < g)
      BY <1>1
    <2> QED BY <1>2, <2>1
  <1>4. \E x \in I : \A m \in I : x >= m
    BY <1>3
  <1>5. Max(I) \in I /\ \A m \in I : Max(I) >= m
    BY <1>4 DEF Max
  <1> QED BY <1>5

LEMMA LastOfSequence ==
    ASSUME NEW actions \in Seq(ActionRecords), NEW kinds
    PROVE  \/ /\ LastOf(actions, kinds) = 0
              /\ \A n \in DOMAIN actions : actions[n].kind \notin kinds
           \/ /\ LastOf(actions, kinds) \in DOMAIN actions
              /\ actions[LastOf(actions, kinds)].kind \in kinds
              /\ \A n \in DOMAIN actions :
                    actions[n].kind \in kinds => n <= LastOf(actions, kinds)
  <1> DEFINE I == {n \in 1 .. Len(actions) : actions[n].kind \in kinds}
  <1>1. LastOf(actions, kinds) = IF I # {} THEN Max(I) ELSE 0
    BY Zenon DEF LastOf, SelectLastInSeq
  <1>2. CASE I = {}
    BY <1>1, <1>2
  <1>3. CASE I # {}
    <2>1. I \in SUBSET (0 .. Len(actions)) /\ Len(actions) \in Nat
      OBVIOUS
    <2> HIDE DEF I
    <2>2. Max(I) \in I /\ \A m \in I : m <= Max(I)
      BY <1>3, <2>1, LastIndex
    <2> QED BY <1>1, <1>3, <2>2 DEF I
  <1> QED BY <1>2, <1>3

\* One more action is the last of its kind, and of no other.
LEMMA LastOfAppended ==
    ASSUME NEW actions \in Seq(ActionRecords), NEW r \in ActionRecords, NEW kinds
    PROVE  LastOf(Append(actions, r), kinds) =
              IF r.kind \in kinds THEN Len(actions) + 1 ELSE LastOf(actions, kinds)
  <1> DEFINE more == Append(actions, r)
  <1>1. /\ more \in Seq(ActionRecords) /\ DOMAIN more = 1 .. Len(actions) + 1
        /\ DOMAIN actions = 1 .. Len(actions) /\ Len(actions) \in Nat
        /\ more[Len(actions) + 1] = r
        /\ \A n \in DOMAIN actions : more[n] = actions[n]
    OBVIOUS
  <1> HIDE DEF more
  <1>2. \/ /\ LastOf(more, kinds) = 0
           /\ \A n \in DOMAIN more : more[n].kind \notin kinds
        \/ /\ LastOf(more, kinds) \in DOMAIN more
           /\ more[LastOf(more, kinds)].kind \in kinds
           /\ \A n \in DOMAIN more : more[n].kind \in kinds => n <= LastOf(more, kinds)
    BY <1>1, LastOfSequence
  <1>3. CASE r.kind \in kinds
    BY <1>1, <1>2, <1>3 DEF more
  <1>4. CASE r.kind \notin kinds
    BY <1>1, <1>2, <1>4, LastOfSequence DEF more
  <1> QED BY <1>3, <1>4

----------------------------------------------------------------------------
(* An act.                                                                 *)

\* Only a merge names another page.
LEMMA CommandShape ==
    ASSUME NEW c \in Commands
    PROVE  /\ c \in CommandType
           /\ c.kind = "merge" => c.into \in Incidents
           /\ c.kind # "merge" => c.into = NoPage
  <1>1. CASE \E k \in {"record-action", "reopen"} : c = Command(k, 0, TRUE, NoPage)
    BY <1>1 DEF Command, CommandType, Kinds
  <1>2. CASE \E k \in {"start-monitoring", "extend-monitoring"}, u \in Untils :
                c = Command(k, u, TRUE, NoPage)
    BY <1>2, LifecycleAssumption DEF Command, CommandType, Kinds
  <1>3. CASE \E b \in BOOLEAN : c = Command("resolve", 0, b, NoPage)
    BY <1>3 DEF Command, CommandType, Kinds
  <1>4. CASE \E i \in Incidents : c = Command("merge", 0, TRUE, i)
    BY <1>4 DEF Command, CommandType, Kinds
  <1> QED BY <1>1, <1>2, <1>3, <1>4 DEF Commands

LEMMA DayIsNat == ASSUME NEW at \in Nat PROVE Day(at) \in Nat
  BY LifecycleAssumption DEF Day

\* A command leads to one status.
LEMMA Transition ==
    ASSUME NEW i \in Incidents, NEW c \in Commands, NEW at \in Nat, LifecycleTypeOK,
           NextStatus(i, c.kind) # {}
    PROVE  LET after == RecordOf(i, c, at).after
               status == page[i].status
           IN  /\ after \in Status
               /\ c.kind = "record-action" => after = status
               /\ c.kind = "start-monitoring" => after = "monitoring" /\ status \in ACTIVE
               /\ c.kind = "extend-monitoring" => after = "monitoring" /\ status = "monitoring"
               /\ c.kind \in {"resolve", "merge"} => after = "resolved" /\ status \in ACTIVE
               /\ c.kind = "reopen" => after = "open" /\ status = "resolved"
  <1> DEFINE after == CHOOSE s \in NextStatus(i, c.kind) : TRUE
  <1>1. after \in NextStatus(i, c.kind)
    OBVIOUS
  <1>2. <<page[i].status, c.kind, after>> \in TRANSITIONS
    BY <1>1 DEF NextStatus, TRANSITIONS
  <1>3. RecordOf(i, c, at).after = after
    BY DEF RecordOf, Record
  <1> HIDE DEF after
  <1> QED BY <1>2, <1>3 DEF TRANSITIONS, Status, ACTIVE

LEMMA RecordIsTyped ==
    ASSUME NEW i \in Incidents, NEW c \in Commands, NEW at \in Nat, LifecycleTypeOK,
           Buildable(i, c, at)
    PROVE  /\ RecordOf(i, c, at) \in ActionRecords
           /\ RecordOf(i, c, at).at = at /\ RecordOf(i, c, at).kind = c.kind
           /\ RecordOf(i, c, at).pages = c.pages /\ RecordOf(i, c, at).into = c.into
           /\ RecordOf(i, c, at).window = WindowAfter(i, c, at)
  <1>1. NextStatus(i, c.kind) # {} /\ WindowHolds(i, c, at)
    BY DEF Buildable
  <1>2. RecordOf(i, c, at).after \in Status
    BY <1>1, Transition
  <1>3. c \in CommandType
    BY CommandShape
  <1>4. page[i].window \in Intervals \cup {NoWindow}
    BY DEF LifecycleTypeOK, IncidentPages
  <1>5. WindowAfter(i, c, at) \in Intervals \cup {NoWindow}
    BY <1>1, <1>3, <1>4 DEF WindowHolds, Extends, WindowAfter, MonitoringWindow, Intervals, CommandType
  <1> QED BY <1>2, <1>3, <1>5 DEF RecordOf, Record, ActionRecords, CommandType

LEMMA KeptRecordIsTyped ==
    ASSUME NEW i \in Incidents, NEW kept \in Incidents, NEW at \in Nat, LifecycleTypeOK
    PROVE  /\ KeptRecord(i, kept, at) \in ActionRecords
           /\ KeptRecord(i, kept, at).at = at
           /\ KeptRecord(i, kept, at).kind = "record-action"
           /\ KeptRecord(i, kept, at).after = page[kept].status
           /\ KeptRecord(i, kept, at).window = page[kept].window
           /\ KeptRecord(i, kept, at).into = i
  BY DEF KeptRecord, ActionRecords, LifecycleTypeOK, IncidentPages, Kinds

\* A record that collides with nothing is appended, or is there already.
LEMMA WrittenIsAppended ==
    ASSUME NEW i \in Incidents, NEW r \in ActionRecords, LifecycleTypeOK, ~Collides(i, r)
    PROVE  /\ WrittenIn(i, r) \in IncidentPages
           /\ WrittenIn(i, r).status = r.after /\ WrittenIn(i, r).window = r.window
           /\ WrittenIn(i, r).evidence = page[i].evidence
           /\ WrittenIn(i, r).updates = page[i].updates
           /\ \/ /\ Held(i, r.at) = {}
                 /\ WrittenIn(i, r).actions = Append(page[i].actions, r)
              \/ /\ Held(i, r.at) # {} /\ r \in ToSet(page[i].actions)
                 /\ WrittenIn(i, r).actions = page[i].actions
  <1> DEFINE actions == page[i].actions
             new == IF Held(i, r.at) = {} THEN Append(actions, r)
                    ELSE [k \in DOMAIN actions |-> IF actions[k].at = r.at THEN r ELSE actions[k]]
  <1>1. page[i] \in IncidentPages /\ actions \in Seq(ActionRecords)
    BY DEF LifecycleTypeOK, IncidentPages
  <1>2. r.after \in Status /\ r.window \in Intervals \cup {NoWindow}
    BY DEF ActionRecords
  <1>3. WrittenIn(i, r) = [page[i] EXCEPT !.status = r.after, !.window = r.window, !.actions = new]
    BY DEF WrittenIn
  <1>4. CASE Held(i, r.at) = {}
    <2>1. new = Append(actions, r) /\ new \in Seq(ActionRecords)
      BY <1>1, <1>4
    <2> HIDE DEF new
    <2> QED BY <1>1, <1>2, <1>3, <1>4, <2>1 DEF IncidentPages
  <1>5. CASE Held(i, r.at) # {}
    <2>1. \A k \in DOMAIN actions : actions[k].at = r.at => actions[k] = r
      BY DEF Collides, Held, ToSet
    <2>2. new = actions
      BY <1>1, <1>5, <2>1
    <2>3. r \in ToSet(actions)
      BY <1>5 DEF Collides, Held
    <2> HIDE DEF new
    <2> QED BY <1>1, <1>2, <1>3, <1>5, <2>2, <2>3 DEF IncidentPages
  <1> QED BY <1>4, <1>5

\* What a published act does to the actions of page j: record r is the last of
\* them, or nothing is new.
Takes(j, r) ==
    \/ /\ Held(j, r.at) = {}
       /\ page'[j].actions = Append(page[j].actions, r)
    \/ /\ Held(j, r.at) # {} /\ r \in ToSet(page[j].actions)
       /\ page'[j].actions = page[j].actions

\* The page a merge keeps repeats its status, takes the record of the merge
\* and what the duplicate cited.
LEMMA KeptPageAbsorbs ==
    ASSUME NEW i \in Incidents, NEW kept \in Incidents, NEW at \in Nat, LifecycleTypeOK,
           ~Collides(kept, KeptRecord(i, kept, at)),
           page'[kept] = Absorbs(kept, i, KeptRecord(i, kept, at))
    PROVE  /\ page'[kept] \in IncidentPages
           /\ page'[kept].status = page[kept].status
           /\ page'[kept].window = page[kept].window
           /\ page'[kept].evidence = page[kept].evidence \cup page[i].evidence
           /\ Takes(kept, KeptRecord(i, kept, at))
  <1> DEFINE r == KeptRecord(i, kept, at)
             written == WrittenIn(kept, r)
             updates == {u \in page[i].updates : \A own \in written.updates : own.day # u.day}
  <1>1. r \in ActionRecords /\ r.after = page[kept].status /\ r.window = page[kept].window
    BY KeptRecordIsTyped
  <1> HIDE DEF r
  <1>2. ~Collides(kept, r) /\ page'[kept] = Absorbs(kept, i, r)
    BY DEF r
  <1>3. /\ written \in IncidentPages
        /\ written.status = r.after /\ written.window = r.window
        /\ written.evidence = page[kept].evidence
        /\ \/ Held(kept, r.at) = {} /\ written.actions = Append(page[kept].actions, r)
           \/ /\ Held(kept, r.at) # {} /\ r \in ToSet(page[kept].actions)
              /\ written.actions = page[kept].actions
    BY <1>1, <1>2, WrittenIsAppended
  <1>4. page[i].evidence \in SUBSET Nat /\ page[i].updates \in SUBSET Updates
    BY DEF LifecycleTypeOK, IncidentPages
  <1>5. page'[kept] = [written EXCEPT !.evidence = @ \cup page[i].evidence,
                                      !.updates = @ \cup updates]
    BY <1>2 DEF Absorbs
  <1>6. updates \subseteq Updates
    BY <1>4
  <1> HIDE DEF written, updates
  <1>7. /\ page'[kept] \in IncidentPages
        /\ page'[kept].status = written.status /\ page'[kept].window = written.window
        /\ page'[kept].actions = written.actions
        /\ page'[kept].evidence = written.evidence \cup page[i].evidence
    BY <1>3, <1>4, <1>5, <1>6 DEF IncidentPages
  <1> QED BY <1>1, <1>3, <1>7 DEF Takes, r

\* What an act does to the pages.
LEMMA PublishedPages ==
    ASSUME LifecycleTypeOK, NEW a \in pinned, Publish(a)
    PROVE  LET i == a.incident
               c == a.command
               r == RecordOf(i, c, a.at)
               kept == KeptRecord(i, c.into, a.at)
           IN  /\ i \in Incidents /\ c \in Commands /\ a.at \in Nat
               /\ r \in ActionRecords /\ r.at = a.at /\ r.kind = c.kind
               /\ r.pages = c.pages /\ r.into = c.into
               /\ NextStatus(i, c.kind) # {} /\ r.window = WindowAfter(i, c, a.at)
               /\ WindowHolds(i, c, a.at)
               /\ page' \in [Incidents -> IncidentPages]
               /\ Takes(i, r)
               /\ page'[i].status = r.after /\ page'[i].window = r.window
               /\ page'[i].evidence = page[i].evidence
               /\ c.kind = "merge" =>
                     /\ c.into \in Incidents \ {i} /\ page[c.into].status \in ACTIVE
                     /\ Takes(c.into, kept)
                     /\ page'[c.into].status = page[c.into].status
                     /\ page'[c.into].window = page[c.into].window
                     /\ page'[c.into].evidence = page[c.into].evidence \cup page[i].evidence
               /\ \A j \in Incidents :
                     j = i \/ (c.kind = "merge" /\ j = c.into) \/ page'[j] = page[j]
  <1> DEFINE i == a.incident
             c == a.command
             r == RecordOf(i, c, a.at)
             kept == KeptRecord(i, c.into, a.at)
  <1>1. i \in Incidents /\ c \in Commands /\ a.at \in Nat
    BY DEF LifecycleTypeOK
  <1>2. Buildable(i, c, a.at) /\ ~Collision(i, c, a.at)
    BY DEF Publish
  <1>3. /\ r \in ActionRecords /\ r.at = a.at /\ r.kind = c.kind
        /\ r.pages = c.pages /\ r.into = c.into /\ r.window = WindowAfter(i, c, a.at)
    BY <1>1, <1>2, RecordIsTyped
  <1>4. ~Collides(i, r) /\ (c.kind = "merge" => ~Collides(c.into, kept))
    BY <1>2 DEF Collision
  <1>5. page' = [j \in Incidents |->
                    IF j = i THEN WrittenIn(i, r)
                    ELSE IF c.kind = "merge" /\ j = c.into
                         THEN Absorbs(j, i, KeptRecord(i, j, a.at))
                    ELSE page[j]]
    BY DEF Publish
  <1>6. /\ NextStatus(i, c.kind) # {} /\ WindowHolds(i, c, a.at)
        /\ c.kind = "merge" => /\ c.into \in Incidents \ {i}
                               /\ page[c.into].status \in ACTIVE
    BY <1>1, <1>2, CommandShape DEF Buildable, MergeStands, MERGE_KEEPS
  <1> HIDE DEF i, c, r
  <1>7. /\ page'[i] \in IncidentPages /\ Takes(i, r)
        /\ page'[i].status = r.after /\ page'[i].window = r.window
        /\ page'[i].evidence = page[i].evidence
    BY <1>1, <1>3, <1>4, <1>5, WrittenIsAppended DEF Takes
  <1>8. ASSUME c.kind = "merge"
        PROVE  /\ page'[c.into] \in IncidentPages /\ Takes(c.into, kept)
               /\ page'[c.into].status = page[c.into].status
               /\ page'[c.into].window = page[c.into].window
               /\ page'[c.into].evidence = page[c.into].evidence \cup page[i].evidence
    <2>1. page'[c.into] = Absorbs(c.into, i, kept) /\ ~Collides(c.into, kept)
      BY <1>4, <1>5, <1>6, <1>8
    <2> QED BY <1>1, <1>6, <1>8, <2>1, KeptPageAbsorbs
  <1>9. \A j \in Incidents :
           j = i \/ (c.kind = "merge" /\ j = c.into) \/ page'[j] = page[j]
    BY <1>5
  <1>10. page' \in [Incidents -> IncidentPages]
    <2>1. \A j \in Incidents : page'[j] \in IncidentPages
      BY <1>7, <1>8, <1>9 DEF LifecycleTypeOK
    <2>2. page' = [j \in Incidents |-> page'[j]]
      BY <1>5
    <2> QED BY <2>1, <2>2
  <1> HIDE DEF kept
  <1>11. /\ c.kind = "merge" =>
                     /\ c.into \in Incidents \ {i} /\ page[c.into].status \in ACTIVE
                     /\ Takes(c.into, kept)
                     /\ page'[c.into].status = page[c.into].status
                     /\ page'[c.into].window = page[c.into].window
                     /\ page'[c.into].evidence = page[c.into].evidence \cup page[i].evidence
    BY <1>6, <1>8
  <1> QED BY <1>1, <1>3, <1>6, <1>7, <1>9, <1>10, <1>11 DEF i, c, r, kept

----------------------------------------------------------------------------
(* Types.                                                                  *)

LEMMA MovedIsListed ==
    ASSUME LifecycleTypeOK, NEW i \in Incidents, NEW c
    PROVE  Listed(i, c) \in SUBSET {"Open", "Resolved"}
  BY DEF Listed, MovedTo, LifecycleTypeOK

\* The rows an act writes, and the rows a sweep finds missing.
LEMMA RowsAreTyped ==
    ASSUME LifecycleTypeOK, NEW i \in Incidents, NEW c, NEW at \in Nat
    PROVE  RowsAfter(i, c, at) \in [Codes -> SUBSET Rows]
  <1>1. ResolutionRow(i, at) \in Rows
    BY DayIsNat DEF ResolutionRow, Rows
  <1> QED BY <1>1 DEF RowsAfter, WithRow, LifecycleTypeOK

LEMMA PublishKeepsTypes ==
    ASSUME LifecycleTypeOK, NEW a \in pinned, Publish(a)
    PROVE  LifecycleTypeOK'
  <1> DEFINE i == a.incident
             c == a.command
  <1>1. /\ i \in Incidents /\ c \in Commands /\ a.at \in Nat
        /\ page' \in [Incidents -> IncidentPages]
    BY PublishedPages
  <1>2. c.kind \in Kinds /\ c.into \in Incidents \cup {NoPage}
    BY <1>1, CommandShape DEF CommandType
  <1>3. /\ listed' = [listed EXCEPT ![i] = Listed(i, c)]
        /\ log' = log \cup {<<a.at, i, c.kind>>} /\ rows' = RowsAfter(i, c, a.at)
        /\ replayed' \subseteq replayed \cup ({i, c.into} \ {NoPage})
        /\ UNCHANGED <<instant, linked, errors, pinned>>
    BY DEF Publish
  <1>4. rows' \in [Codes -> SUBSET Rows]
    BY <1>1, <1>3, RowsAreTyped
  <1>5. listed' \in [Incidents -> SUBSET {"Open", "Resolved"}]
    BY <1>1, <1>3, MovedIsListed DEF LifecycleTypeOK
  <1>6. log' \in SUBSET (Nat \X Incidents \X Kinds)
    BY <1>1, <1>2, <1>3 DEF LifecycleTypeOK
  <1>7. replayed' \subseteq Incidents
    BY <1>1, <1>2, <1>3 DEF LifecycleTypeOK
  <1> QED BY <1>1, <1>3, <1>4, <1>5, <1>6, <1>7 DEF LifecycleTypeOK

LEMMA LifecycleTypeStep ==
    ASSUME LifecycleTypeOK, [LifecycleNext]_lifecycle
    PROVE  LifecycleTypeOK'
  <1>1. CASE SecondElapses
    BY <1>1 DEF SecondElapses, LifecycleTypeOK
  <1>2. ASSUME NEW i \in Incidents, NEW c \in Commands, Pin(i, c)
        PROVE  LifecycleTypeOK'
    <2>1. PICK at \in instant .. LastPin :
             pinned' = pinned \cup {[incident |-> i, command |-> c, at |-> at]}
      BY <1>2 DEF Pin
    <2>2. at \in Nat
      BY LifecycleAssumption DEF LifecycleTypeOK
    <2> QED BY <1>2, <2>1, <2>2 DEF Pin, LifecycleTypeOK
  <1>3. ASSUME NEW a \in pinned, Publish(a)
        PROVE  LifecycleTypeOK'
    BY <1>3, PublishKeepsTypes
  <1>4. ASSUME NEW i \in Incidents, Ingest(i)
        PROVE  LifecycleTypeOK'
    <2> DEFINE today == [day |-> Day(instant), of |-> i]
               new == [page[i] EXCEPT
                         !.evidence = @ \cup {Day(instant)},
                         !.updates = {u \in @ : u.day # Day(instant)} \cup {today}]
    <2>1. Day(instant) \in Nat /\ today \in Updates
      BY DayIsNat DEF LifecycleTypeOK, Updates
    <2>2. page[i] \in IncidentPages
      BY DEF LifecycleTypeOK
    <2>3. new \in IncidentPages
      BY <2>1, <2>2 DEF IncidentPages
    <2>4. page' = [page EXCEPT ![i] = new]
      BY <1>4 DEF Ingest, LifecycleTypeOK
    <2> HIDE DEF new
    <2> QED BY <1>4, <2>3, <2>4 DEF Ingest, LifecycleTypeOK
  <1>5. ASSUME NEW e \in Codes, IngestError(e)
        PROVE  LifecycleTypeOK'
    BY <1>5 DEF IngestError, LifecycleTypeOK
  <1>6. CASE LinkCodes
    BY <1>6 DEF LinkCodes, LifecycleTypeOK
  <1>7. CASE BackfillResolutions
    <2>1. ASSUME NEW i \in Incidents, LastResolve(i) # 0
          PROVE  OwedRow(i) \in Rows
      <3>1. page[i].actions \in Seq(ActionRecords)
        BY DEF LifecycleTypeOK, IncidentPages
      <3>2. LastResolve(i) \in DOMAIN page[i].actions
        BY <2>1, <3>1, LastOfSequence DEF LastResolve
      <3>3. page[i].actions[LastResolve(i)] \in ActionRecords
        BY <3>1, <3>2
      <3>4. page[i].actions[LastResolve(i)].at \in Nat
        BY <3>3 DEF ActionRecords
      <3> QED BY <3>4, DayIsNat DEF OwedRow, ResolutionRow, Rows
    <2> QED BY <1>7, <2>1 DEF BackfillResolutions, Owed, LifecycleTypeOK
  <1>8. CASE UNCHANGED lifecycle
    BY <1>8 DEF lifecycle, LifecycleTypeOK
  <1> QED BY <1>1, <1>2, <1>3, <1>4, <1>5, <1>6, <1>7, <1>8 DEF LifecycleNext

----------------------------------------------------------------------------
(* What log.md tells.                                                      *)

\* Whatever an act does to page j, j holds what it held, and r if r is new.
LEMMA TakesHolds ==
    ASSUME LifecycleTypeOK, NEW j \in Incidents, NEW r \in ActionRecords, Takes(j, r)
    PROVE  /\ ToSet(page'[j].actions) = ToSet(page[j].actions) \cup {r}
           /\ \A at : Held(j, at)' = Held(j, at) \cup (IF r.at = at THEN {r} ELSE {})
  <1>1. page[j].actions \in Seq(ActionRecords)
    BY DEF LifecycleTypeOK, IncidentPages
  <1>2. ToSet(page'[j].actions) = ToSet(page[j].actions) \cup {r}
    <2>1. CASE page'[j].actions = Append(page[j].actions, r)
      <3> DEFINE old == page[j].actions
                 new == page'[j].actions
      <3>1. /\ DOMAIN old = 1 .. Len(old) /\ Len(old) \in Nat
            /\ DOMAIN new = 1 .. Len(old) + 1 /\ new[Len(old) + 1] = r
            /\ \A n \in DOMAIN old : new[n] = old[n]
        BY <1>1, <2>1
      <3> HIDE DEF old, new
      <3>2. {new[n] : n \in DOMAIN new} = {old[n] : n \in DOMAIN old} \cup {r}
        BY <3>1
      <3> QED BY <3>2 DEF ToSet, old, new
    <2>2. CASE page'[j].actions = page[j].actions /\ r \in ToSet(page[j].actions)
      BY <2>2
    <2> QED BY <2>1, <2>2 DEF Takes
  <1> QED BY <1>2 DEF Held

LEMMA LogStep ==
    ASSUME LifecycleTypeOK, LogTellsEveryAct, NEW a \in pinned, Publish(a)
    PROVE  LogTellsEveryAct'
  <1> DEFINE i == a.incident
             c == a.command
             r == RecordOf(i, c, a.at)
             kept == KeptRecord(i, c.into, a.at)
  <1>1. /\ i \in Incidents /\ c \in Commands /\ a.at \in Nat
        /\ r \in ActionRecords /\ r.at = a.at /\ r.kind = c.kind
        /\ Takes(i, r)
        /\ c.kind = "merge" => c.into \in Incidents \ {i} /\ Takes(c.into, kept)
        /\ \A j \in Incidents :
              j = i \/ (c.kind = "merge" /\ j = c.into) \/ page'[j] = page[j]
    BY PublishedPages
  <1>2. c.kind = "merge" => /\ kept \in ActionRecords /\ kept.at = a.at
                            /\ kept.kind = "record-action" /\ kept.into = i
    BY <1>1, KeptRecordIsTyped
  <1>3. log' = log \cup {<<a.at, i, c.kind>>}
    BY DEF Publish
  <1> HIDE DEF i, c, r, kept
  <1>4. /\ ToSet(page'[i].actions) = ToSet(page[i].actions) \cup {r}
        /\ \A at : Held(i, at)' = Held(i, at) \cup (IF r.at = at THEN {r} ELSE {})
    BY <1>1, TakesHolds
  <1>5. c.kind = "merge" =>
           /\ ToSet(page'[c.into].actions) = ToSet(page[c.into].actions) \cup {kept}
           /\ \A at : Held(c.into, at)'
                         = Held(c.into, at) \cup (IF kept.at = at THEN {kept} ELSE {})
    BY <1>1, <1>2, TakesHolds
  <1>6. ASSUME NEW j \in Incidents, NEW line \in log', line[2] = j
        PROVE  \E h \in Held(j, line[1])' : h.kind = line[3]
    <2>1. CASE line = <<a.at, i, c.kind>>
      BY <1>1, <1>4, <1>6, <2>1
    <2>2. CASE line \in log
      <3>1. PICK h \in Held(j, line[1]) : h.kind = line[3]
        BY <1>6, <2>2 DEF LogTellsEveryAct
      <3>2. h \in Held(j, line[1])'
        BY <1>1, <1>4, <1>5, <3>1 DEF Held
      <3> QED BY <3>1, <3>2
    <2> QED BY <1>3, <2>1, <2>2
  <1>7. ASSUME NEW j \in Incidents, NEW h \in ToSet(page'[j].actions)
        PROVE  \/ <<h.at, j, h.kind>> \in log'
               \/ h.kind = "record-action" /\ h.into # NoPage
    <2>1. CASE h \in ToSet(page[j].actions)
      BY <1>3, <2>1 DEF LogTellsEveryAct
    <2>2. CASE j = i /\ h = r
      BY <1>1, <1>3, <2>2
    <2>3. CASE c.kind = "merge" /\ j = c.into /\ h = kept
      BY <1>1, <1>2, <2>3, LifecycleAssumption
    <2> QED BY <1>1, <1>4, <1>5, <1>7, <2>1, <2>2, <2>3
  <1> QED BY <1>6, <1>7 DEF LogTellsEveryAct

----------------------------------------------------------------------------
(* What the other places tell.                                             *)

\* Every row of an error page is of an incident that links it.
RowsAreLinked ==
    \A e \in Codes : \A row \in rows[e] : e \in linked[row.incident] \cap errors

StatusesAgree == \A i \in Incidents \ replayed : StatusAgrees(i)

LEMMA StatusStep ==
    ASSUME LifecycleTypeOK, StatusesAgree, NEW a \in pinned, Publish(a)
    PROVE  StatusesAgree'
  <1> DEFINE i == a.incident
             c == a.command
             r == RecordOf(i, c, a.at)
             kept == KeptRecord(i, c.into, a.at)
  <1>1. /\ i \in Incidents /\ c \in Commands /\ a.at \in Nat
        /\ r \in ActionRecords /\ r.at = a.at /\ r.kind = c.kind
        /\ NextStatus(i, c.kind) # {} /\ r.window = WindowAfter(i, c, a.at)
        /\ WindowHolds(i, c, a.at)
        /\ Takes(i, r) /\ page'[i].status = r.after /\ page'[i].window = r.window
        /\ c.kind = "merge" =>
              /\ c.into \in Incidents \ {i} /\ Takes(c.into, kept)
              /\ page'[c.into].status = page[c.into].status
              /\ page'[c.into].window = page[c.into].window
        /\ \A j \in Incidents :
              j = i \/ (c.kind = "merge" /\ j = c.into) \/ page'[j] = page[j]
    BY PublishedPages
  <1>2. /\ listed' = [listed EXCEPT ![i] = Listed(i, c)]
        /\ Held(i, a.at) # {} => i \in replayed'
        /\ replayed \subseteq replayed'
    <2>1. i # NoPage
      BY <1>1, LifecycleAssumption
    <2> QED BY <2>1 DEF Publish
  <1>3. ASSUME c.kind = "merge"
        PROVE  kept.after = page[c.into].status /\ kept \in ActionRecords
    BY <1>1, <1>3, KeptRecordIsTyped
  <1>4. ASSUME i \notin replayed'
        PROVE  StatusAgrees(i)'
    <2>1. StatusAgrees(i) /\ page'[i].actions = Append(page[i].actions, r)
      BY <1>1, <1>2, <1>4 DEF StatusesAgree, Takes
    <2>2. page[i].actions \in Seq(ActionRecords) /\ page[i].status \in Status
      BY <1>1 DEF LifecycleTypeOK, IncidentPages
    <2>3. Last(page'[i].actions) = r
      BY <1>1, <2>1, <2>2 DEF Last
    <2>4. /\ c.kind = "record-action" => r.after = page[i].status
          /\ c.kind = "start-monitoring" => r.after = "monitoring" /\ page[i].status \in ACTIVE
          /\ c.kind = "extend-monitoring" => r.after = "monitoring" /\ page[i].status = "monitoring"
          /\ c.kind \in {"resolve", "merge"} => r.after = "resolved" /\ page[i].status \in ACTIVE
          /\ c.kind = "reopen" => r.after = "open" /\ page[i].status = "resolved"
      BY <1>1, Transition
    <2>5. c.kind \in Kinds /\ c.until \in Nat
      BY <1>1, CommandShape DEF CommandType
    <2>6. listed'[i] = Listed(i, c)
      BY <1>1, <1>2 DEF LifecycleTypeOK
    <2>7. listed'[i] = IF page'[i].status \in ACTIVE THEN {"Open"} ELSE {"Resolved"}
      BY <1>1, <2>1, <2>2, <2>4, <2>5, <2>6
         DEF StatusAgrees, Listed, MovedTo, ACTIVE, Kinds, Status
    <2>8. page'[i].window # NoWindow <=> page'[i].status = "monitoring"
      <3>1. c.kind \in {"start-monitoring", "extend-monitoring"} => r.window \in Intervals
        <4>1. page[i].window \in Intervals \cup {NoWindow}
          BY <1>1 DEF LifecycleTypeOK, IncidentPages
        <4> QED BY <1>1, <2>5, <4>1 DEF WindowAfter, WindowHolds, Extends, MonitoringWindow, Intervals
      <3>2. NoWindow \notin Intervals
        BY LifecycleAssumption DEF Intervals
      <3>3. CASE c.kind \in {"start-monitoring", "extend-monitoring"}
        BY <1>1, <2>4, <3>1, <3>2, <3>3
      <3>4. CASE c.kind \in {"resolve", "merge", "reopen"}
        BY <1>1, <2>4, <3>4 DEF WindowAfter
      <3>5. CASE c.kind = "record-action"
        BY <1>1, <2>1, <2>4, <3>5 DEF WindowAfter, StatusAgrees
      <3> QED BY <2>5, <3>3, <3>4, <3>5 DEF Kinds
    <2> QED BY <1>1, <2>3, <2>7, <2>8 DEF StatusAgrees
  <1>5. ASSUME NEW j \in Incidents, j \notin replayed', j # i, c.kind = "merge", j = c.into
        PROVE  StatusAgrees(j)'
    <2>1. StatusAgrees(j) /\ listed'[j] = listed[j]
      BY <1>2, <1>5 DEF StatusesAgree, LifecycleTypeOK
    <2>2. page[j].actions \in Seq(ActionRecords)
      BY DEF LifecycleTypeOK, IncidentPages
    <2>3. page'[j].status = page[j].status /\ page'[j].window = page[j].window
      BY <1>1, <1>5
    <2>4. CASE page'[j].actions = page[j].actions
      BY <2>1, <2>3, <2>4 DEF StatusAgrees
    <2>5. CASE page'[j].actions = Append(page[j].actions, kept)
      <3>1. kept \in ActionRecords
        BY <1>3, <1>5
      <3> HIDE DEF kept
      <3>2. Last(page'[j].actions) = kept
        BY <3>1, <2>2, <2>5 DEF Last
      <3> QED BY <1>3, <1>5, <2>1, <2>3, <3>2 DEF StatusAgrees
    <2> QED BY <1>1, <1>5, <2>4, <2>5 DEF Takes
  <1>6. ASSUME NEW j \in Incidents, j \notin replayed', page'[j] = page[j], j # i
        PROVE  StatusAgrees(j)'
    <2>1. StatusAgrees(j) /\ listed'[j] = listed[j]
      BY <1>2, <1>6 DEF StatusesAgree, LifecycleTypeOK
    <2> QED BY <1>6, <2>1 DEF StatusAgrees
  <1> QED BY <1>1, <1>4, <1>5, <1>6 DEF StatusesAgree

----------------------------------------------------------------------------
(* The rows of the error pages.                                            *)

\* The account of a row: a resolve of its day that wanted it, the last one
\* unless an act was published again.
Accounted(row) ==
    \E n \in ResolvesOn(row.incident, row.day) :
        /\ page[row.incident].actions[n].at = row.at
        /\ row.incident \notin replayed => \A m \in ResolvesOn(row.incident, row.day) : m <= n

\* One row of an incident and a day.
OneRow(table) ==
    \A row, other \in table :
        other.incident = row.incident /\ other.day = row.day => other = row

RowsAccounted ==
    /\ RowsAreLinked
    /\ \A e \in Codes : OneRow(rows[e]) /\ \A row \in rows[e] : Accounted(row)

LEMMA ResolvesAppended ==
    ASSUME LifecycleTypeOK, NEW j \in Incidents, NEW r \in ActionRecords, NEW day,
           page'[j].actions = Append(page[j].actions, r)
    PROVE  /\ ResolvesOn(j, day)' = ResolvesOn(j, day) \cup
                 (IF r.kind = "resolve" /\ r.pages /\ Day(r.at) = day
                  THEN {Len(page[j].actions) + 1} ELSE {})
           /\ page'[j].actions[Len(page[j].actions) + 1] = r
           /\ \A n \in ResolvesOn(j, day) :
                 /\ page'[j].actions[n] = page[j].actions[n]
                 /\ n <= Len(page[j].actions) + 1
  <1> DEFINE old == page[j].actions
             new == page'[j].actions
  <1>1. old \in Seq(ActionRecords)
    BY DEF LifecycleTypeOK, IncidentPages
  <1>2. /\ DOMAIN old = 1 .. Len(old) /\ Len(old) \in Nat
        /\ DOMAIN new = 1 .. Len(old) + 1 /\ new[Len(old) + 1] = r
        /\ \A n \in DOMAIN old : new[n] = old[n]
    BY <1>1
  <1>3. /\ ResolvesOn(j, day)
              = {n \in DOMAIN old : old[n].kind = "resolve" /\ old[n].pages /\ Day(old[n].at) = day}
        /\ ResolvesOn(j, day)'
              = {n \in DOMAIN new : new[n].kind = "resolve" /\ new[n].pages /\ Day(new[n].at) = day}
    BY DEF ResolvesOn, Day
  <1> HIDE DEF old, new
  <1>4. /\ ResolvesOn(j, day)' = ResolvesOn(j, day) \cup
                 (IF r.kind = "resolve" /\ r.pages /\ Day(r.at) = day
                  THEN {Len(old) + 1} ELSE {})
        /\ \A n \in ResolvesOn(j, day) : new[n] = old[n] /\ n <= Len(old) + 1
    BY <1>2, <1>3
  <1> QED BY <1>2, <1>4 DEF old, new

\* Where no resolve of its day was written, a row stays the account it was.
LEMMA AccountStands ==
    ASSUME LifecycleTypeOK, replayed \subseteq replayed',
           NEW j \in Incidents, NEW day, NEW row, row.incident = j, row.day = day,
           Accounted(row),
           \/ page'[j].actions = page[j].actions
           \/ \E r \in ActionRecords :
                 /\ page'[j].actions = Append(page[j].actions, r)
                 /\ ~ (r.kind = "resolve" /\ r.pages /\ Day(r.at) = day)
    PROVE  Accounted(row)'
  <1>1. PICK n \in ResolvesOn(j, day) :
           /\ page[j].actions[n].at = row.at
           /\ j \notin replayed => \A m \in ResolvesOn(j, day) : m <= n
    BY DEF Accounted
  <1>2. CASE page'[j].actions = page[j].actions
    <2>1. ResolvesOn(j, day)' = ResolvesOn(j, day)
      BY <1>2 DEF ResolvesOn
    <2> QED BY <1>1, <1>2, <2>1 DEF Accounted
  <1>3. ASSUME NEW r \in ActionRecords, page'[j].actions = Append(page[j].actions, r),
               ~ (r.kind = "resolve" /\ r.pages /\ Day(r.at) = day)
        PROVE  Accounted(row)'
    <2>1. r \in ActionRecords /\ page'[j].actions = Append(page[j].actions, r)
      BY <1>3
    <2>2. ResolvesOn(j, day)' = ResolvesOn(j, day) \cup
                 (IF r.kind = "resolve" /\ r.pages /\ Day(r.at) = day
                  THEN {Len(page[j].actions) + 1} ELSE {})
      BY <2>1, ResolvesAppended
    <2>3. ResolvesOn(j, day)' = ResolvesOn(j, day)
      BY <1>3, <2>2
    <2>4. page[j].actions \in Seq(ActionRecords) /\ n \in DOMAIN page[j].actions
      BY <1>1 DEF LifecycleTypeOK, IncidentPages, ResolvesOn
    <2>5. page'[j].actions[n] = page[j].actions[n]
      BY <2>1, <2>4
    <2> QED BY <1>1, <2>3, <2>5 DEF Accounted
  <1> QED BY <1>2, <1>3

LEMMA RowStep ==
    ASSUME LifecycleTypeOK, RowsAccounted, NEW a \in pinned, Publish(a)
    PROVE  RowsAccounted'
  <1> DEFINE i == a.incident
             c == a.command
             r == RecordOf(i, c, a.at)
             kept == KeptRecord(i, c.into, a.at)
             added == ResolutionRow(i, a.at)
  <1>1. /\ i \in Incidents /\ c \in Commands /\ a.at \in Nat
        /\ r \in ActionRecords /\ r.at = a.at /\ r.kind = c.kind /\ r.pages = c.pages
        /\ Takes(i, r)
        /\ c.kind = "merge" => c.into \in Incidents \ {i} /\ Takes(c.into, kept)
        /\ \A j \in Incidents :
              j = i \/ (c.kind = "merge" /\ j = c.into) \/ page'[j] = page[j]
    BY PublishedPages
  <1>2. /\ rows' = RowsAfter(i, c, a.at)
        /\ Held(i, a.at) # {} => i \in replayed'
        /\ replayed \subseteq replayed'
        /\ UNCHANGED <<linked, errors>>
    <2>1. i # NoPage
      BY <1>1, LifecycleAssumption
    <2> QED BY <2>1 DEF Publish
  <1>3. c.kind = "merge" => kept \in ActionRecords /\ kept.kind = "record-action"
    BY <1>1, KeptRecordIsTyped
  <1>4. added.incident = i /\ added.day = Day(a.at) /\ added.at = a.at
    BY DEF ResolutionRow
  <1>pages. r.pages <=> c.pages
    BY <1>1
  <1>5. \A e \in Codes :
           rows'[e] = IF c.kind = "resolve" /\ c.pages /\ e \in linked[i] \cap errors
                      THEN {row \in rows[e] : row.day # added.day \/ row.incident # added.incident}
                              \cup {added}
                      ELSE rows[e]
    BY <1>2 DEF RowsAfter, WithRow
  <1> HIDE DEF i, c, r, kept, added
  <1>6. ASSUME NEW e \in Codes, NEW row \in rows'[e], row # added
        PROVE  Accounted(row)'
    <2>row. row \in rows[e] /\ rows[e] \in SUBSET Rows
      BY <1>5, <1>6 DEF LifecycleTypeOK
    <2>1. row \in rows[e] /\ row.incident \in Incidents /\ Accounted(row)
      BY <2>row DEF RowsAccounted, Rows
    <2>2. e \in linked[row.incident] \cap errors
      BY <2>1 DEF RowsAccounted, RowsAreLinked
    <2>3. CASE row.incident = i
      <3>1. ~ (r.kind = "resolve" /\ r.pages /\ Day(r.at) = row.day)
        <4> SUFFICES ASSUME r.kind = "resolve", r.pages, Day(r.at) = row.day
                     PROVE  FALSE
          OBVIOUS
        <4>1. c.kind = "resolve" /\ c.pages /\ row.day = added.day
          BY <1>1, <1>pages, <1>4
        <4>2. row \in {old \in rows[e] : old.day # added.day \/ old.incident # added.incident}
                         \cup {added}
          BY <1>5, <1>6, <2>2, <2>3, <4>1
        <4> QED BY <1>4, <1>6, <2>3, <4>1, <4>2
      <3> QED BY <1>1, <1>2, <2>1, <2>3, <3>1, AccountStands DEF Takes
    <2>4. CASE c.kind = "merge" /\ row.incident = c.into
      BY <1>1, <1>2, <1>3, <2>1, <2>4, AccountStands DEF Takes
    <2>5. CASE page'[row.incident] = page[row.incident]
      BY <1>2, <2>1, <2>5, AccountStands
    <2> QED BY <1>1, <2>1, <2>3, <2>4, <2>5
  <1>7. ASSUME c.kind = "resolve", c.pages
        PROVE  Accounted(added)'
    <2> DEFINE old == page[i].actions
    <2>1. old \in Seq(ActionRecords)
      BY <1>1 DEF LifecycleTypeOK, IncidentPages
    <2>2. CASE Held(i, r.at) = {} /\ page'[i].actions = Append(old, r)
      <3>act. /\ r.kind = "resolve" /\ r.pages /\ Day(r.at) = Day(a.at)
            /\ Len(old) \in Nat
        BY <1>1, <1>pages, <1>7, <2>1
      <3>1. /\ Len(old) + 1 \in ResolvesOn(i, Day(a.at))'
            /\ page'[i].actions[Len(old) + 1] = r
            /\ \A m \in ResolvesOn(i, Day(a.at))' : m <= Len(old) + 1
        BY <1>1, <2>2, <3>act, ResolvesAppended
      <3> QED BY <1>1, <1>4, <3>1 DEF Accounted
    <2>3. CASE Held(i, r.at) # {} /\ r \in ToSet(old) /\ page'[i].actions = old
      <3>1. PICK n \in DOMAIN old : old[n] = r
        BY <2>3 DEF ToSet
      <3>2. n \in ResolvesOn(i, Day(a.at))' /\ page'[i].actions[n].at = a.at
        BY <1>1, <1>7, <2>3, <3>1 DEF ResolvesOn, Day
      <3>3. i \in replayed'
        BY <1>1, <1>2, <2>3
      <3> QED BY <1>4, <3>2, <3>3 DEF Accounted
    <2> QED BY <1>1, <2>2, <2>3 DEF Takes
  <1>8. ASSUME NEW e \in Codes
        PROVE  OneRow(rows'[e])
    BY <1>5 DEF RowsAccounted, OneRow
  <1>9. RowsAreLinked'
    <2> SUFFICES ASSUME NEW e \in Codes, NEW row \in rows'[e]
                 PROVE  e \in linked[row.incident] \cap errors
      BY <1>2 DEF RowsAreLinked
    <2>1. CASE row = added /\ row \notin rows[e]
      BY <1>4, <1>5, <2>1
    <2>2. CASE row \in rows[e]
      BY <2>2 DEF RowsAccounted, RowsAreLinked
    <2> QED BY <1>5, <2>1, <2>2
  <1>10. \A e \in Codes : added \in rows'[e] => Accounted(added)'
    <2> SUFFICES ASSUME NEW e \in Codes, added \in rows'[e] PROVE Accounted(added)'
      OBVIOUS
    <2>1. CASE c.kind = "resolve" /\ c.pages
      BY <1>7, <2>1
    <2>2. CASE ~ (c.kind = "resolve" /\ c.pages)
      <3>1. added \in rows[e]
        BY <1>5, <2>2
      <3>2. Accounted(added) /\ added.incident \in Incidents
        BY <1>1, <1>4, <3>1 DEF RowsAccounted
      <3> QED BY <1>1, <1>2, <1>4, <2>2, <3>2, AccountStands DEF Takes
    <2> QED BY <2>1, <2>2
  <1> QED BY <1>6, <1>8, <1>9, <1>10 DEF RowsAccounted, OneRow

\* The sweep writes for each incident the account of its last resolve.
LEMMA SweepStep ==
    ASSUME LifecycleTypeOK, RowsAccounted, BackfillResolutions
    PROVE  RowsAccounted'
  <1>1. /\ \A e \in Codes :
              rows'[e] = {row \in rows[e] :
                             ~ \E i \in Owed(e) :
                                   row.incident = i /\ row.day = OwedRow(i).day}
                         \cup {OwedRow(i) : i \in Owed(e)}
        /\ UNCHANGED <<page, linked, errors, replayed>>
    BY DEF BackfillResolutions
  <1>2. ASSUME NEW e \in Codes, NEW i \in Owed(e)
        PROVE  /\ i \in Incidents /\ e \in linked[i] \cap errors
               /\ OwedRow(i).incident = i /\ Accounted(OwedRow(i))
    <2> DEFINE n == LastResolve(i)
               actions == page[i].actions
    <2>1. /\ i \in Incidents /\ n # 0 /\ actions[n].pages
          /\ e \in linked[i] \cap errors
      BY DEF Owed
    <2>2. actions \in Seq(ActionRecords)
      BY <2>1 DEF LifecycleTypeOK, IncidentPages
    <2>3. /\ n \in DOMAIN actions /\ actions[n].kind \in {"resolve"}
          /\ \A m \in DOMAIN actions : actions[m].kind \in {"resolve"} => m <= n
      BY <2>1, <2>2, LastOfSequence DEF LastResolve
    <2>4. /\ OwedRow(i).incident = i /\ OwedRow(i).at = actions[n].at
          /\ OwedRow(i).day = Day(actions[n].at)
      BY DEF OwedRow, ResolutionRow
    <2>5. /\ n \in ResolvesOn(i, Day(actions[n].at))
          /\ \A m \in ResolvesOn(i, Day(actions[n].at)) : m <= n
      BY <2>1, <2>3 DEF ResolvesOn
    <2> QED BY <2>1, <2>4, <2>5 DEF Accounted
  <1>3. ASSUME NEW e \in Codes, NEW row \in rows'[e]
        PROVE  Accounted(row) /\ e \in linked[row.incident] \cap errors
    BY <1>1, <1>2 DEF RowsAccounted, RowsAreLinked
  <1>4. ASSUME NEW e \in Codes
        PROVE  OneRow(rows'[e])
    BY <1>1, <1>2 DEF RowsAccounted, OneRow
  <1>5. \A row : Accounted(row)' <=> Accounted(row)
    BY <1>1 DEF Accounted, ResolvesOn, Day
  <1> QED BY <1>1, <1>3, <1>4, <1>5 DEF RowsAccounted, RowsAreLinked, OneRow

----------------------------------------------------------------------------
(* What closes an incident.                                                *)

\* The property, and that a merged page is not active.
ClosedPages ==
    /\ \A i \in Incidents :
          IF SupersededBy(i) = NoPage
          THEN page[i].status \in ACTIVE \/ LastResolve(i) # 0
          ELSE /\ page[i].status \notin ACTIVE
               /\ page[i].evidence \subseteq page[SupersededBy(i)].evidence
    /\ \A ring \in SUBSET Incidents :
          ring # {} => \E i \in ring : SupersededBy(i) \notin ring
ClosedInv == replayed = {} => ClosedPages

LEMMA SupersededIsTyped ==
    ASSUME LifecycleTypeOK, NEW i \in Incidents
    PROVE  SupersededBy(i) \in Incidents \cup {NoPage}
  <1>1. page[i].actions \in Seq(ActionRecords)
    BY DEF LifecycleTypeOK, IncidentPages
  <1>2. LastMove(i) # 0 => page[i].actions[LastMove(i)] \in ActionRecords
    <2>1. LastMove(i) # 0 => LastMove(i) \in DOMAIN page[i].actions
      BY <1>1, LastOfSequence DEF LastMove
    <2> QED BY <1>1, <2>1
  <1> QED BY <1>2 DEF SupersededBy, ActionRecords

\* Only a merge and a reopen change where a page is merged.
LEMMA SupersededStep ==
    ASSUME LifecycleTypeOK, NEW j \in Incidents, NEW r \in ActionRecords,
           page'[j].actions = Append(page[j].actions, r)
    PROVE  /\ SupersededBy(j)' = IF r.kind = "merge" THEN r.into
                                 ELSE IF r.kind = "reopen" THEN NoPage
                                 ELSE SupersededBy(j)
           /\ LastResolve(j) # 0 \/ r.kind = "resolve" => LastResolve(j)' # 0
  <1> DEFINE old == page[j].actions
             new == page'[j].actions
             moves == {"merge", "reopen"}
  <1>1. old \in Seq(ActionRecords)
    BY DEF LifecycleTypeOK, IncidentPages
  <1>2. /\ LastOf(new, moves) = IF r.kind \in moves THEN Len(old) + 1 ELSE LastOf(old, moves)
        /\ LastOf(new, {"resolve"}) =
              IF r.kind \in {"resolve"} THEN Len(old) + 1 ELSE LastOf(old, {"resolve"})
    <2>1. new = Append(old, r)
      OBVIOUS
    <2> HIDE DEF old, new
    <2>2. \A kinds : LastOf(new, kinds) =
                        IF r.kind \in kinds THEN Len(old) + 1 ELSE LastOf(old, kinds)
      BY <1>1, <2>1, LastOfAppended
    <2> QED BY <2>2
  <1>3. Len(old) \in Nat /\ new[Len(old) + 1] = r /\ \A n \in DOMAIN old : new[n] = old[n]
    BY <1>1
  <1>4. LastOf(old, moves) = 0 \/ LastOf(old, moves) \in DOMAIN old
    BY <1>1, LastOfSequence
  <1>5. /\ SupersededBy(j)' = IF LastOf(new, moves) # 0 /\ new[LastOf(new, moves)].kind = "merge"
                              THEN new[LastOf(new, moves)].into ELSE NoPage
        /\ SupersededBy(j) = IF LastOf(old, moves) # 0 /\ old[LastOf(old, moves)].kind = "merge"
                             THEN old[LastOf(old, moves)].into ELSE NoPage
        /\ LastResolve(j)' = LastOf(new, {"resolve"}) /\ LastResolve(j) = LastOf(old, {"resolve"})
    BY DEF SupersededBy, LastMove, LastResolve
  <1> HIDE DEF old, new
  <1>6. CASE r.kind \in moves
    BY <1>2, <1>3, <1>5, <1>6
  <1>7. CASE r.kind \notin moves
    BY <1>2, <1>3, <1>4, <1>5, <1>7
  <1> QED BY <1>6, <1>7

LEMMA SupersededStands ==
    ASSUME NEW j \in Incidents, page'[j].actions = page[j].actions
    PROVE  SupersededBy(j)' = SupersededBy(j) /\ LastResolve(j)' = LastResolve(j)
  BY DEF SupersededBy, LastMove, LastResolve

LEMMA ClosedStep ==
    ASSUME LifecycleTypeOK, ClosedInv, NEW a \in pinned, Publish(a)
    PROVE  ClosedInv'
  <1> DEFINE i == a.incident
             c == a.command
             r == RecordOf(i, c, a.at)
             kept == KeptRecord(i, c.into, a.at)
             merges == c.kind = "merge"
  <1> SUFFICES ASSUME replayed' = {} PROVE ClosedPages'
    BY DEF ClosedInv
  <1>1. /\ i \in Incidents /\ c \in Commands /\ a.at \in Nat
        /\ r \in ActionRecords /\ r.at = a.at /\ r.kind = c.kind /\ r.into = c.into
        /\ NextStatus(i, c.kind) # {}
        /\ Takes(i, r) /\ page'[i].status = r.after /\ page'[i].evidence = page[i].evidence
        /\ merges =>
              /\ c.into \in Incidents \ {i} /\ page[c.into].status \in ACTIVE
              /\ Takes(c.into, kept)
              /\ page'[c.into].status = page[c.into].status
              /\ page'[c.into].evidence = page[c.into].evidence \cup page[i].evidence
        /\ \A j \in Incidents : j = i \/ (merges /\ j = c.into) \/ page'[j] = page[j]
    BY PublishedPages
  <1>2. replayed = {} /\ Held(i, r.at) = {}
    <2>1. i # NoPage
      BY <1>1, LifecycleAssumption
    <2> QED BY <1>1, <2>1 DEF Publish
  <1>3. ClosedPages
    BY <1>2 DEF ClosedInv
  <1>4. merges => kept \in ActionRecords /\ kept.kind = "record-action"
    BY <1>1, KeptRecordIsTyped
  <1>5. /\ c.kind = "record-action" => r.after = page[i].status
        /\ c.kind = "start-monitoring" => r.after = "monitoring" /\ page[i].status \in ACTIVE
        /\ c.kind = "extend-monitoring" => r.after = "monitoring" /\ page[i].status = "monitoring"
        /\ c.kind \in {"resolve", "merge"} => r.after = "resolved" /\ page[i].status \in ACTIVE
        /\ c.kind = "reopen" => r.after = "open" /\ page[i].status = "resolved"
    BY <1>1, Transition
  <1>6. c.kind \in Kinds /\ NoPage \notin Incidents
    BY <1>1, CommandShape, LifecycleAssumption DEF CommandType
  <1> HIDE DEF i, c, r, kept
  <1>7. /\ SupersededBy(i)' = IF merges THEN c.into
                              ELSE IF c.kind = "reopen" THEN NoPage
                              ELSE SupersededBy(i)
        /\ LastResolve(i) # 0 \/ c.kind = "resolve" => LastResolve(i)' # 0
    <2>1. page'[i].actions = Append(page[i].actions, r)
      BY <1>1, <1>2 DEF Takes
    <2> QED BY <1>1, <2>1, SupersededStep
  <1>8. ASSUME NEW j \in Incidents, j # i
        PROVE  /\ SupersededBy(j)' = SupersededBy(j)
               /\ LastResolve(j) # 0 => LastResolve(j)' # 0
               /\ page'[j].status = page[j].status
    <2>1. CASE page'[j].actions = page[j].actions
      BY <1>1, <1>8, <2>1, SupersededStands
    <2>2. CASE merges /\ j = c.into /\ page'[j].actions = Append(page[j].actions, kept)
      BY <1>1, <1>4, <2>2, SupersededStep
    <2> QED BY <1>1, <1>8, <2>1, <2>2 DEF Takes
  <1>9. \A j \in Incidents : page[j].evidence \subseteq page'[j].evidence
    BY <1>1
  <1>10. ASSUME NEW j \in Incidents, j # i
         PROVE  IF SupersededBy(j)' = NoPage
                THEN page'[j].status \in ACTIVE \/ LastResolve(j)' # 0
                ELSE /\ page'[j].status \notin ACTIVE
                     /\ page'[j].evidence \subseteq page'[SupersededBy(j)'].evidence
    <2>1. SupersededBy(j) \in Incidents \cup {NoPage}
      BY SupersededIsTyped
    <2>2. merges => SupersededBy(c.into) = NoPage
      BY <1>1, <1>3 DEF ClosedPages
    <2>3. SupersededBy(j) # NoPage => page'[j] = page[j]
      BY <1>1, <1>10, <2>2
    <2> QED BY <1>3, <1>8, <1>9, <1>10, <2>1, <2>3 DEF ClosedPages
  <1>11. IF SupersededBy(i)' = NoPage
         THEN page'[i].status \in ACTIVE \/ LastResolve(i)' # 0
         ELSE /\ page'[i].status \notin ACTIVE
              /\ page'[i].evidence \subseteq page'[SupersededBy(i)'].evidence
    <2>1. CASE merges
      <3>1. SupersededBy(i)' = c.into /\ c.into # NoPage
        BY <1>1, <1>6, <1>7, <2>1
      <3> QED BY <1>1, <1>5, <2>1, <3>1 DEF ACTIVE
    <2>2. CASE c.kind = "record-action"
      <3>1. SupersededBy(i)' = SupersededBy(i) /\ page'[i].status = page[i].status
        BY <1>1, <1>5, <1>7, <2>2
      <3>2. SupersededBy(i) \in Incidents \cup {NoPage}
        BY <1>1, SupersededIsTyped
      <3> QED BY <1>1, <1>3, <1>7, <1>9, <3>1, <3>2 DEF ClosedPages
    <2>3. CASE c.kind \in {"start-monitoring", "extend-monitoring", "reopen"}
      <3>1. page'[i].status \in ACTIVE /\ (c.kind # "reopen" => page[i].status \in ACTIVE)
        BY <1>1, <1>5, <2>3 DEF ACTIVE
      <3>2. SupersededBy(i)' = NoPage
        BY <1>1, <1>3, <1>7, <2>3, <3>1 DEF ClosedPages
      <3> QED BY <3>1, <3>2
    <2>4. CASE c.kind = "resolve"
      BY <1>1, <1>3, <1>5, <1>7, <2>4 DEF ClosedPages
    <2> QED BY <1>6, <2>1, <2>2, <2>3, <2>4 DEF Kinds
  <1>12. ASSUME NEW ring \in SUBSET Incidents, ring # {}
         PROVE  \E j \in ring : SupersededBy(j)' \notin ring
    <2>1. PICK k \in ring : SupersededBy(k) \notin ring
      BY <1>3, <1>12 DEF ClosedPages
    <2>2. CASE merges
      <3>1. SupersededBy(c.into)' = NoPage /\ SupersededBy(i)' = c.into
        BY <1>1, <1>3, <1>7, <1>8, <2>2 DEF ClosedPages
      <3> QED BY <1>1, <1>6, <1>8, <2>1, <2>2, <3>1
    <2>3. CASE ~merges
      BY <1>6, <1>7, <1>8, <2>1, <2>3
    <2> QED BY <2>2, <2>3
  <1> QED BY <1>10, <1>11, <1>12 DEF ClosedPages

LEMMA ClosedIngest ==
    ASSUME LifecycleTypeOK, ClosedInv, NEW i \in Incidents, Ingest(i)
    PROVE  ClosedInv'
  <1> SUFFICES ASSUME ClosedPages PROVE ClosedPages'
    BY DEF ClosedInv, Ingest
  <1>1. /\ page[i].status \in ACTIVE
        /\ \A j \in Incidents :
              /\ page'[j].actions = page[j].actions /\ page'[j].status = page[j].status
              /\ page[j].evidence \subseteq page'[j].evidence
              /\ j # i => page'[j] = page[j]
    BY DEF Ingest, LifecycleTypeOK, IncidentPages
  <1>2. \A j \in Incidents : /\ SupersededBy(j)' = SupersededBy(j)
                             /\ LastResolve(j)' = LastResolve(j)
                             /\ SupersededBy(j) \in Incidents \cup {NoPage}
    BY <1>1, SupersededStands, SupersededIsTyped
  <1>3. SupersededBy(i) = NoPage
    BY <1>1 DEF ClosedPages
  <1>4. ASSUME NEW j \in Incidents
        PROVE  IF SupersededBy(j)' = NoPage
               THEN page'[j].status \in ACTIVE \/ LastResolve(j)' # 0
               ELSE /\ page'[j].status \notin ACTIVE
                    /\ page'[j].evidence \subseteq page'[SupersededBy(j)'].evidence
    BY <1>1, <1>2, <1>3 DEF ClosedPages
  <1>5. ASSUME NEW ring \in SUBSET Incidents, ring # {}
        PROVE  \E j \in ring : SupersededBy(j)' \notin ring
    BY <1>2, <1>5 DEF ClosedPages
  <1> QED BY <1>4, <1>5 DEF ClosedPages

----------------------------------------------------------------------------
(* Incident pages.                                                         *)

\* What every act keeps: the log and the pages tell each other's acts, status,
\* window and index agree, every row accounts for a resolve, and no closed page
\* is one nobody resolved.
LifecycleInv ==
    /\ LifecycleTypeOK /\ LogTellsEveryAct /\ StatusesAgree /\ RowsAccounted /\ ClosedInv

LEMMA LifecycleStarts == ASSUME LifecycleInit PROVE LifecycleInv
  <1>1. page \in [Incidents -> IncidentPages]
    BY DEF LifecycleInit, IncidentPages, Status
  <1>2. \A i \in Incidents : page[i].actions = <<>> /\ page[i].status = "open"
    BY DEF LifecycleInit
  <1>3. LifecycleTypeOK
    BY <1>1 DEF LifecycleInit, LifecycleTypeOK
  <1>4. LogTellsEveryAct
    BY <1>2 DEF LifecycleInit, LogTellsEveryAct, ToSet
  <1>5. StatusesAgree
    BY <1>2 DEF LifecycleInit, StatusesAgree, StatusAgrees, ACTIVE
  <1>6. RowsAccounted
    BY DEF LifecycleInit, RowsAccounted, RowsAreLinked, OneRow
  <1>7. ClosedPages
    <2>1. \A i \in Incidents : LastOf(page[i].actions, {"merge", "reopen"}) = 0
      <3>1. <<>> \in Seq(ActionRecords) /\ DOMAIN <<>> = {}
        OBVIOUS
      <3>2. \A kinds : LastOf(<<>>, kinds) = 0
        BY <3>1, LastOfSequence
      <3> QED BY <1>2, <3>2
    <2>2. \A i \in Incidents : SupersededBy(i) = NoPage
      BY <2>1 DEF SupersededBy, LastMove
    <2> QED BY <1>2, <2>2, LifecycleAssumption DEF ClosedPages, ACTIVE
  <1> QED BY <1>3, <1>4, <1>5, <1>6, <1>7 DEF LifecycleInv, ClosedInv

\* Steps that leave the pages, index and log alone, and unlink nothing.
LEMMA PagesStand ==
    ASSUME LifecycleInv, LifecycleTypeOK',
           UNCHANGED <<page, listed, log, rows, replayed>>,
           errors \subseteq errors', \A i \in Incidents : linked[i] \subseteq linked'[i]
    PROVE  LifecycleInv'
  <1>1. LogTellsEveryAct' /\ StatusesAgree' /\ ClosedInv'
    BY DEF LifecycleInv, LogTellsEveryAct, Held, StatusesAgree, StatusAgrees, ClosedInv,
           ClosedPages, SupersededBy, LastMove, LastResolve
  <1>2. \A row : Accounted(row)' <=> Accounted(row)
    BY DEF Accounted, ResolvesOn, Day
  <1>3. \A e \in Codes : \A row \in rows[e] : row.incident \in Incidents
    BY DEF LifecycleInv, LifecycleTypeOK, Rows
  <1>4. RowsAccounted'
    BY <1>2, <1>3 DEF LifecycleInv, RowsAccounted, RowsAreLinked, OneRow
  <1> QED BY <1>1, <1>4 DEF LifecycleInv

LEMMA LifecycleStep ==
    ASSUME LifecycleInv, [LifecycleNext]_lifecycle
    PROVE  LifecycleInv'
  <1>1. LifecycleTypeOK /\ LifecycleTypeOK'
    BY LifecycleTypeStep DEF LifecycleInv
  <1>2. ASSUME NEW a \in pinned, Publish(a)
        PROVE  LifecycleInv'
    BY <1>1, <1>2, LogStep, StatusStep, RowStep, ClosedStep DEF LifecycleInv
  <1>3. ASSUME NEW i \in Incidents, Ingest(i)
        PROVE  LifecycleInv'
    <2>1. /\ UNCHANGED <<listed, log, linked, errors, rows, replayed>>
          /\ \A j \in Incidents : /\ page'[j].actions = page[j].actions
                                  /\ page'[j].status = page[j].status
                                  /\ page'[j].window = page[j].window
      BY <1>1, <1>3 DEF Ingest, LifecycleTypeOK, IncidentPages
    <2>2. LogTellsEveryAct'
      BY <2>1 DEF LifecycleInv, LogTellsEveryAct, Held
    <2>3. StatusesAgree'
      BY <2>1 DEF LifecycleInv, StatusesAgree, StatusAgrees
    <2>4. \A row : row.incident \in Incidents => (Accounted(row)' <=> Accounted(row))
      BY <2>1 DEF Accounted, ResolvesOn, Day
    <2>5. \A e \in Codes : \A row \in rows[e] : row.incident \in Incidents
      BY <1>1 DEF LifecycleTypeOK, Rows
    <2>6. RowsAccounted'
      BY <2>1, <2>4, <2>5 DEF LifecycleInv, RowsAccounted, RowsAreLinked, OneRow
    <2>7. ClosedInv'
      BY <1>1, <1>3, ClosedIngest DEF LifecycleInv
    <2> QED BY <1>1, <2>2, <2>3, <2>6, <2>7 DEF LifecycleInv
  <1>4. CASE BackfillResolutions
    <2>1. RowsAccounted' /\ UNCHANGED <<page, listed, log, replayed>>
      BY <1>1, <1>4, SweepStep DEF LifecycleInv, BackfillResolutions
    <2>2. LogTellsEveryAct' /\ StatusesAgree' /\ ClosedInv'
      BY <2>1 DEF LifecycleInv, LogTellsEveryAct, Held, StatusesAgree, StatusAgrees, ClosedInv,
                  ClosedPages, SupersededBy, LastMove, LastResolve
    <2> QED BY <1>1, <2>1, <2>2 DEF LifecycleInv
  <1>5. CASE \/ SecondElapses \/ LinkCodes \/ UNCHANGED lifecycle
             \/ \E i \in Incidents, c \in Commands : Pin(i, c)
             \/ \E e \in Codes : IngestError(e)
    <2>1. /\ UNCHANGED <<page, listed, log, rows, replayed>>
          /\ errors \subseteq errors' /\ \A i \in Incidents : linked[i] \subseteq linked'[i]
      BY <1>5 DEF SecondElapses, LinkCodes, lifecycle, Pin, IngestError
    <2> QED BY <1>1, <2>1, PagesStand
  <1> QED BY <1>2, <1>3, <1>4, <1>5 DEF LifecycleNext

\* The pages, log.md and the error pages keep their shape, whatever is pinned,
\* published again, ingested and swept (lifecycle.build, append_action).
THEOREM LifecycleTypeCorrect == LifecycleSpec => []LifecycleTypeOK
  <1>1. LifecycleInv => LifecycleTypeOK
    BY DEF LifecycleInv
  <1> QED BY <1>1, LifecycleStarts, LifecycleStep, PTL DEF LifecycleSpec

\* An act is told the same by the page, log.md, the index and the error pages
\* it is written in, for any number of incidents, acts, retries and sweeps
\* (lifecycle.build, append_action, incident_cli._resolution_sweep).
THEOREM EveryActIsTold == LifecycleSpec => []PagesTellEveryAct
  <1>1. LifecycleInv => PagesTellEveryAct
    BY DEF LifecycleInv, PagesTellEveryAct, PagesAgree, StatusesAgree, RowsAccounted,
           RowAgrees, Accounted, OneRow
  <1> QED BY <1>1, LifecycleStarts, LifecycleStep, PTL DEF LifecycleSpec

\* An incident is closed by a resolve alone: no sequence of merges, reopens and
\* resolves closes pages into each other (lifecycle.MERGE_KEEPS).
THEOREM OnlyResolvesClose == LifecycleSpec => []NothingClosesUnresolved
  <1>1. LifecycleInv => NothingClosesUnresolved
    BY DEF LifecycleInv, ClosedInv, ClosedPages, NothingClosesUnresolved
  <1> QED BY <1>1, LifecycleStarts, LifecycleStep, PTL DEF LifecycleSpec

----------------------------------------------------------------------------
(* Alerts.                                                                 *)

\* A state file counts failed sends, and an alert is told to a sink.
AlertTypeOK ==
    /\ pc \in {"idle", "sending"}
    /\ clock \in Nat /\ deaths \in Nat
    /\ DOMAIN entries = Findings /\ DOMAIN next = Findings
    /\ \A f \in Findings : /\ entries[f] = Unseen \/ entries[f].failures \in Nat
                           /\ next[f] = Unseen \/ next[f].failures \in Nat
    /\ complete \in [Findings -> Nat]
    /\ told \subseteq Findings \X Sinks
    /\ outbox \subseteq Findings /\ broken \subseteq Findings

Heard(f) == \A s \in Sinks : <<f, s>> \in told
Alerted(entry) == entry # Unseen /\ ~Undelivered(entry)

\* While a dispatch sends: what is not in the outbox and held as alerted was
\* told; what is in it is held as alerted and was not told to all since the
\* last killed dispatch, like whatever is held as undelivered.
AlertInv ==
    /\ AlertTypeOK
    /\ unheard = {}
    /\ \A f \in Findings :
          /\ Alerted(entries[f]) => Heard(f)
          /\ complete[f] <= 1 + deaths
    /\ pc = "idle" =>
          \A f \in Findings : ~Alerted(entries[f]) => complete[f] <= deaths
    /\ pc = "sending" =>
          \A f \in Findings :
             /\ f \notin outbox /\ Alerted(next[f]) => Heard(f)
             /\ f \in outbox => next[f] = Told /\ complete[f] <= deaths
             /\ Undelivered(next[f]) => complete[f] <= deaths

LEMMA AlertStarts == ASSUME AlertInit PROVE AlertInv
  BY DEF AlertInit, AlertInv, AlertTypeOK, Alerted, Undelivered

LEMMA AlertStep ==
    ASSUME AlertInv, [AlertNext]_alerting
    PROVE  AlertInv'
  <1> USE DEF AlertInv, AlertTypeOK
  <1>1. ASSUME NEW wrong \in SUBSET Findings, TimePasses(wrong)
        PROVE  AlertInv'
    BY <1>1 DEF TimePasses, Alerted, Undelivered, Heard
  <1>2. CASE Dispatch
    <2>1. /\ pc = "idle" /\ pc' = "sending" /\ next' = [f \in Findings |-> EntryOf(f)]
          /\ outbox' = ToSend
          /\ UNCHANGED <<clock, broken, entries, unheard, deaths, told, complete>>
      BY <1>2 DEF Dispatch
    <2>2. ToSend \subseteq Findings
      BY DEF ToSend
    <2>3. ASSUME NEW f \in Findings
          PROVE  /\ next'[f] = Unseen \/ next'[f].failures \in Nat
                 /\ f \in ToSend => next'[f] = Told /\ ~Alerted(entries[f])
                 /\ f \notin ToSend => next'[f] \in {Unseen, entries[f]}
      BY <2>1 DEF EntryOf, Told, ToSend, RetryDue, Alerted
    <2>4. ~Undelivered(Told)
      BY DEF Undelivered, Told
    <2> QED BY <2>1, <2>2, <2>3, <2>4 DEF Alerted, Undelivered, Heard
  <1>3. ASSUME NEW f \in Findings, NEW failing \in SUBSET Sinks, Send(f, failing)
        PROVE  AlertInv'
    <2>1. /\ pc = "sending" /\ f \in outbox /\ outbox' = outbox \ {f}
          /\ told' = told \cup {<<f, s>> : s \in Sinks \ failing}
          /\ UNCHANGED <<clock, broken, entries, unheard, pc, deaths>>
      BY <1>3 DEF Send
    <2>2. \A g \in Findings : Heard(g) => Heard(g)'
      BY <2>1 DEF Heard
    <2>3. told' \subseteq Findings \X Sinks
      BY <2>1
    <2>4. CASE failing = {}
      <3>1. next' = next /\ complete' = [complete EXCEPT ![f] = @ + 1] /\ Heard(f)'
        BY <1>3, <2>1, <2>4 DEF Send, Heard
      <3> QED BY <2>1, <2>2, <2>3, <3>1 DEF Alerted, Undelivered, Told
    <2>5. CASE failing # {}
      <3>1. next' = [next EXCEPT ![f] = FailedEntry(f)] /\ complete' = complete
        BY <1>3, <2>5 DEF Send
      <3>2. FailedEntry(f).failures \in Nat \ {0}
        BY DEF FailedEntry, Undelivered
      <3>3. ~Alerted(next'[f])
        BY <3>1, <3>2 DEF Alerted, Undelivered
      <3> QED BY <2>1, <2>2, <2>3, <3>1, <3>2, <3>3 DEF Alerted, Undelivered
    <2> QED BY <2>4, <2>5
  <1>4. CASE Save
    <2>1. /\ pc = "sending" /\ outbox = {} /\ entries' = next
          /\ unheard' = unheard \cup {f \in Recovered : \E s \in Sinks : <<f, s>> \notin told}
          /\ pc' = "idle" /\ next' = [f \in Findings |-> Unseen]
          /\ complete' = [f \in Findings |-> IF next[f] = Unseen THEN 0 ELSE complete[f]]
          /\ told' = {t \in told : next[t[1]] # Unseen}
          /\ UNCHANGED <<clock, broken, outbox, deaths>>
      BY <1>4 DEF Save
    <2>2. \A f \in Recovered : f \in Findings /\ Alerted(entries[f])
      BY DEF Recovered, Alerted
    <2>3. unheard' = {}
      BY <2>1, <2>2 DEF Heard
    <2>4. \A f \in Findings : Alerted(next[f]) => Heard(f)'
      BY <2>1 DEF Heard, Alerted
    <2> QED BY <2>1, <2>3, <2>4 DEF Alerted
  <1>5. CASE DispatchDies
    BY <1>5 DEF DispatchDies, Alerted, Heard
  <1>6. CASE UNCHANGED alerting
    BY <1>6 DEF alerting, Alerted, Undelivered, Heard
  <1> QED BY <1>1, <1>2, <1>3, <1>4, <1>5, <1>6 DEF AlertNext

\* What the state file calls alerted reached every sink, and an outage is told
\* again only for a dispatch that died before it saved, for any findings,
\* sinks, failed sends and deaths (alerts.dispatch, evaluate).
THEOREM OutagesAreToldOnce == AlertSpec => []EveryOutageIsToldOnce
  <1>1. AlertInv => EveryOutageIsToldOnce
    BY DEF AlertInv, AlertTypeOK, EveryOutageIsToldOnce, AlertedMeansTold, OneAlertPerOutage,
           Alerted, Heard
  <1> QED BY <1>1, AlertStarts, AlertStep, PTL DEF AlertSpec

----------------------------------------------------------------------------
(* Monitoring verdicts.                                                    *)

LogLines == [at : 0 .. LastSlot, source : Sources, code : WatchCodes \cup {Routine}]

\* A digest holds lines of its day, what is armed is a signal and a window, and
\* no facts are of a revision yet to come.
MonitoringTypeOK ==
    /\ slot \in 0 .. LastSlot /\ revision \in Nat
    /\ events \subseteq LogLines
    /\ DOMAIN digest = Days
    /\ \A d \in Days :
          digest[d] # Nothing => digest[d].seen \subseteq {e \in LogLines : DayOf(e.at) = d}
    /\ armed # Nothing => armed.signal \in Signals /\ armed.window \in Windows
    /\ facts # Nothing => facts.revision \in 0 .. revision

\* What the digests hold.
Digested == UNION {digest[d].seen : d \in {x \in Days : digest[x] # Nothing}}

LEMMA Division ==
    ASSUME NEW n \in Nat \ {0}, NEW t \in Nat
    PROVE  /\ t \div n \in Nat /\ t % n \in 0 .. n - 1
           /\ t = (n * (t \div n)) + (t % n)
  BY Z3

LEMMA DaysInOrder ==
    ASSUME NEW t \in Nat, NEW u \in Nat, t < u
    PROVE  /\ DayOf(t) \in Nat /\ DayOf(u) \in Nat
           /\ DayOf(t) <= DayOf(u)
           /\ u % SlotsPerDay = 0 => DayOf(t) < DayOf(u)
  <1> DEFINE n == SlotsPerDay
             p == DayOf(t)
             q == DayOf(u)
  <1>1. n \in Nat \ {0}
    BY MonitoringAssumption
  <1>2. /\ p \in Nat /\ q \in Nat /\ t >= n * p
        /\ u < (n * q) + n /\ (u % n = 0 => u = n * q)
    BY <1>1, Division DEF DayOf
  <1> HIDE DEF n, p, q
  <1>3. p >= q + 1 => n * p >= n * (q + 1)
    BY <1>1, <1>2
  <1>4. n * (q + 1) = (n * q) + n
    BY <1>1, <1>2
  <1>5. p >= q => n * p >= n * q
    BY <1>1, <1>2
  <1>6. ~ (p >= q + 1)
    BY <1>1, <1>2, <1>3, <1>4
  <1>7. u % n = 0 => ~ (p >= q)
    BY <1>1, <1>2, <1>5
  <1> QED BY <1>2, <1>6, <1>7 DEF n, p, q

\* A window has days.
LEMMA WindowHasDays ==
    ASSUME NEW w \in Windows
    PROVE  /\ w.start \in Nat /\ w.until \in Nat /\ w.start < w.until
           /\ DayOf(w.start) \in Nat
           /\ DayCount(w) \in Nat \ {0}
           /\ \A t \in w.start .. w.until - 1 :
                 DayOf(t) \in DayOf(w.start) .. DayOf(w.start) + DayCount(w) - 1
           /\ WindowDays(w) # {} /\ WindowDays(w) \subseteq Nat
           /\ Cardinality(WindowDays(w)) >= DayCount(w) =>
                 WindowDays(w) = DayOf(w.start) .. DayOf(w.start) + DayCount(w) - 1
  <1>1. /\ w.start \in Nat /\ w.until \in Nat /\ w.start < w.until
        /\ MAX_WINDOW_DAYS \in Nat \ {0}
    BY MonitoringAssumption
  <1>2. /\ DayOf(w.start) \in Nat /\ DayOf(w.until) \in Nat
        /\ DayOf(w.start) <= DayOf(w.until)
        /\ w.until % SlotsPerDay = 0 => DayOf(w.start) < DayOf(w.until)
    BY <1>1, DaysInOrder
  <1>3. DayCount(w) \in Nat \ {0}
    BY <1>2 DEF DayCount
  <1>4. ASSUME NEW t \in w.start .. w.until - 1
        PROVE  DayOf(t) \in DayOf(w.start) .. DayOf(w.start) + DayCount(w) - 1
    <2>1. /\ t \in Nat /\ t < w.until
          /\ DayOf(t) \in Nat /\ DayOf(t) <= DayOf(w.until)
          /\ w.until % SlotsPerDay = 0 => DayOf(t) < DayOf(w.until)
      BY <1>1, DaysInOrder
    <2>2. DayOf(w.start) <= DayOf(t)
      <3>1. CASE t = w.start
        BY <1>2, <3>1
      <3>2. CASE w.start < t
        BY <1>1, <2>1, <3>2, DaysInOrder
      <3> QED BY <1>1, <2>1, <3>1, <3>2
    <2> QED BY <1>2, <2>1, <2>2 DEF DayCount
  <1> DEFINE cut == Min({DayCount(w), MAX_WINDOW_DAYS})
             from == DayOf(w.start)
  <1>5. cut \in Nat \ {0} /\ cut <= DayCount(w)
    <2>1. \E x \in {DayCount(w), MAX_WINDOW_DAYS} :
             \A y \in {DayCount(w), MAX_WINDOW_DAYS} : x <= y
      BY <1>1, <1>3
    <2>2. /\ cut \in {DayCount(w), MAX_WINDOW_DAYS}
          /\ \A y \in {DayCount(w), MAX_WINDOW_DAYS} : cut <= y
      BY <2>1 DEF Min
    <2> QED BY <1>1, <1>3, <2>2
  <1>6. WindowDays(w) = from .. from + cut - 1
    BY DEF WindowDays
  <1> HIDE DEF cut, from
  <1>7. from \in Nat
    BY <1>2 DEF from
  <1>8. Cardinality(from .. from + cut - 1) = cut
    <2> DEFINE to == from + cut - 1
    <2>1. from \in Int /\ to \in Int /\ from <= to /\ to - from + 1 = cut
      BY <1>5, <1>7
    <2> HIDE DEF to
    <2>2. Cardinality(from .. to) = cut
      BY <2>1, FS_Interval
    <2> QED BY <2>2 DEF to
  <1>9. WindowDays(w) # {} /\ WindowDays(w) \subseteq Nat
    <2>1. from \in from .. from + cut - 1 /\ from .. from + cut - 1 \subseteq Nat
      BY <1>5, <1>7
    <2> QED BY <1>6, <2>1
  <1>10. Cardinality(WindowDays(w)) >= DayCount(w) =>
            WindowDays(w) = from .. from + DayCount(w) - 1
    <2> SUFFICES ASSUME Cardinality(WindowDays(w)) >= DayCount(w)
                 PROVE  cut = DayCount(w)
      BY <1>6
    <2> QED BY <1>3, <1>5, <1>6, <1>8
  <1> QED BY <1>1, <1>2, <1>3, <1>4, <1>9, <1>10 DEF from

\* Without gaps there is a digest of every day of the window.
LEMMA NoGaps ==
    ASSUME NEW w \in Windows, ~Gaps(w)
    PROVE  /\ Read(w) = WindowDays(w)
           /\ \A t \in w.start .. w.until - 1 : DayOf(t) \in Read(w)
  <1>1. Read(w) = WindowDays(w) /\ ~ (DayCount(w) > Cardinality(WindowDays(w)))
    BY DEF Gaps
  <1>2. Cardinality(WindowDays(w)) \in Nat
    <2>1. IsFiniteSet(WindowDays(w))
      <3>1. WindowDays(w) \subseteq Days
        BY <1>1 DEF Read
      <3>2. IsFiniteSet(Days)
        <4>1. LastSlot \in Nat
          BY MonitoringAssumption
        <4>2. DayOf(LastSlot) \in Nat
          BY <4>1, DaysInOrder, LastSlot + 1 \in Nat, LastSlot < LastSlot + 1
        <4> QED BY <4>2, FS_Interval DEF Days
      <3> QED BY <3>1, <3>2, FS_Subset
    <2> QED BY <2>1, FS_CardinalityType
  <1>3. Cardinality(WindowDays(w)) >= DayCount(w)
    BY <1>1, <1>2, WindowHasDays
  <1> QED BY <1>1, <1>3, WindowHasDays

\* A set of instants has a first one.
LEMMA LeastSlot ==
    ASSUME NEW I \in SUBSET Nat, I # {}
    PROVE  Min(I) \in I /\ \A m \in I : Min(I) <= m
  <1>1. PICK g \in I : \A h \in I : ~ (<<h, g>> \in OpToRel(<, Nat))
    BY NatLessThanWellFounded, WFMin
  <1>2. ASSUME NEW h \in I PROVE g <= h
    <2>1. ~ (h < g)
      BY <1>1 DEF OpToRel
    <2> QED BY <2>1
  <1> QED BY <1>2 DEF Min

\* A digest's group of a line spans a window the line is in.
LEMMA LinesAreGrouped ==
    ASSUME MonitoringTypeOK, NEW w \in Windows, NEW d \in Read(w),
           NEW e \in digest[d].seen, Inside(e, w), e.code # Routine
    PROVE  /\ <<e.source, e.code>> \in Groups(d)
           /\ Spans(d, <<e.source, e.code>>, w)
  <1> DEFINE g == <<e.source, e.code>>
             I == {x.at : x \in Of(d, g)}
  <1>1. /\ e \in LogLines /\ d \in Days /\ digest[d] # Nothing
        /\ w.start \in Nat /\ w.until \in Nat /\ LastSlot \in Nat
    BY MonitoringAssumption DEF MonitoringTypeOK, Read
  <1>2. g \in Groups(d) /\ e \in Of(d, g)
    BY DEF Groups, Of
  <1>3. I \subseteq 0 .. LastSlot /\ e.at \in I
    BY <1>1, <1>2 DEF MonitoringTypeOK, LogLines, Of
  <1> HIDE DEF I
  <1>4. Min(I) \in I /\ Min(I) <= e.at
    <2>1. I \in SUBSET Nat /\ I # {}
      BY <1>3
    <2> QED BY <1>3, <2>1, LeastSlot
  <1>5. Max(I) \in I /\ e.at <= Max(I)
    BY <1>1, <1>3, LastIndex
  <1>6. Min(I) < w.until /\ Max(I) >= w.start
    <2> HIDE DEF g
    <2>1. e.at \in 0 .. LastSlot /\ Min(I) \in 0 .. LastSlot /\ Max(I) \in 0 .. LastSlot
      BY <1>3, <1>4, <1>5
    <2> QED BY <1>1, <1>4, <1>5, <2>1 DEF Inside
  <1> QED BY <1>2, <1>6 DEF Spans, FirstSeen, LastSeen, I

\* A line of a window without gaps is in a digest of the window.
LEMMA InsideIsRead ==
    ASSUME MonitoringTypeOK, NEW w \in Windows, ~Gaps(w),
           NEW e \in Digested, Inside(e, w)
    PROVE  \E d \in Read(w) : e \in digest[d].seen
  <1>1. PICK d \in Days : digest[d] # Nothing /\ e \in digest[d].seen
    BY DEF Digested
  <1>2. e \in LogLines /\ DayOf(e.at) = d
    BY <1>1 DEF MonitoringTypeOK
  <1>3. e.at \in w.start .. w.until - 1
    <2>1. e.at \in Int /\ w.start \in Nat /\ w.until \in Nat
      BY <1>2, MonitoringAssumption DEF LogLines
    <2> QED BY <2>1 DEF Inside
  <1>4. d \in Read(w)
    BY <1>2, <1>3, NoGaps
  <1> QED BY <1>1, <1>4

\* A verdict that rests on absence.
Absence(signal, verdict) ==
    \/ signal.kind = "error_absent" /\ verdict = "met"
    \/ signal.kind \in {"event_present", "flow_resumed"} /\ verdict = "not_met"

LEMMA NothingWasSeen ==
    ASSUME MonitoringTypeOK, NEW signal \in Signals, NEW w \in Windows,
           NEW probing \in BOOLEAN, Absence(signal, Verdict(signal, w, probing))
    PROVE  /\ ~Gaps(w) /\ Closed(w)
           /\ \A d \in Read(w) : ~Shows(d, signal, w)
           /\ ~ \E e \in Digested : Inside(e, w) /\ Speaks(e, signal)
  <1>1. /\ signal.kind \in {"error_absent", "event_present", "flow_resumed", "manual"}
        /\ signal.kind \in {"error_absent", "event_present"} => signal.on # Routine
    BY MonitoringAssumption
  <1>2. CASE signal.kind = "error_absent"
    <2>1. ErrorAbsent(signal.on, w, probing) = "met"
      BY <1>2 DEF Absence, Verdict
    <2>2. /\ ~Gaps(w) /\ Closed(w)
          /\ \A d \in Read(w) : ~Carries(d, signal.on, w)
      BY <2>1 DEF ErrorAbsent
    <2>3. \A d \in Read(w) : ~Shows(d, signal, w)
      BY <1>2, <2>2 DEF Shows
    <2>4. ASSUME NEW d \in Read(w), NEW e \in digest[d].seen,
                 Inside(e, w), Speaks(e, signal)
          PROVE  FALSE
      <3>1. e.code = signal.on
        BY <1>2, <2>4 DEF Speaks
      <3>2. Carries(d, signal.on, w)
        BY <1>1, <1>2, <2>4, <3>1, LinesAreGrouped DEF Carries
      <3> QED BY <2>2, <3>2
    <2> QED BY <2>2, <2>3, <2>4, InsideIsRead
  <1>3. CASE signal.kind = "event_present"
    <2>1. EventPresent(signal.on, w) = "not_met"
      BY <1>3 DEF Absence, Verdict
    <2>2. /\ ~Gaps(w) /\ Closed(w)
          /\ \A d \in Read(w) : ~ \E g \in Groups(d) : g[2] = signal.on /\ Spans(d, g, w)
      BY <2>1 DEF EventPresent
    <2>3. \A d \in Read(w) : ~Shows(d, signal, w)
      BY <1>3, <2>2 DEF Shows
    <2>4. ASSUME NEW d \in Read(w), NEW e \in digest[d].seen,
                 Inside(e, w), Speaks(e, signal)
          PROVE  FALSE
      <3>1. e.code = signal.on
        BY <1>3, <2>4 DEF Speaks
      <3>2. \E g \in Groups(d) : g[2] = signal.on /\ Spans(d, g, w)
        BY <1>1, <1>3, <2>4, <3>1, LinesAreGrouped
      <3> QED BY <2>2, <3>2
    <2> QED BY <2>2, <2>3, <2>4, InsideIsRead
  <1>4. CASE signal.kind = "flow_resumed"
    <2>1. FlowResumed(signal.on, w) = "not_met"
      BY <1>4 DEF Absence, Verdict
    <2>2. /\ ~Gaps(w) /\ Closed(w)
          /\ \A d \in Read(w) : ~Placed(d, signal.on, w) /\ ~Loose(d, signal.on, w)
      BY <2>1 DEF FlowResumed
    <2>3. \A d \in Read(w) : ~Shows(d, signal, w)
      BY <1>4, <2>2 DEF Shows
    <2>4. ASSUME NEW d \in Read(w), NEW e \in digest[d].seen,
                 Inside(e, w), Speaks(e, signal)
          PROVE  FALSE
      <3>1. e.source = signal.on
        BY <1>4, <2>4 DEF Speaks
      <3>2. CASE CoveredWhole(d, w)
        BY <2>2, <2>4, <3>1, <3>2 DEF Placed
      <3>3. CASE ~CoveredWhole(d, w) /\ e.code = Routine
        BY <2>2, <2>4, <3>1, <3>3 DEF Loose
      <3>4. CASE ~CoveredWhole(d, w) /\ e.code # Routine
        <4>1. \E g \in Groups(d) : g[1] = signal.on /\ Spans(d, g, w)
          BY <2>4, <3>1, <3>4, LinesAreGrouped
        <4> QED BY <2>2, <3>4, <4>1 DEF Placed
      <3> QED BY <3>2, <3>3, <3>4
    <2> QED BY <2>2, <2>3, <2>4, InsideIsRead
  <1> QED BY <1>1, <1>2, <1>3, <1>4 DEF Absence

\* A sighting that decides is in a digest that was read, or in none.
LEMMA SightingsAreRead ==
    ASSUME NEW signal \in Signals, NEW w \in Windows, NEW probing \in BOOLEAN,
           Verdict(signal, w, probing) = "met", signal.kind # "error_absent"
    PROVE  /\ signal.kind # "manual"
           /\ \E d \in Read(w) : Shows(d, signal, w)
  <1>1. signal.kind \in {"error_absent", "event_present", "flow_resumed", "manual"}
    BY MonitoringAssumption
  <1>2. CASE signal.kind = "event_present"
    <2>1. EventPresent(signal.on, w) = "met"
      BY <1>2 DEF Verdict
    <2> QED BY <1>2, <2>1 DEF EventPresent, Shows
  <1>3. CASE signal.kind = "flow_resumed"
    <2>1. FlowResumed(signal.on, w) = "met"
      BY <1>3 DEF Verdict
    <2> QED BY <1>3, <2>1 DEF FlowResumed, Shows
  <1>4. signal.kind # "manual"
    BY DEF Verdict
  <1> QED BY <1>1, <1>2, <1>3, <1>4

\* What is published of the monitoring in force.
LEMMA VerdictIsProven ==
    ASSUME MonitoringTypeOK, armed # Nothing, NEW probing \in BOOLEAN,
           PublishFacts(Verdict(armed.signal, armed.window, probing),
                        Observed(armed.signal, armed.window, probing)),
           UNCHANGED <<slot, events, digest, armed, revision>>
    PROVE  AbsenceIsProven'
  <1> DEFINE s == armed.signal
             w == armed.window
             v == Verdict(s, w, probing)
             o == Observed(s, w, probing)
  <1>1. s \in Signals /\ w \in Windows
    BY DEF MonitoringTypeOK
  <1>2. /\ facts'.verdict = v /\ facts'.observed = o /\ facts'.signal = s /\ facts'.window = w
        /\ facts'.revision = revision' /\ facts'.at = slot
        /\ facts'.held = Digested /\ facts'.days = {d \in Days : digest[d] # Nothing}
        /\ armed' = armed
    BY DEF PublishFacts, Digested
  <1>3. /\ s.kind # "manual" => Read(w) \subseteq DOMAIN o
        /\ \A d \in Read(w) : d \in DOMAIN o => o[d] = Shows(d, s, w)
        /\ Read(w) = WindowDays(w) => DOMAIN o \subseteq Read(w)
    BY DEF Observed
  <1>4. ~Stale' => armed' # Nothing /\ facts'.window = armed'.window /\ facts'.signal = armed'.signal
    BY <1>2
  <1> HIDE DEF s, w, v, o
  <1>5. WindowDays(w) # {}
    BY <1>1, WindowHasDays
  <1>6. CASE Absence(s, v)
    <2>1. /\ ~Gaps(w) /\ Closed(w)
          /\ \A d \in Read(w) : ~Shows(d, s, w)
          /\ ~ \E e \in Digested : Inside(e, w) /\ Speaks(e, s)
      BY <1>1, <1>6, NothingWasSeen DEF v
    <2>2. /\ Read(w) = WindowDays(w)
          /\ \A t \in w.start .. w.until - 1 : DayOf(t) \in Read(w)
      BY <1>1, <2>1, NoGaps
    <2>3. s.kind # "manual"
      BY <1>6 DEF Absence
    <2>4. DOMAIN o = WindowDays(w) /\ \A d \in WindowDays(w) : o[d] = FALSE
      BY <1>3, <2>1, <2>2, <2>3
    <2>5. facts'.at >= facts'.window.until
      BY <1>2, <2>1 DEF Closed
    <2>6. \A t \in facts'.window.start .. facts'.window.until - 1 : DayOf(t) \in facts'.days
      BY <1>2, <2>2 DEF Read
    <2>7. Unexamined' = {}
      BY <1>2, <2>4 DEF Unexamined
    <2>8. Supporting' = IF v = "met" THEN WindowDays(w) ELSE {}
      <3>1. CASE s.kind = "error_absent" /\ v = "met"
        BY <1>2, <2>4, <3>1 DEF Supporting
      <3>2. CASE s.kind \in {"event_present", "flow_resumed"} /\ v = "not_met"
        BY <1>2, <2>4, <3>2 DEF Supporting
      <3> QED BY <1>6, <3>1, <3>2 DEF Absence
    <2>9. ~ \E e \in facts'.held : (Inside(e, facts.window) /\ Speaks(e, facts.signal))'
      BY <1>2, <2>1 DEF Inside, Speaks
    <2>10. facts'.verdict = "met" => Supporting' # {}
      BY <1>2, <1>5, <2>8
    <2>11. Supporting' = IF facts'.verdict = "met" THEN WindowDays(facts'.window) ELSE {}
      BY <1>2, <2>8
    <2> QED BY <1>4, <2>5, <2>6, <2>7, <2>9, <2>10, <2>11 DEF AbsenceIsProven, WindowDays, DayCount, DayOf
  <1>7. CASE ~Absence(s, v)
    <2>1. ~RestsOnAbsence'
      BY <1>2, <1>7 DEF RestsOnAbsence, Absence
    <2>2. v = "met" => Supporting' # {}
      <3> SUFFICES ASSUME v = "met" PROVE Supporting' # {}
        OBVIOUS
      <3>1. s.kind # "error_absent"
        BY <1>7 DEF Absence
      <3>2. s.kind # "manual" /\ \E d \in Read(w) : Shows(d, s, w)
        BY <1>1, <3>1, SightingsAreRead DEF v
      <3>3. PICK d \in Read(w) : Shows(d, s, w)
        BY <3>2
      <3>4. d \in DOMAIN o /\ o[d] = TRUE
        BY <1>3, <3>2, <3>3
      <3>5. d \in Supporting'
        BY <1>2, <3>1, <3>4 DEF Supporting
      <3> QED BY <3>5
    <2> QED BY <1>2, <1>4, <2>1, <2>2 DEF AbsenceIsProven
  <1> QED BY <1>6, <1>7

MonitoringInv == MonitoringTypeOK /\ AbsenceIsProven

LEMMA MonitoringStarts == ASSUME MonitoringInit PROVE MonitoringInv
  <1>1. LastSlot \in Nat
    BY MonitoringAssumption
  <1>2. MonitoringTypeOK
    BY <1>1 DEF MonitoringInit, MonitoringTypeOK
  <1> QED BY <1>2 DEF MonitoringInit, MonitoringInv, AbsenceIsProven

\* What was published stays published, and is stale from the next commit on.
LEMMA FactsStand ==
    ASSUME AbsenceIsProven, facts' = facts,
           facts # Nothing /\ ~Stale' => ~Stale /\ armed' = armed
    PROVE  AbsenceIsProven'
  <1> QED BY DEF AbsenceIsProven, RestsOnAbsence, Unexamined, Supporting, Inside, Speaks,
                 WindowDays, DayCount, DayOf

\* A compaction writes what its day's log holds.
LEMMA CompactedDay ==
    ASSUME MonitoringTypeOK, NEW d \in Days, NEW selected, Compact(d, selected)
    PROVE  MonitoringTypeOK'
  <1>1. UNCHANGED <<slot, events, armed, revision, facts>>
    BY DEF Compact
  <1>2. /\ DOMAIN digest' = Days
        /\ digest'[d].seen \subseteq {e \in events : DayOf(e.at) = d}
        /\ \A x \in Days : x # d => digest'[x] = digest[x]
    BY DEF Compact, MonitoringTypeOK
  <1>3. ASSUME NEW x \in Days, digest'[x] # Nothing
        PROVE  digest'[x].seen \subseteq {e \in LogLines : DayOf(e.at) = x}
    BY <1>2, <1>3 DEF MonitoringTypeOK
  <1> QED BY <1>1, <1>2, <1>3 DEF MonitoringTypeOK, DayOf

LEMMA MonitoringStep ==
    ASSUME MonitoringInv, [MonitoringNext]_observing
    PROVE  MonitoringInv'
  <1> USE DEF MonitoringInv
  <1>1. LastSlot \in Nat
    BY MonitoringAssumption
  <1>2. CASE SlotPasses
    <2>1. /\ slot' \in 0 .. LastSlot
          /\ UNCHANGED <<events, digest, armed, revision, facts>>
      BY <1>1, <1>2 DEF SlotPasses, MonitoringTypeOK
    <2>2. MonitoringTypeOK'
      BY <2>1 DEF MonitoringTypeOK, DayOf
    <2> QED BY <2>1, <2>2, FactsStand DEF Stale
  <1>3. ASSUME NEW s \in Sources, NEW code \in WatchCodes \cup {Routine}, Happens(s, code)
        PROVE  MonitoringInv'
    <2>1. /\ events' \subseteq LogLines
          /\ UNCHANGED <<slot, digest, armed, revision, facts>>
      BY <1>3 DEF Happens, MonitoringTypeOK, LogLines
    <2>2. MonitoringTypeOK'
      BY <2>1 DEF MonitoringTypeOK, DayOf
    <2> QED BY <2>1, <2>2, FactsStand DEF Stale
  <1>4. ASSUME NEW d \in Days, NEW selected, Compact(d, selected)
        PROVE  MonitoringInv'
    <2>1. UNCHANGED <<armed, revision, facts>>
      BY <1>4 DEF Compact
    <2> QED BY <1>4, <2>1, CompactedDay, FactsStand DEF Stale
  <1>5. CASE /\ Commit /\ UNCHANGED <<slot, events, digest, facts>>
             /\ armed' # Nothing => armed'.signal \in Signals /\ armed'.window \in Windows
    <2>1. /\ revision' \in Nat /\ revision' = revision + 1 /\ revision \in Nat
          /\ facts # Nothing => facts.revision \in 0 .. revision
      BY <1>5 DEF Commit, MonitoringTypeOK
    <2>2. MonitoringTypeOK'
      BY <1>5, <2>1 DEF MonitoringTypeOK, DayOf
    <2>3. facts # Nothing => Stale'
      BY <1>5, <2>1 DEF Stale
    <2> QED BY <1>5, <2>2, <2>3, FactsStand
  <1>6. ASSUME NEW signal \in Signals, NEW w \in Windows, Arm(signal, w)
        PROVE  MonitoringInv'
    BY <1>5, <1>6 DEF Arm
  <1>7. ASSUME NEW w \in Windows, Extend(w)
        PROVE  MonitoringInv'
    <2>1. armed' = [armed EXCEPT !.window = w] /\ armed.signal \in Signals
      BY <1>7 DEF Extend, MonitoringTypeOK
    <2> QED BY <1>5, <1>7, <2>1 DEF Extend
  <1>8. CASE Disarm
    BY <1>5, <1>8 DEF Disarm
  <1>9. ASSUME NEW outcome \in {"answers", "times_out", "raises"}, NEW probing \in BOOLEAN,
               EvaluateAll(outcome, probing)
        PROVE  MonitoringInv'
    <2>1. UNCHANGED <<slot, events, digest, armed, revision>>
      BY <1>9 DEF EvaluateAll
    <2>2. CASE facts' = facts
      <3>1. MonitoringTypeOK'
        BY <2>1, <2>2 DEF MonitoringTypeOK, DayOf
      <3> QED BY <2>1, <2>2, <3>1, FactsStand DEF Stale
    <2>3. CASE facts' = Nothing
      BY <2>1, <2>3 DEF MonitoringTypeOK, DayOf, AbsenceIsProven
    <2>4. ASSUME armed # Nothing, NEW verdict, NEW observed, PublishFacts(verdict, observed)
          PROVE  MonitoringTypeOK'
      <3>1. facts'.revision = revision
        BY <2>4 DEF PublishFacts
      <3> QED BY <2>1, <3>1 DEF MonitoringTypeOK, DayOf
    <2>5. CASE /\ armed # Nothing
               /\ PublishFacts(Verdict(armed.signal, armed.window, probing),
                               Observed(armed.signal, armed.window, probing))
      BY <2>1, <2>4, <2>5, VerdictIsProven
    <2>6. CASE armed # Nothing /\ PublishFacts("error", <<>>)
      <3>1. /\ facts'.verdict = "error" /\ facts'.revision = revision
            /\ facts'.signal = armed.signal /\ facts'.window = armed.window
        BY <2>6 DEF PublishFacts
      <3>2. ~RestsOnAbsence'
        BY <3>1 DEF RestsOnAbsence
      <3> QED BY <2>1, <2>4, <2>6, <3>1, <3>2 DEF AbsenceIsProven
    <2> QED BY <1>9, <2>2, <2>3, <2>5, <2>6 DEF EvaluateAll
  <1>10. CASE UNCHANGED observing
    <2>1. MonitoringTypeOK'
      BY <1>10 DEF observing, MonitoringTypeOK, DayOf
    <2> QED BY <1>10, <2>1, FactsStand DEF observing, Stale
  <1> QED BY <1>2, <1>3, <1>4, <1>6, <1>7, <1>8, <1>9, <1>10 DEF MonitoringNext

\* A verdict that rests on absence, and the case for closing that cites it,
\* have seen the whole window, for any window, walk, signals, sources, events,
\* compactions and commits (monitoring.evaluate, closure_case).
THEOREM AbsencesAreProven == MonitoringSpec => []AbsenceIsProven
  <1>1. MonitoringInv => AbsenceIsProven
    BY DEF MonitoringInv
  <1> QED BY <1>1, MonitoringStarts, MonitoringStep, PTL DEF MonitoringSpec

(***************************************************************************)
(* The weekly review.                                                      *)
(***************************************************************************)

\* What the detectors keep of an incident, by the name of the finding.
IncidentEvidence(name, inc) ==
    IF name[4] = "stale_open" THEN [opened |-> inc.opened, updated |-> inc.updated]
    ELSE IF name[4] = "window_elapsed" THEN [until |-> inc.until, signal |-> inc.signal]
    ELSE IF name[4] = "recovery_met" THEN [verdict |-> "met"]
    ELSE [last_action_at |-> LastAction(inc), records |-> Cardinality(inc.acted)]

LEMMA CandidateParts ==
    ASSUME NEW kind, NEW code, NEW slug, NEW db, NEW high, NEW evidence
    PROVE  LET c == Candidate(kind, code, slug, db, high, evidence)
           IN  /\ c.name = <<kind, slug, db, code>> /\ c.evidence = evidence
               /\ c.name[1] = kind /\ c.name[2] = slug /\ c.name[3] = db /\ c.name[4] = code
  BY DEF Candidate

LEMMA EvidenceByName ==
    ASSUME NEW name, NEW inc
    PROVE  /\ name[4] = "stale_open" =>
                IncidentEvidence(name, inc) = [opened |-> inc.opened, updated |-> inc.updated]
           /\ name[4] = "window_elapsed" =>
                IncidentEvidence(name, inc) = [until |-> inc.until, signal |-> inc.signal]
           /\ name[4] = "recovery_met" => IncidentEvidence(name, inc) = [verdict |-> "met"]
           /\ name[4] \in {"no_action", "never_actioned"} =>
                IncidentEvidence(name, inc) =
                    [last_action_at |-> LastAction(inc), records |-> Cardinality(inc.acted)]
  <1> DEFINE last == LastAction(inc)
             records == Cardinality(inc.acted)
  <1> HIDE DEF last, records
  <1>1. IncidentEvidence(name, inc) =
          IF name[4] = "stale_open" THEN [opened |-> inc.opened, updated |-> inc.updated]
          ELSE IF name[4] = "window_elapsed" THEN [until |-> inc.until, signal |-> inc.signal]
          ELSE IF name[4] = "recovery_met" THEN [verdict |-> "met"]
          ELSE [last_action_at |-> last, records |-> records]
    BY Zenon DEF IncidentEvidence, last, records
  <1>2. name[4] \in {"no_action", "never_actioned"} =>
                IncidentEvidence(name, inc) = [last_action_at |-> last, records |-> records]
    BY <1>1
  <1> QED BY <1>1, <1>2 DEF last, records

\* The detectors of incidents: the evidence hangs on the incident alone.
LEMMA IncidentDetectors ==
    ASSUME NEW snap, NEW now, NEW c \in StaleOpen(snap, now) \cup MonitoringOverdue(snap, now)
                                          \cup Unfollowed(snap, now)
    PROVE  /\ c.name[1] \in {"stale_open", "monitoring_overdue", "unfollowed"}
           /\ c.evidence = IncidentEvidence(c.name, snap.incidents[c.name[2]])
  <1>1. CASE c \in StaleOpen(snap, now)
    <2>1. PICK i, high :
             c = Candidate("stale_open", "stale_open", i, snap.incidents[i].db, high,
                           [opened |-> snap.incidents[i].opened, updated |-> snap.incidents[i].updated])
      BY <1>1 DEF StaleOpen
    <2>2. /\ c.name[1] = "stale_open" /\ c.name[2] = i /\ c.name[4] = "stale_open"
          /\ c.evidence = [opened |-> snap.incidents[i].opened, updated |-> snap.incidents[i].updated]
      BY <2>1, CandidateParts
    <2> QED BY <2>2, EvidenceByName
  <1>2. CASE c \in MonitoringOverdue(snap, now)
    <2>1. \/ \E i, high :
                c = Candidate("monitoring_overdue", "window_elapsed", i, snap.incidents[i].db, high,
                              [until |-> snap.incidents[i].until, signal |-> snap.incidents[i].signal])
          \/ \E i, high :
                c = Candidate("monitoring_overdue", "recovery_met", i, snap.incidents[i].db, high,
                              [verdict |-> "met"])
      BY <1>2 DEF MonitoringOverdue
    <2>2. /\ c.name[1] = "monitoring_overdue"
          /\ \/ /\ c.name[4] = "window_elapsed"
                /\ c.evidence = [until |-> snap.incidents[c.name[2]].until,
                                 signal |-> snap.incidents[c.name[2]].signal]
             \/ c.name[4] = "recovery_met" /\ c.evidence = [verdict |-> "met"]
      <3>1. CASE \E i, high :
                   c = Candidate("monitoring_overdue", "window_elapsed", i, snap.incidents[i].db, high,
                                 [until |-> snap.incidents[i].until, signal |-> snap.incidents[i].signal])
        <4>1. PICK i, high :
                   c = Candidate("monitoring_overdue", "window_elapsed", i, snap.incidents[i].db, high,
                                 [until |-> snap.incidents[i].until, signal |-> snap.incidents[i].signal])
          BY <3>1
        <4>2. /\ c.name[1] = "monitoring_overdue" /\ c.name[2] = i /\ c.name[4] = "window_elapsed"
              /\ c.evidence = [until |-> snap.incidents[i].until, signal |-> snap.incidents[i].signal]
          BY <4>1, CandidateParts
        <4> QED BY <4>2
      <3>2. CASE \E i, high :
                   c = Candidate("monitoring_overdue", "recovery_met", i, snap.incidents[i].db, high,
                                 [verdict |-> "met"])
        <4>1. PICK i, high :
                   c = Candidate("monitoring_overdue", "recovery_met", i, snap.incidents[i].db, high,
                                 [verdict |-> "met"])
          BY <3>2
        <4> QED BY <4>1, CandidateParts
      <3> QED BY <2>1, <3>1, <3>2
    <2> QED BY <2>2, EvidenceByName
  <1>3. CASE c \in Unfollowed(snap, now)
    <2>1. PICK i, high, code :
             /\ code \in {"no_action", "never_actioned"}
             /\ c = Candidate("unfollowed", code, i, snap.incidents[i].db, high,
                              [last_action_at |-> LastAction(snap.incidents[i]),
                               records |-> Cardinality(snap.incidents[i].acted)])
      <3>1. PICK i : c = LET inc == snap.incidents[i]
                             last == LastAction(inc)
                             age == DaysBetween(IF last # 0 THEN last ELSE inc.opened, now)
                         IN  Candidate("unfollowed", IF last # 0 THEN "no_action" ELSE "never_actioned",
                                       i, inc.db, age >= Rules.unfollowed_high_days,
                                       [last_action_at |-> last, records |-> Cardinality(inc.acted)])
        BY <1>3 DEF Unfollowed
      <3> QED BY <3>1
    <2>2. /\ c.name[1] = "unfollowed" /\ c.name[2] = i /\ c.name[4] = code
          /\ c.evidence = [last_action_at |-> LastAction(snap.incidents[i]),
                           records |-> Cardinality(snap.incidents[i].acted)]
      BY <2>1, CandidateParts
    <2> QED BY <2>1, <2>2, EvidenceByName
  <1> QED BY <1>1, <1>2, <1>3

\* The detectors of error codes: one finding a code and database.
LEMMA CodeDetectors ==
    ASSUME NEW snap, NEW now
    PROVE  /\ \A c \in Worsening(snap, now) : c.name[1] = "worsening"
           /\ \A c \in Recurring(snap, now) : c.name[1] = "recurring"
           /\ \A c \in CrossDb(snap, now) : c.name[1] = "cross_db"
           /\ \A c, d \in Worsening(snap, now) : c.name = d.name => c.evidence = d.evidence
           /\ \A c, d \in Recurring(snap, now) : c.name = d.name => c.evidence = d.evidence
           /\ \A c, d \in CrossDb(snap, now) : c.name = d.name => c.evidence = d.evidence
  <1>1. /\ \A c \in Worsening(snap, now) : c.name[1] = "worsening"
        /\ \A c, d \in Worsening(snap, now) : c.name = d.name => c.evidence = d.evidence
    <2> DEFINE occs == InWindow(snap, now)
               midpoint == CalendarDay(now - 12 * Rules.window_days)
               recent(code, db) == Cardinality({o \in OfCode(occs, code, db) : o.day >= midpoint})
               prior(code, db) == Cardinality(OfCode(occs, code, db)) - recent(code, db)
               proof(code, db) == [recent |-> recent(code, db), prior |-> prior(code, db)]
    <2>1. \A c \in Worsening(snap, now) : \E code, db, high :
             c = Candidate("worsening", "occurrences_up", code, db, high, proof(code, db))
      BY DEF Worsening
    <2> HIDE DEF proof
    <2> QED BY <2>1, CandidateParts
  <1>2. /\ \A c \in Recurring(snap, now) : c.name[1] = "recurring"
        /\ \A c, d \in Recurring(snap, now) : c.name = d.name => c.evidence = d.evidence
    <2> DEFINE occs == {o \in InWindow(snap, now) :
                           o.day >= CalendarDay(ShiftDays(now, Rules.recurring_window_days))}
               days(code, db) == {o.day : o \in OfCode(occs, code, db)}
               shown(code, db) == {d \in days(code, db) :
                   Cardinality({e \in days(code, db) : e < d}) < Rules.recurring_high_occurrences}
               proof(code, db) == [count |-> Cardinality(OfCode(occs, code, db)), days |-> shown(code, db)]
    <2>1. \A c \in Recurring(snap, now) : \E code, db, high :
             c = Candidate("recurring", "repeat_occurrences", code, db, high, proof(code, db))
      BY DEF Recurring
    <2> HIDE DEF proof
    <2> QED BY <2>1, CandidateParts
  <1>3. /\ \A c \in CrossDb(snap, now) : c.name[1] = "cross_db"
        /\ \A c, d \in CrossDb(snap, now) : c.name = d.name => c.evidence = d.evidence
    <2> DEFINE occs == InWindow(snap, now)
               proof(code) == [databases |-> {o.db : o \in {r \in occs : r.code = code}}]
    <2>1. \A c \in CrossDb(snap, now) : \E code, high :
             c = Candidate("cross_db", "multi_db", code, "-", high, proof(code))
      BY DEF CrossDb
    <2> HIDE DEF proof
    <2> QED BY <2>1, CandidateParts
  <1> QED BY <1>1, <1>2, <1>3

\* A finding of a week has one evidence.
LEMMA OneEvidence ==
    ASSUME NEW snap, NEW now, NEW c \in Detected(snap, now), NEW d \in Detected(snap, now),
           c.name = d.name
    PROVE  c.evidence = d.evidence
  <1> DEFINE AboutIncidents == StaleOpen(snap, now) \cup MonitoringOverdue(snap, now)
                             \cup Unfollowed(snap, now)
  <1>1. \A e \in Detected(snap, now) :
           e \in AboutIncidents \/ e \in Worsening(snap, now) \/ e \in Recurring(snap, now)
           \/ e \in CrossDb(snap, now)
    BY DEF Detected
  <1>2. \A e \in AboutIncidents : /\ e.name[1] \in {"stale_open", "monitoring_overdue", "unfollowed"}
                             /\ e.evidence = IncidentEvidence(e.name, snap.incidents[e.name[2]])
    BY IncidentDetectors
  <1> HIDE DEF AboutIncidents
  <1> QED BY <1>1, <1>2, CodeDetectors

\* Of an incident that did not change, it is the same whenever it is found.
LEMMA SameIncident ==
    ASSUME NEW snap, NEW now, NEW c \in Detected(snap, now),
           NEW other, NEW then, NEW d \in Detected(other, then),
           c.name = d.name, Subject(c.name[1]) = "incident",
           snap.incidents[c.name[2]] = other.incidents[c.name[2]]
    PROVE  c.evidence = d.evidence
  <1>1. c.name[1] \notin {"worsening", "recurring", "cross_db"}
    BY DEF Subject
  <1>2. c \in StaleOpen(snap, now) \cup MonitoringOverdue(snap, now) \cup Unfollowed(snap, now)
    BY <1>1, CodeDetectors DEF Detected
  <1>3. d \in StaleOpen(other, then) \cup MonitoringOverdue(other, then) \cup Unfollowed(other, then)
    BY <1>1, CodeDetectors DEF Detected
  <1>4. /\ c.evidence = IncidentEvidence(c.name, snap.incidents[c.name[2]])
        /\ d.evidence = IncidentEvidence(d.name, other.incidents[d.name[2]])
    BY <1>2, <1>3, IncidentDetectors
  <1> QED BY <1>4

\* The evidence a week found of a name.
LEMMA EvidenceFound ==
    ASSUME NEW w, NEW c \in Finds(w)
    PROVE  c.evidence = EvidenceOf(w, c.name)
  <1>1. PICK d \in Finds(w) : d = (CHOOSE e \in Finds(w) : e.name = c.name) /\ d.name = c.name
    OBVIOUS
  <1> QED BY <1>1, OneEvidence DEF EvidenceOf, Finds

LEMMA SameEvidence ==
    ASSUME NEW w, NEW x, NEW f, f \in NamesOf(Finds(w)), f \in NamesOf(Finds(x)), Same(w, x, f)
    PROVE  EvidenceOf(w, f) = EvidenceOf(x, f)
  <1>1. PICK c \in Finds(w), d \in Finds(x) : c.name = f /\ d.name = f
    BY DEF NamesOf
  <1>2. CASE Subject(f[1]) = "incident"
    <2>1. Snapshots[w].incidents[f[2]] = Snapshots[x].incidents[f[2]]
      BY <1>2 DEF Same
    <2>2. c.evidence = d.evidence
      BY <1>1, <1>2, <2>1, SameIncident DEF Finds
    <2> QED BY <1>1, <2>2, EvidenceFound
  <1>3. CASE Subject(f[1]) # "incident"
    BY <1>3 DEF Same
  <1> QED BY <1>2, <1>3

-----------------------------------------------------------------------------
(* What every reachable state has.                                         *)

ADoing(d) == [week |-> d.week, document |-> d.document, history |-> d.history,
              knew |-> d.knew, todo |-> d.todo, sent |-> d.sent]
AnEntry(e) == [evidence |-> e.evidence, seen |-> e.seen]
Entries(h) == \A f \in DOMAIN h : h[f] = AnEntry(h[f]) /\ h[f].seen \in Int

\* A command holds what it does; only one that delivers has mail to send, one
\* at a time, and one that has selected did so this week.
CommandOK(c) ==
    /\ doing[c] = ADoing(doing[c])
    /\ doing[c].todo \subseteq Recipients
    /\ doing[c].sent \cap doing[c].todo = {}
    /\ \A q, r \in doing[c].sent : q = r
    /\ phase[c] # "idle" => doing[c].week \in Weeks
    /\ phase[c] # "delivering" => doing[c].todo = {} /\ doing[c].sent = {}
    /\ phase[c] \in {"selected", "published"} =>
         /\ doing[c].week = week /\ Entries(doing[c].history)
         /\ doing[c].document.shown \subseteq NamesOf(found)

ReviewTypeOK ==
    /\ week \in Weeks /\ found = Finds(week)
    /\ kills \in Nat
    /\ copies \in [Weeks \X Recipients -> Nat]
    /\ phase \in [Reviewers -> {"idle", "selected", "published", "saved", "delivering"}]
    /\ DOMAIN doing = Reviewers
    /\ \A c \in Reviewers : CommandOK(c)
    /\ Entries(history)
    /\ DOMAIN everShown = Weeks
    /\ \A w \in Weeks : everShown[w] \subseteq NamesOf(Finds(w)) /\ (w > week => everShown[w] = {})

\* Who has sent a mail that is not recorded, and who will send one.
Sending(w, r) == {c \in Reviewers : doing[c].week = w /\ r \in doing[c].sent}
Waiting(w, r) == {c \in Reviewers : doing[c].week = w /\ r \in doing[c].todo}

\* A copy is recorded, cut short by a kill, or about to be recorded; once one
\* is recorded, only who did not know will send another.
CopiesOK ==
    \A w \in Weeks, r \in Recipients :
        /\ <<w, r>> \in audit =>
             copies[<<w, r>>] + Cardinality(Waiting(w, r)) <= kills + Cardinality(Reviewers)
        /\ <<w, r>> \notin audit =>
             copies[<<w, r>>] <= kills + Cardinality(Sending(w, r))

\* What was shown this far and was found ever since is remembered as it was
\* when it was last shown.
Since(ever, w, f) ==
    /\ w <= week /\ week - w <= Rules.history_weeks
    /\ f \in ever[w]
    /\ \A x \in w + 1 .. week : f \notin ever[x] /\ f \in NamesOf(Finds(x))
Remembers(ever, h) ==
    \A w \in Weeks : \A f \in ever[w] :
        Since(ever, w, f) =>
            /\ f \in DOMAIN h
            /\ h[f].evidence = EvidenceOf(w, f)
            /\ h[f].seen >= w

\* Without a kill or a race, at most one command is between its selection and
\* its history, and whoever is there has the history that is due.
WithShown(c) ==
    [w \in Weeks |-> IF w = week THEN everShown[w] \cup doing[c].document.shown ELSE everShown[w]]
InHand(c) == phase[c] \in {"selected", "published"}
QuietOK ==
    /\ ~nagged
    /\ \A c, d \in Reviewers : InHand(c) /\ InHand(d) => c = d
    /\ (\A c \in Reviewers : phase[c] # "published") => Remembers(everShown, history)
    /\ \A c \in Reviewers :
         phase[c] = "selected" =>
             /\ Remembers(WithShown(c), doing[c].history)
             /\ \A f \in doing[c].document.shown : ~Nags(c, f)
    /\ \A c \in Reviewers : phase[c] = "published" => Remembers(everShown, doing[c].history)

ReviewInv ==
    /\ ReviewTypeOK /\ CopiesOK
    /\ kills = 0 /\ ~raced => QuietOK

-----------------------------------------------------------------------------
(* Copies.                                                                 *)

LEMMA Counted ==
    ASSUME NEW S \in SUBSET Reviewers, NEW T \in SUBSET Reviewers
    PROVE  /\ Cardinality(S) \in Nat /\ Cardinality(T) \in Nat /\ Cardinality(Reviewers) \in Nat
           /\ S \subseteq T => Cardinality(S) <= Cardinality(T)
           /\ S \cap T = {} => Cardinality(S) + Cardinality(T) <= Cardinality(Reviewers)
  <1>1. IsFiniteSet(Reviewers)
    BY ReviewAssumption
  <1>2. IsFiniteSet(S) /\ IsFiniteSet(T) /\ Cardinality(S) \in Nat /\ Cardinality(T) \in Nat
        /\ Cardinality(Reviewers) \in Nat
    BY <1>1, FS_Subset, FS_CardinalityType
  <1>3. S \subseteq T => Cardinality(S) <= Cardinality(T)
    BY <1>2, FS_Subset
  <1>4. S \cap T = {} => Cardinality(S) + Cardinality(T) <= Cardinality(Reviewers)
    <2> SUFFICES ASSUME S \cap T = {} PROVE Cardinality(S) + Cardinality(T) <= Cardinality(Reviewers)
      OBVIOUS
    <2>1. Cardinality(S \cup T) = Cardinality(S) + Cardinality(T) - Cardinality(S \cap T)
      BY <1>2, FS_Union
    <2>2. Cardinality(S \cap T) = 0
      BY FS_EmptySet
    <2>3. Cardinality(S \cup T) <= Cardinality(Reviewers)
      BY <1>1, FS_Subset
    <2> QED BY <1>2, <2>1, <2>2, <2>3
  <1> QED BY <1>2, <1>3, <1>4

LEMMA OneMore ==
    ASSUME NEW S \in SUBSET Reviewers, NEW c \in Reviewers
    PROVE  /\ Cardinality(S \cup {c}) <= Cardinality(S) + 1
           /\ c \notin S => Cardinality(S \cup {c}) = Cardinality(S) + 1
           /\ c \in S => Cardinality(S \ {c}) = Cardinality(S) - 1
           /\ Cardinality(S) <= Cardinality(S \ {c}) + 1
  <1>1. IsFiniteSet(S) /\ Cardinality(S) \in Nat
    BY ReviewAssumption, FS_Subset, FS_CardinalityType
  <1>2. Cardinality(S \cup {c}) = IF c \in S THEN Cardinality(S) ELSE Cardinality(S) + 1
    BY <1>1, FS_AddElement
  <1>3. Cardinality(S \ {c}) = IF c \in S THEN Cardinality(S) - 1 ELSE Cardinality(S)
    BY <1>1, FS_RemoveElement
  <1> QED BY <1>1, <1>2, <1>3

LEMMA Parties ==
    ASSUME ReviewTypeOK, NEW w \in Weeks, NEW r \in Recipients
    PROVE  /\ Sending(w, r) \in SUBSET Reviewers /\ Waiting(w, r) \in SUBSET Reviewers
           /\ Sending(w, r) \cap Waiting(w, r) = {}
           /\ copies[<<w, r>>] \in Nat /\ kills \in Nat
  <1>1. \A c \in Reviewers : doing[c].sent \cap doing[c].todo = {}
    BY DEF ReviewTypeOK, CommandOK
  <1>2. <<w, r>> \in Weeks \X Recipients
    OBVIOUS
  <1> QED BY <1>1, <1>2 DEF Sending, Waiting, ReviewTypeOK

\* A step that sends nothing and kills nobody.
LEMMA NoMailKeeps ==
    ASSUME ReviewTypeOK, CopiesOK, ReviewTypeOK', copies' = copies, kills' = kills,
           audit \subseteq audit',
           \A c \in Reviewers :
               \/ doing'[c].week = doing[c].week /\ doing'[c].sent = doing[c].sent
               \/ doing'[c].sent = {} /\ doing[c].sent = {}
               \/ \A r \in doing[c].sent : <<doing[c].week, r>> \in audit',
           \A c \in Reviewers : \A r \in doing'[c].todo :
               \/ doing'[c].week = doing[c].week /\ r \in doing[c].todo
               \/ <<doing'[c].week, r>> \notin audit /\ doing[c].sent = {}
    PROVE  CopiesOK'
  <1> SUFFICES ASSUME NEW w \in Weeks, NEW r \in Recipients
               PROVE  /\ <<w, r>> \in audit' =>
                           copies'[<<w, r>>] + Cardinality(Waiting(w, r)') <= kills' + Cardinality(Reviewers)
                      /\ <<w, r>> \notin audit' =>
                           copies'[<<w, r>>] <= kills' + Cardinality(Sending(w, r)')
    BY Zenon DEF CopiesOK
  <1>1. /\ Sending(w, r) \in SUBSET Reviewers /\ Waiting(w, r) \in SUBSET Reviewers
        /\ Sending(w, r)' \in SUBSET Reviewers /\ Waiting(w, r)' \in SUBSET Reviewers
        /\ copies[<<w, r>>] \in Nat /\ kills \in Nat
    BY Parties DEF Sending, Waiting
  <1>2. Cardinality(Reviewers) \in Nat /\ Cardinality(Waiting(w, r)) \in Nat
        /\ Cardinality(Waiting(w, r)') \in Nat /\ Cardinality(Sending(w, r)) \in Nat
        /\ Cardinality(Sending(w, r)') \in Nat
    BY <1>1, Counted
  <1>3. CASE <<w, r>> \in audit
    <2>1. Waiting(w, r)' \subseteq Waiting(w, r)
      BY <1>3 DEF Waiting
    <2>2. Cardinality(Waiting(w, r)') <= Cardinality(Waiting(w, r))
      BY <1>1, <2>1, Counted
    <2> QED BY <1>1, <1>2, <1>3, <2>2 DEF CopiesOK
  <1>4. CASE <<w, r>> \notin audit /\ <<w, r>> \in audit'
    <2>1. Sending(w, r) \cap Waiting(w, r)' = {}
      <3> SUFFICES ASSUME NEW c \in Sending(w, r), c \in Waiting(w, r)' PROVE FALSE
        OBVIOUS
      <3>1. c \in Reviewers /\ doing[c].week = w /\ r \in doing[c].sent
        BY DEF Sending
      <3>2. doing'[c].week = w /\ r \in doing'[c].todo
        BY DEF Waiting
      <3>3. phase[c] = "delivering" /\ r \notin doing[c].todo
        BY <3>1 DEF ReviewTypeOK, CommandOK
      <3> QED BY <3>1, <3>2, <3>3
    <2>2. Cardinality(Sending(w, r)) + Cardinality(Waiting(w, r)') <= Cardinality(Reviewers)
      BY <1>1, <2>1, Counted
    <2> QED BY <1>1, <1>2, <1>4, <2>2 DEF CopiesOK
  <1>5. CASE <<w, r>> \notin audit'
    <2>1. Sending(w, r) \subseteq Sending(w, r)'
      BY <1>5 DEF Sending
    <2>2. Cardinality(Sending(w, r)) <= Cardinality(Sending(w, r)')
      BY <1>1, <2>1, Counted
    <2> QED BY <1>1, <1>2, <1>5, <2>2 DEF CopiesOK
  <1> QED BY <1>3, <1>4, <1>5

-----------------------------------------------------------------------------
(* The state of a command, step by step.                                   *)

\* One command moves, the others wait.
LEMMA OneMoves ==
    ASSUME ReviewTypeOK, NEW c \in Reviewers, UNCHANGED <<week, found>>,
           phase' \in [Reviewers -> {"idle", "selected", "published", "saved", "delivering"}],
           DOMAIN doing' = Reviewers,
           \A d \in Reviewers \ {c} : doing'[d] = doing[d] /\ phase'[d] = phase[d],
           CommandOK(c)',
           kills' \in Nat, copies' \in [Weeks \X Recipients -> Nat], Entries(history'),
           DOMAIN everShown' = Weeks,
           \A w \in Weeks : everShown'[w] \subseteq NamesOf(Finds(w)) /\ (w > week => everShown'[w] = {})
    PROVE  ReviewTypeOK'
  <1>1. ASSUME NEW d \in Reviewers PROVE CommandOK(d)'
    <2>1. CASE d = c
      BY <2>1
    <2>2. CASE d # c
      BY <2>2 DEF ReviewTypeOK, CommandOK
    <2> QED BY <2>1, <2>2
  <1> QED BY <1>1 DEF ReviewTypeOK

\* Nobody moves.
LEMMA NobodyMoves ==
    ASSUME ReviewInv, UNCHANGED <<week, found, history, audit, phase, doing, kills, copies, everShown,
                                  raced, nagged>>
    PROVE  ReviewInv'
  <1>1. ReviewTypeOK /\ CopiesOK
    BY DEF ReviewInv
  <1>2. \A c \in Reviewers : CommandOK(c)'
    BY <1>1 DEF ReviewTypeOK, CommandOK
  <1>3. ReviewTypeOK'
    BY <1>1, <1>2 DEF ReviewTypeOK
  <1>4. CopiesOK'
    BY <1>1, <1>3, NoMailKeeps
  <1>5. kills' = 0 /\ ~raced' => QuietOK'
    <2> SUFFICES ASSUME kills = 0, ~raced PROVE QuietOK'
      OBVIOUS
    <2>1. QuietOK
      BY DEF ReviewInv
    <2> QED BY <2>1 DEF QuietOK, InHand, Remembers, Since, WithShown, Nags
  <1> QED BY <1>3, <1>4, <1>5 DEF ReviewInv

LEMMA SelectedIsFound == Selected \subseteq found
  BY DEF Selected, WithinDb, Kept

\* What a run remembers.
LEMMA NextEntries ==
    ASSUME ReviewTypeOK
    PROVE  /\ Entries(NextHistory)
           /\ \A f \in DOMAIN NextHistory : NextHistory[f] = Remembered(f)
           /\ \A f : f \in DOMAIN NextHistory <=>
                 /\ f \in NamesOf(Selected) \/ (f \in DOMAIN history /\ f \in Produced)
                 /\ ~Aged(Remembered(f))
           /\ \A f \in DOMAIN history : f \notin NamesOf(Selected) =>
                 /\ Remembered(f).evidence = history[f].evidence
                 /\ Remembered(f).seen \in {week, history[f].seen}
           /\ \A f \in NamesOf(Selected) : Remembered(f) = Shown(f)
  <1>1. /\ \A f \in DOMAIN NextHistory : NextHistory[f] = Remembered(f)
        /\ \A f : f \in DOMAIN NextHistory <=>
                 /\ f \in NamesOf(Selected) \/ (f \in DOMAIN history /\ f \in Produced)
                 /\ ~Aged(Remembered(f))
    BY DEF NextHistory, Resolved
  <1>2. ASSUME NEW f \in DOMAIN history, f \notin NamesOf(Selected)
        PROVE  /\ Remembered(f) = AnEntry(Remembered(f)) /\ Remembered(f).seen \in Int
               /\ Remembered(f).evidence = history[f].evidence
               /\ Remembered(f).seen \in {week, history[f].seen}
    <2>1. history[f] = AnEntry(history[f]) /\ history[f].seen \in Int /\ week \in Int
      BY DEF ReviewTypeOK, Entries, Weeks
    <2>2. \E s \in {week, history[f].seen} : Remembered(f) = [history[f] EXCEPT !.seen = s]
      BY <1>2 DEF Remembered
    <2>3. PICK s \in {week, history[f].seen} : Remembered(f) = [history[f] EXCEPT !.seen = s]
      BY <2>2
    <2>4. Remembered(f) = [evidence |-> history[f].evidence, seen |-> s]
      BY <2>1, <2>3 DEF AnEntry
    <2> QED BY <2>1, <2>4 DEF AnEntry
  <1>3. ASSUME NEW f \in NamesOf(Selected)
        PROVE  Remembered(f) = Shown(f) /\ Remembered(f) = AnEntry(Remembered(f))
               /\ Remembered(f).seen \in Int
    <2>1. Remembered(f) = Shown(f)
      BY DEF Remembered
    <2>2. week \in Int
      BY DEF ReviewTypeOK, Weeks
    <2> QED BY <2>1, <2>2 DEF Shown, AnEntry
  <1>4. Entries(NextHistory)
    BY <1>1, <1>2, <1>3 DEF Entries
  <1> QED BY <1>1, <1>2, <1>3, <1>4

LEMMA SelectTypes ==
    ASSUME ReviewTypeOK, NEW c \in Reviewers, NEW force \in BOOLEAN, Select(c, force)
    PROVE  /\ ReviewTypeOK'
           /\ doing'[c].history = NextHistory /\ doing'[c].knew = acked
           /\ doing'[c].document.shown = NamesOf(Selected)
           /\ doing'[c].todo = {} /\ doing'[c].sent = {}
           /\ \A d \in Reviewers \ {c} : doing'[d] = doing[d] /\ phase'[d] = phase[d]
           /\ phase'[c] = "selected" /\ phase[c] = "idle"
  <1>1. /\ phase[c] = "idle" /\ phase' = [phase EXCEPT ![c] = "selected"]
        /\ UNCHANGED <<week, found, history, kills, copies, everShown>>
    BY DEF Select, Starts, world, acks
  <1>2. doing' = [doing EXCEPT ![c] =
           [week |-> week, document |-> [shown |-> NamesOf(Selected), rows |-> <<>>],
            history |-> NextHistory, knew |-> acked, todo |-> {}, sent |-> {}]]
    BY Zenon DEF Select, Job, Document
  <1>3. /\ doing'[c] = [week |-> week, document |-> [shown |-> NamesOf(Selected), rows |-> <<>>],
                        history |-> NextHistory, knew |-> acked, todo |-> {}, sent |-> {}]
        /\ DOMAIN doing' = Reviewers
        /\ \A d \in Reviewers \ {c} : doing'[d] = doing[d] /\ phase'[d] = phase[d]
        /\ phase'[c] = "selected"
        /\ phase' \in [Reviewers -> {"idle", "selected", "published", "saved", "delivering"}]
    BY <1>1, <1>2 DEF ReviewTypeOK
  <1>4. /\ doing'[c] = ADoing(doing'[c])
        /\ doing'[c].week = week /\ doing'[c].history = NextHistory /\ doing'[c].knew = acked
        /\ doing'[c].document.shown = NamesOf(Selected)
        /\ doing'[c].todo = {} /\ doing'[c].sent = {}
    BY <1>3 DEF ADoing
  <1>5. NamesOf(Selected) \subseteq NamesOf(found)
    BY SelectedIsFound DEF NamesOf
  <1>6. CommandOK(c)'
    BY <1>1, <1>3, <1>4, <1>5, NextEntries DEF CommandOK, ReviewTypeOK
  <1>7. ReviewTypeOK'
    BY <1>1, <1>3, <1>6, OneMoves DEF ReviewTypeOK
  <1> QED BY <1>1, <1>3, <1>4, <1>7

LEMMA PublishTypes ==
    ASSUME ReviewTypeOK, NEW c \in Reviewers, PublishReview(c)
    PROVE  ReviewTypeOK' /\ \A d \in Reviewers \ {c} : phase'[d] = phase[d]
  <1>1. /\ phase[c] = "selected" /\ phase' = [phase EXCEPT ![c] = "published"]
        /\ everShown' = [everShown EXCEPT ![doing[c].week] = @ \cup doing[c].document.shown]
        /\ UNCHANGED <<week, found, history, kills, copies, doing>>
    BY DEF PublishReview, world, bounds
  <1>2. /\ CommandOK(c) /\ doing[c].week = week /\ week \in Weeks
        /\ doing[c].document.shown \subseteq NamesOf(found) /\ found = Finds(week)
    BY <1>1 DEF ReviewTypeOK, CommandOK
  <1>3. /\ DOMAIN everShown' = Weeks
        /\ \A w \in Weeks : everShown'[w] \subseteq NamesOf(Finds(w)) /\ (w > week => everShown'[w] = {})
    <2>1. \A w \in Weeks :
             everShown'[w] = IF w = week THEN everShown[w] \cup doing[c].document.shown ELSE everShown[w]
      BY <1>1, <1>2 DEF ReviewTypeOK
    <2>2. week \in Int
      BY <1>2 DEF Weeks
    <2> QED BY <1>1, <1>2, <2>1, <2>2 DEF ReviewTypeOK
  <1>4. /\ phase' \in [Reviewers -> {"idle", "selected", "published", "saved", "delivering"}]
        /\ phase'[c] = "published" /\ \A d \in Reviewers \ {c} : phase'[d] = phase[d]
    BY <1>1 DEF ReviewTypeOK
  <1>5. CommandOK(c)'
    BY <1>1, <1>2, <1>4 DEF CommandOK
  <1> QED BY <1>1, <1>3, <1>4, <1>5, OneMoves DEF ReviewTypeOK

LEMMA SaveTypes ==
    ASSUME ReviewTypeOK, NEW c \in Reviewers, SaveHistory(c)
    PROVE  ReviewTypeOK' /\ \A d \in Reviewers \ {c} : phase'[d] = phase[d]
  <1>1. /\ phase[c] = "published" /\ phase' = [phase EXCEPT ![c] = "saved"]
        /\ history' = doing[c].history
        /\ UNCHANGED <<week, found, kills, copies, doing, everShown>>
    BY DEF SaveHistory, world, bounds
  <1>2. CommandOK(c) /\ Entries(history')
    BY <1>1 DEF ReviewTypeOK, CommandOK
  <1>3. /\ phase' \in [Reviewers -> {"idle", "selected", "published", "saved", "delivering"}]
        /\ phase'[c] = "saved" /\ \A d \in Reviewers \ {c} : phase'[d] = phase[d]
    BY <1>1 DEF ReviewTypeOK
  <1>4. CommandOK(c)'
    BY <1>1, <1>2, <1>3 DEF CommandOK
  <1> QED BY <1>1, <1>2, <1>3, <1>4, OneMoves DEF ReviewTypeOK

\* A command that begins to deliver: what it has to send is not recorded.
LEMMA InboxTypes ==
    ASSUME ReviewTypeOK, NEW c \in Reviewers, NEW w \in Weeks, NEW document,
           InInbox(c, w, document), phase' = [phase EXCEPT ![c] = "delivering"],
           doing[c].sent = {},
           UNCHANGED <<week, found, history, kills, copies, everShown>>
    PROVE  /\ ReviewTypeOK' /\ audit \subseteq audit'
           /\ doing'[c].sent = {} /\ doing'[c].week = w
           /\ \A r \in doing'[c].todo : <<w, r>> \notin audit
           /\ \A d \in Reviewers \ {c} : doing'[d] = doing[d] /\ phase'[d] = phase[d]
           /\ phase'[c] = "delivering"
  <1> DEFINE merged == IF "inbox" \in ToDeliver(w)
                       THEN Merge(document, "inbox", "delivered") ELSE document
  <1>1. doing' = [doing EXCEPT ![c].todo = ToDeliver(w) \cap Recipients, ![c].document = merged,
                               ![c].week = w]
        /\ audit \subseteq audit'
    BY DEF InInbox
  <1> HIDE DEF merged
  <1>2. doing[c] = ADoing(doing[c])
    BY DEF ReviewTypeOK, CommandOK
  <1>3. /\ doing'[c] = [week |-> w, document |-> merged, history |-> doing[c].history,
                        knew |-> doing[c].knew, todo |-> ToDeliver(w) \cap Recipients, sent |-> {}]
        /\ DOMAIN doing' = Reviewers
        /\ \A d \in Reviewers \ {c} : doing'[d] = doing[d] /\ phase'[d] = phase[d]
    BY <1>1, <1>2 DEF ReviewTypeOK, ADoing
  <1>4. /\ phase' \in [Reviewers -> {"idle", "selected", "published", "saved", "delivering"}]
        /\ phase'[c] = "delivering"
    BY DEF ReviewTypeOK
  <1>5. /\ doing'[c] = ADoing(doing'[c])
        /\ doing'[c].week = w /\ doing'[c].sent = {}
        /\ doing'[c].todo = ToDeliver(w) \cap Recipients
    BY <1>3 DEF ADoing
  <1>6. CommandOK(c)'
    BY <1>4, <1>5 DEF CommandOK
  <1>7. ReviewTypeOK'
    BY <1>3, <1>4, <1>6, OneMoves DEF ReviewTypeOK
  <1>8. \A r \in doing'[c].todo : <<w, r>> \notin audit
    BY <1>5 DEF ToDeliver
  <1> QED BY <1>1, <1>3, <1>4, <1>5, <1>7, <1>8

\* A command that is done or killed.
LEMMA IdleTypes ==
    ASSUME ReviewTypeOK, NEW c \in Reviewers,
           phase' = [phase EXCEPT ![c] = "idle"], doing' = [doing EXCEPT ![c] = Idle],
           kills' \in Nat, UNCHANGED <<week, found, history, copies, everShown>>
    PROVE  /\ ReviewTypeOK'
           /\ \A d \in Reviewers \ {c} : doing'[d] = doing[d] /\ phase'[d] = phase[d]
           /\ phase'[c] = "idle" /\ doing'[c].todo = {} /\ doing'[c].sent = {}
  <1>1. /\ phase' \in [Reviewers -> {"idle", "selected", "published", "saved", "delivering"}]
        /\ phase'[c] = "idle" /\ doing'[c] = Idle /\ DOMAIN doing' = Reviewers
        /\ \A d \in Reviewers \ {c} : doing'[d] = doing[d] /\ phase'[d] = phase[d]
    BY DEF ReviewTypeOK
  <1>2. doing'[c] = ADoing(doing'[c]) /\ doing'[c].todo = {} /\ doing'[c].sent = {}
    BY <1>1 DEF Idle, Job, ADoing
  <1>3. CommandOK(c)'
    BY <1>1, <1>2 DEF CommandOK
  <1> QED BY <1>1, <1>2, <1>3, OneMoves DEF ReviewTypeOK

\* A command in the middle of its delivery.
LEMMA DeliveryTypes ==
    ASSUME ReviewTypeOK, NEW c \in Reviewers, phase[c] = "delivering",
           NEW todo \in SUBSET doing[c].todo, NEW sent, NEW document,
           sent \cap todo = {}, \A q, r \in sent : q = r,
           doing'[c] = [week |-> doing[c].week, document |-> document, history |-> doing[c].history,
                        knew |-> doing[c].knew, todo |-> todo, sent |-> sent],
           DOMAIN doing' = Reviewers, \A d \in Reviewers \ {c} : doing'[d] = doing[d],
           copies' \in [Weeks \X Recipients -> Nat],
           UNCHANGED <<week, found, history, phase, kills, everShown>>
    PROVE  /\ ReviewTypeOK'
           /\ doing'[c].week = doing[c].week /\ doing'[c].todo = todo /\ doing'[c].sent = sent
  <1>1. doing[c] = ADoing(doing[c]) /\ CommandOK(c)
    BY DEF ReviewTypeOK, CommandOK
  <1>3. /\ doing'[c] = ADoing(doing'[c])
        /\ doing'[c].week = doing[c].week /\ doing'[c].todo = todo /\ doing'[c].sent = sent
    BY DEF ADoing
  <1>4. CommandOK(c)'
    BY <1>1, <1>3 DEF CommandOK
  <1>5. ReviewTypeOK'
    BY <1>4, OneMoves DEF ReviewTypeOK
  <1> QED BY <1>3, <1>5

LEMMA SendTypes ==
    ASSUME ReviewTypeOK, NEW c \in Reviewers, NEW r \in doing[c].todo, SendReview(c, r)
    PROVE  /\ ReviewTypeOK' /\ doing[c].sent = {}
           /\ doing'[c].week = doing[c].week /\ doing[c].week \in Weeks /\ r \in Recipients
           /\ doing'[c].todo = doing[c].todo \ {r} /\ doing'[c].sent = {r}
           /\ \A d \in Reviewers \ {c} : doing'[d] = doing[d]
           /\ \A w \in Weeks, q \in Recipients :
                copies'[<<w, q>>] = IF w = doing[c].week /\ q = r THEN copies[<<w, q>>] + 1
                                    ELSE copies[<<w, q>>]
  <1>1. /\ phase[c] = "delivering" /\ doing[c].sent = {}
        /\ doing' = [doing EXCEPT ![c].todo = @ \ {r}, ![c].sent = {r}]
        /\ copies' = [copies EXCEPT ![<<doing[c].week, r>>] = @ + 1]
        /\ UNCHANGED <<week, found, history, phase, kills, everShown>>
    BY DEF SendReview, world, bounds
  <1>2. CommandOK(c) /\ doing[c] = ADoing(doing[c]) /\ doing[c].week \in Weeks /\ r \in Recipients
    BY <1>1 DEF ReviewTypeOK, CommandOK
  <1>3. /\ doing'[c] = [week |-> doing[c].week, document |-> doing[c].document, history |-> doing[c].history,
                     knew |-> doing[c].knew, todo |-> doing[c].todo \ {r}, sent |-> {r}]
        /\ DOMAIN doing' = Reviewers /\ \A d \in Reviewers \ {c} : doing'[d] = doing[d]
    <2>1. doing'[c] = [doing[c] EXCEPT !.todo = @ \ {r}, !.sent = {r}]
      BY <1>1 DEF ReviewTypeOK
    <2>2. doing'[c] = [ADoing(doing[c]) EXCEPT !.todo = @ \ {r}, !.sent = {r}]
      BY Zenon, <1>2, <2>1
    <2>3. doing'[c] = [week |-> doing[c].week, document |-> doing[c].document, history |-> doing[c].history,
                     knew |-> doing[c].knew, todo |-> doing[c].todo \ {r}, sent |-> {r}]
      BY <2>2 DEF ADoing
    <2> QED BY <1>1, <2>3 DEF ReviewTypeOK
  <1>4. /\ copies' \in [Weeks \X Recipients -> Nat]
        /\ \A w \in Weeks, q \in Recipients :
             copies'[<<w, q>>] = IF w = doing[c].week /\ q = r THEN copies[<<w, q>>] + 1
                                 ELSE copies[<<w, q>>]
    BY <1>1, <1>2 DEF ReviewTypeOK
  <1>5. ReviewTypeOK' /\ doing'[c].week = doing[c].week
        /\ doing'[c].todo = doing[c].todo \ {r} /\ doing'[c].sent = {r}
    <2> DEFINE todo == doing[c].todo \ {r}
    <2>1. todo \in SUBSET doing[c].todo /\ {r} \cap todo = {} /\ \A p, q \in {r} : p = q
      OBVIOUS
    <2> HIDE DEF todo
    <2>2. doing'[c] = [week |-> doing[c].week, document |-> doing[c].document,
                       history |-> doing[c].history, knew |-> doing[c].knew, todo |-> todo, sent |-> {r}]
      BY Zenon, <1>3 DEF todo
    <2>3. ReviewTypeOK' /\ doing'[c].week = doing[c].week /\ doing'[c].todo = todo /\ doing'[c].sent = {r}
      BY <1>1, <1>3, <1>4, <2>1, <2>2, DeliveryTypes
    <2> QED BY <2>3 DEF todo
  <1> QED BY <1>1, <1>2, <1>3, <1>4, <1>5

LEMMA FailTypes ==
    ASSUME ReviewTypeOK, NEW c \in Reviewers, NEW r \in doing[c].todo, FailDelivery(c, r)
    PROVE  /\ ReviewTypeOK' /\ doing'[c].sent = doing[c].sent
           /\ doing'[c].week = doing[c].week /\ doing'[c].todo = doing[c].todo \ {r}
           /\ \A d \in Reviewers \ {c} : doing'[d] = doing[d]
  <1>1. /\ phase[c] = "delivering" /\ doing[c].sent = {}
        /\ doing' = [doing EXCEPT ![c].todo = @ \ {r}, ![c].document = Merge(@, r, "failed")]
        /\ UNCHANGED <<week, found, history, phase, kills, copies, everShown>>
    BY DEF FailDelivery, world
  <1> DEFINE merged == Merge(doing[c].document, r, "failed")
  <1>2. doing[c] = ADoing(doing[c])
    BY DEF ReviewTypeOK, CommandOK
  <1> DEFINE todo == doing[c].todo \ {r}
  <1>3. /\ doing'[c] = [doing[c] EXCEPT !.todo = todo, !.document = merged]
        /\ DOMAIN doing' = Reviewers /\ \A d \in Reviewers \ {c} : doing'[d] = doing[d]
        /\ todo \in SUBSET doing[c].todo
    BY <1>1 DEF ReviewTypeOK
  <1> HIDE DEF merged, todo
  <1>4. doing'[c] = [week |-> doing[c].week, document |-> merged, history |-> doing[c].history,
                     knew |-> doing[c].knew, todo |-> todo, sent |-> {}]
    <2>1. doing'[c] = [ADoing(doing[c]) EXCEPT !.todo = todo, !.document = merged]
      BY Zenon, <1>2, <1>3
    <2>2. doing[c].sent = {}
      BY <1>1
    <2> QED BY <2>1, <2>2 DEF ADoing
  <1>5. ReviewTypeOK' /\ doing'[c].week = doing[c].week /\ doing'[c].todo = todo /\ doing'[c].sent = {}
    <2>1. {} \cap todo = {} /\ \A p, q \in {} : p = q
      OBVIOUS
    <2>2. copies' \in [Weeks \X Recipients -> Nat]
      BY <1>1 DEF ReviewTypeOK
    <2> QED BY <1>1, <1>3, <1>4, <2>1, <2>2, DeliveryTypes
  <1> QED BY <1>1, <1>3, <1>5 DEF todo

LEMMA RecordTypes ==
    ASSUME ReviewTypeOK, NEW c \in Reviewers, NEW r \in doing[c].sent, RecordDelivery(c, r)
    PROVE  /\ ReviewTypeOK' /\ doing'[c].week = doing[c].week
           /\ doing'[c].todo = doing[c].todo /\ doing'[c].sent = {}
           /\ doing[c].sent = {r}
           /\ \A d \in Reviewers \ {c} : doing'[d] = doing[d]
  <1>1. /\ phase[c] = "delivering"
        /\ doing' = [doing EXCEPT ![c].sent = {}, ![c].document = Merge(@, r, "delivered")]
        /\ UNCHANGED <<week, found, history, phase, kills, copies, everShown>>
    BY DEF RecordDelivery, world, bounds
  <1> DEFINE merged == Merge(doing[c].document, r, "delivered")
  <1>2. doing[c] = ADoing(doing[c]) /\ doing[c].sent = {r}
    BY DEF ReviewTypeOK, CommandOK
  <1>3. /\ doing'[c] = [doing[c] EXCEPT !.sent = {}, !.document = merged]
        /\ DOMAIN doing' = Reviewers /\ \A d \in Reviewers \ {c} : doing'[d] = doing[d]
    BY <1>1 DEF ReviewTypeOK
  <1> HIDE DEF merged
  <1>4. doing'[c] = [week |-> doing[c].week, document |-> merged, history |-> doing[c].history,
                     knew |-> doing[c].knew, todo |-> doing[c].todo, sent |-> {}]
    <2>1. doing'[c] = [ADoing(doing[c]) EXCEPT !.sent = {}, !.document = merged]
      BY Zenon, <1>2, <1>3
    <2> QED BY <2>1 DEF ADoing
  <1>5. ReviewTypeOK' /\ doing'[c].week = doing[c].week
        /\ doing'[c].todo = doing[c].todo /\ doing'[c].sent = {}
    <2>1. {} \cap doing[c].todo = {} /\ \A p, q \in {} : p = q
      OBVIOUS
    <2>2. copies' \in [Weeks \X Recipients -> Nat]
      BY <1>1 DEF ReviewTypeOK
    <2> QED BY <1>1, <1>3, <1>4, <2>1, <2>2, DeliveryTypes
  <1> QED BY <1>2, <1>3, <1>5

-----------------------------------------------------------------------------
(* Who was mailed.                                                         *)

LEMMA SendKeepsCopies ==
    ASSUME ReviewTypeOK, CopiesOK, NEW c \in Reviewers, NEW r \in doing[c].todo, SendReview(c, r)
    PROVE  CopiesOK'
  <1> DEFINE v == doing[c].week
  <1>1. /\ ReviewTypeOK' /\ doing[c].sent = {} /\ doing'[c].week = v
        /\ v \in Weeks /\ r \in Recipients
        /\ doing'[c].todo = doing[c].todo \ {r} /\ doing'[c].sent = {r}
        /\ \A d \in Reviewers \ {c} : doing'[d] = doing[d]
        /\ \A w \in Weeks, q \in Recipients :
             copies'[<<w, q>>] = IF w = v /\ q = r THEN copies[<<w, q>>] + 1
                                 ELSE copies[<<w, q>>]
        /\ audit' = audit /\ kills' = kills
    BY SendTypes DEF SendReview, bounds
  <1> SUFFICES ASSUME NEW w \in Weeks, NEW q \in Recipients
               PROVE  /\ <<w, q>> \in audit' =>
                           copies'[<<w, q>>] + Cardinality(Waiting(w, q)') <= kills' + Cardinality(Reviewers)
                      /\ <<w, q>> \notin audit' =>
                           copies'[<<w, q>>] <= kills' + Cardinality(Sending(w, q)')
    BY Zenon DEF CopiesOK
  <1>2. /\ Sending(w, q) \in SUBSET Reviewers /\ Waiting(w, q) \in SUBSET Reviewers
        /\ copies[<<w, q>>] \in Nat /\ kills \in Nat
    BY Parties
  <1>3. Cardinality(Reviewers) \in Nat /\ Cardinality(Waiting(w, q)) \in Nat
        /\ Cardinality(Sending(w, q)) \in Nat
    BY <1>2, Counted
  <1>4. CASE w = v /\ q = r
    <2>1. Waiting(w, q)' = Waiting(w, q) \ {c} /\ c \in Waiting(w, q)
      BY <1>1, <1>4 DEF Waiting
    <2>2. Sending(w, q)' = Sending(w, q) \cup {c} /\ c \notin Sending(w, q)
      BY <1>1, <1>4 DEF Sending
    <2>3. Cardinality(Waiting(w, q)') = Cardinality(Waiting(w, q)) - 1
      <3>1. Cardinality(Waiting(w, q) \ {c}) = Cardinality(Waiting(w, q)) - 1
        BY <1>2, <2>1, OneMore
      <3> QED BY Zenon, <2>1, <3>1
    <2>4. Cardinality(Sending(w, q)') = Cardinality(Sending(w, q)) + 1
      <3>1. Cardinality(Sending(w, q) \cup {c}) = Cardinality(Sending(w, q)) + 1
        BY <1>2, <2>2, OneMore
      <3> QED BY Zenon, <2>2, <3>1
    <2> QED BY <1>1, <1>2, <1>3, <1>4, <2>3, <2>4 DEF CopiesOK
  <1>5. CASE ~(w = v /\ q = r)
    <2>1. Waiting(w, q)' = Waiting(w, q) /\ Sending(w, q)' = Sending(w, q)
      BY <1>1, <1>5 DEF Waiting, Sending
    <2>2. copies'[<<w, q>>] = copies[<<w, q>>]
      BY <1>1, <1>5
    <2>3. Cardinality(Waiting(w, q)') = Cardinality(Waiting(w, q))
          /\ Cardinality(Sending(w, q)') = Cardinality(Sending(w, q))
      BY Zenon, <2>1
    <2> QED BY <1>1, <1>2, <1>3, <2>2, <2>3 DEF CopiesOK
  <1> QED BY <1>4, <1>5

LEMMA KillKeepsCopies ==
    ASSUME ReviewTypeOK, CopiesOK, NEW c \in Reviewers, kills' = kills + 1, copies' = copies,
           audit' = audit, \A d \in Reviewers \ {c} : doing'[d] = doing[d],
           doing'[c].todo = {}, doing'[c].sent = {}
    PROVE  CopiesOK'
  <1> SUFFICES ASSUME NEW w \in Weeks, NEW q \in Recipients
               PROVE  /\ <<w, q>> \in audit' =>
                           copies'[<<w, q>>] + Cardinality(Waiting(w, q)') <= kills' + Cardinality(Reviewers)
                      /\ <<w, q>> \notin audit' =>
                           copies'[<<w, q>>] <= kills' + Cardinality(Sending(w, q)')
    BY Zenon DEF CopiesOK
  <1>1. /\ Sending(w, q) \in SUBSET Reviewers /\ Waiting(w, q) \in SUBSET Reviewers
        /\ copies[<<w, q>>] \in Nat /\ kills \in Nat
    BY Parties
  <1>2. Waiting(w, q)' \subseteq Waiting(w, q) /\ Sending(w, q)' = Sending(w, q) \ {c}
    BY DEF Waiting, Sending
  <1>3. /\ Cardinality(Waiting(w, q)') <= Cardinality(Waiting(w, q))
        /\ Cardinality(Waiting(w, q)') \in Nat /\ Cardinality(Waiting(w, q)) \in Nat
    <2>1. Waiting(w, q)' \in SUBSET Reviewers
      BY <1>1, <1>2
    <2> QED BY <1>1, <1>2, <2>1, Counted
  <1>4. Cardinality(Sending(w, q)) <= Cardinality(Sending(w, q)') + 1
    <2>1. Cardinality(Sending(w, q)) <= Cardinality(Sending(w, q) \ {c}) + 1
      BY <1>1, OneMore
    <2> QED BY Zenon, <1>2, <2>1
  <1>5. Cardinality(Sending(w, q)) \in Nat /\ Cardinality(Sending(w, q)') \in Nat
        /\ Cardinality(Reviewers) \in Nat
    <2>1. Sending(w, q)' \in SUBSET Reviewers
      BY <1>1, <1>2
    <2> QED BY <1>1, <2>1, Counted
  <1> QED BY <1>1, <1>3, <1>4, <1>5 DEF CopiesOK

-----------------------------------------------------------------------------
(* What was shown.                                                         *)

\* Steps that leave what is in hand alone.
LEMMA QuietKeeps ==
    ASSUME QuietOK, UNCHANGED <<week, everShown, history, nagged>>,
           \A c \in Reviewers : InHand(c) \/ InHand(c)' => doing'[c] = doing[c] /\ phase'[c] = phase[c]
    PROVE  QuietOK'
  <1>1. \A c \in Reviewers : InHand(c)' <=> InHand(c)
    BY DEF InHand
  <1>2. \A c \in Reviewers : phase'[c] = "published" <=> phase[c] = "published"
    BY DEF InHand
  <1>3. (\A c \in Reviewers : phase'[c] # "published") => Remembers(everShown, history)'
    <2>1. (\A c \in Reviewers : phase'[c] # "published") => Remembers(everShown, history)
      BY <1>2 DEF QuietOK
    <2> QED BY <2>1 DEF Remembers, Since
  <1>4. ASSUME NEW c \in Reviewers, phase'[c] = "selected"
        PROVE  /\ Remembers(WithShown(c), doing[c].history)'
               /\ \A f \in doing'[c].document.shown : ~Nags(c, f)'
    <2>1. phase[c] = "selected" /\ doing'[c] = doing[c]
      BY <1>4 DEF InHand
    <2>2. Remembers(WithShown(c), doing[c].history) /\ \A f \in doing[c].document.shown : ~Nags(c, f)
      BY <2>1 DEF QuietOK
    <2>3. WithShown(c)' = WithShown(c)
      BY <2>1 DEF WithShown
    <2>4. Remembers(WithShown(c), doing[c].history)'
      BY <2>1, <2>2, <2>3 DEF Remembers, Since
    <2>5. \A f \in doing'[c].document.shown : ~Nags(c, f)'
      BY <2>1, <2>2 DEF Nags
    <2> QED BY <2>4, <2>5
  <1>5. ASSUME NEW c \in Reviewers, phase'[c] = "published"
        PROVE  Remembers(everShown, doing[c].history)'
    <2>1. phase[c] = "published" /\ doing'[c] = doing[c]
      BY <1>5 DEF InHand
    <2>2. Remembers(everShown, doing[c].history)
      BY <2>1 DEF QuietOK
    <2> QED BY <2>1, <2>2 DEF Remembers, Since
  <1>6. ~nagged' /\ \A c, d \in Reviewers : InHand(c)' /\ InHand(d)' => c = d
    BY <1>1 DEF QuietOK
  <1> QED BY <1>3, <1>4, <1>5, <1>6 DEF QuietOK

\* What a run will remember covers what it shows.
LEMMA SelectRemembers ==
    ASSUME ReviewTypeOK, Remembers(everShown, history),
           NEW ever, ever = [w \in Weeks |-> IF w = week THEN everShown[w] \cup NamesOf(Selected)
                                             ELSE everShown[w]]
    PROVE  Remembers(ever, NextHistory)
  <1> SUFFICES ASSUME NEW w \in Weeks, NEW f \in ever[w], Since(ever, w, f)
               PROVE  /\ f \in DOMAIN NextHistory
                      /\ NextHistory[f].evidence = EvidenceOf(w, f)
                      /\ NextHistory[f].seen >= w
    BY DEF Remembers
  <1>1. /\ week \in Weeks /\ week \in Int /\ w \in Int /\ Rules.history_weeks \in Nat
        /\ found = Finds(week) /\ DOMAIN everShown = Weeks
        /\ \A x \in Weeks : everShown[x] \subseteq NamesOf(Finds(x))
    BY ReviewAssumption DEF ReviewTypeOK, Weeks
  <1>2. CASE f \in NamesOf(Selected)
    <2>1. w = week
      BY <1>1, <1>2 DEF Since
    <2>2. PICK c \in Selected : c.name = f
      BY <1>2 DEF NamesOf
    <2>3. PICK d \in Selected : d = (CHOOSE e \in Selected : e.name = f) /\ d.name = f
      BY <2>2
    <2>4. d.evidence = EvidenceOf(week, f)
      BY <1>1, <2>3, SelectedIsFound, EvidenceFound
    <2>5. Remembered(f) = Shown(f) /\ Shown(f).evidence = EvidenceOf(week, f) /\ Shown(f).seen = week
      BY <1>2, <2>3, <2>4, NextEntries DEF Shown
    <2>6. ~Aged(Remembered(f))
      BY <1>1, <2>5 DEF Aged
    <2> QED BY <1>1, <1>2, <2>1, <2>5, <2>6, NextEntries
  <1>3. CASE f \notin NamesOf(Selected)
    <2>1. f \in everShown[w] /\ \A x \in Weeks : everShown[x] \subseteq ever[x]
      BY <1>1, <1>3
    <2>2. Since(everShown, w, f)
      <3>1. \A x \in w + 1 .. week : x \in Weeks
        <4>1. LastWeek \in Nat /\ w \in 1 .. LastWeek /\ week \in 1 .. LastWeek
          BY <1>1, ReviewAssumption DEF Weeks
        <4>2. \A x \in w + 1 .. week : x \in 1 .. LastWeek
          BY <4>1
        <4> QED BY <4>2 DEF Weeks
      <3> QED BY <2>1, <3>1 DEF Since
    <2>3. f \in DOMAIN history /\ history[f].evidence = EvidenceOf(w, f) /\ history[f].seen >= w
      BY <2>1, <2>2 DEF Remembers
    <2>4. f \in Produced
      <3>1. CASE w = week
        <4>1. f \in NamesOf(Finds(w))
          BY <1>1, <2>1
        <4> QED BY <1>1, <3>1, <4>1 DEF Produced
      <3>2. CASE w # week
        <4>1. week \in w + 1 .. week
          BY <1>1, <2>2, <3>2 DEF Since
        <4>2. f \in NamesOf(Finds(week))
          BY <2>2, <4>1 DEF Since
        <4> QED BY <1>1, <4>2 DEF Produced
      <3> QED BY <3>1, <3>2
    <2>5. /\ Remembered(f).evidence = history[f].evidence
          /\ Remembered(f).seen \in {week, history[f].seen}
          /\ history[f].seen \in Int
      BY <1>3, <2>3, NextEntries DEF ReviewTypeOK, Entries
    <2>6. Remembered(f).seen >= w /\ Remembered(f).seen \in Int
      BY <1>1, <2>2, <2>3, <2>5 DEF Since
    <2>7. ~Aged(Remembered(f))
      BY <1>1, <2>2, <2>6 DEF Aged, Since
    <2> QED BY <2>3, <2>4, <2>5, <2>6, <2>7, NextEntries
  <1> QED BY <1>2, <1>3

\* What was acknowledged as it was last shown is not selected.
LEMMA SelectSparesTheAcknowledged ==
    ASSUME ReviewTypeOK, Remembers(everShown, history), NEW f \in NamesOf(Selected),
           NEW w \in Weeks, w < week, week - w <= Rules.history_weeks,
           f \in everShown[w], f \in acked, Same(w, week, f),
           \A x \in w + 1 .. week - 1 : f \notin everShown[x] /\ f \in NamesOf(Finds(x))
    PROVE  FALSE
  <1>1. /\ week \in Weeks /\ week \in Int /\ w \in Int /\ Rules.history_weeks \in Nat
        /\ found = Finds(week)
        /\ \A x \in Weeks : everShown[x] \subseteq NamesOf(Finds(x))
    BY ReviewAssumption DEF ReviewTypeOK, Weeks
  <1>2. PICK c \in Selected : c.name = f
    BY DEF NamesOf
  <1>3. /\ c \in Finds(week) /\ c \in Kept /\ f \in NamesOf(Finds(week))
        /\ c.evidence = EvidenceOf(week, f)
    <2>1. c \in Kept /\ c \in Finds(week)
      BY <1>1, <1>2, SelectedIsFound DEF Selected, WithinDb
    <2> QED BY <1>2, <2>1, EvidenceFound DEF NamesOf
  <1>4. f \in DOMAIN history /\ history[f].evidence = EvidenceOf(week, f)
    <2>1. CASE f \in everShown[week]
      <3>1. Since(everShown, week, f)
        BY <1>1, <2>1 DEF Since
      <3> QED BY <1>1, <2>1, <3>1 DEF Remembers
    <2>2. CASE f \notin everShown[week]
      <3>1. \A x \in w + 1 .. week : x = week \/ x \in w + 1 .. week - 1
        BY <1>1
      <3>2. Since(everShown, w, f)
        BY <1>1, <1>3, <2>2, <3>1 DEF Since
      <3>3. f \in DOMAIN history /\ history[f].evidence = EvidenceOf(w, f)
        BY <3>2 DEF Remembers
      <3>4. EvidenceOf(w, f) = EvidenceOf(week, f)
        BY <1>1, <1>3, SameEvidence
      <3> QED BY <3>3, <3>4
    <2> QED BY <2>1, <2>2
  <1>5. Movement(c) = "carried"
    BY <1>2, <1>3, <1>4 DEF Movement
  <1>6. c \in Acknowledged
    BY <1>2, <1>3, <1>5 DEF Acknowledged, Kept
  <1> QED BY <1>3, <1>6 DEF Kept

LEMMA SelectStaysQuiet ==
    ASSUME ReviewTypeOK, QuietOK, NEW c \in Reviewers, NEW force \in BOOLEAN, Select(c, force), ~raced'
    PROVE  QuietOK'
  <1>1. /\ doing'[c].history = NextHistory /\ doing'[c].knew = acked
        /\ doing'[c].document.shown = NamesOf(Selected)
        /\ \A d \in Reviewers \ {c} : doing'[d] = doing[d] /\ phase'[d] = phase[d]
        /\ phase'[c] = "selected" /\ phase[c] = "idle"
    BY SelectTypes
  <1>2. /\ UNCHANGED <<week, history, everShown, nagged>>
        /\ \A d \in Reviewers : ~InHand(d)
    BY DEF Select, world, acks, InHand
  <1>3. \A d \in Reviewers : InHand(d)' => d = c
    BY <1>1, <1>2 DEF InHand
  <1>4. Remembers(everShown, history)
    BY <1>2 DEF QuietOK, InHand
  <1>5. Remembers(everShown, history)'
    BY <1>2, <1>4 DEF Remembers, Since
  <1>6. Remembers(WithShown(c), doing[c].history)'
    <2> DEFINE ever == [w \in Weeks |-> IF w = week THEN everShown[w] \cup NamesOf(Selected)
                                        ELSE everShown[w]]
    <2>1. Remembers(ever, NextHistory)
      BY <1>4, SelectRemembers
    <2>2. WithShown(c)' = ever
      BY <1>1, <1>2 DEF WithShown
    <2> HIDE DEF ever
    <2> QED BY <1>1, <1>2, <2>1, <2>2 DEF Remembers, Since
  <1>7. ASSUME NEW f \in doing'[c].document.shown, Nags(c, f)' PROVE FALSE
    <2>1. f \in NamesOf(Selected)
      BY <1>1, <1>7
    <2>2. PICK w \in Weeks :
             /\ w < week /\ week - w <= Rules.history_weeks
             /\ f \in everShown[w] /\ f \in acked /\ Same(w, week, f)
             /\ \A x \in w + 1 .. week - 1 : f \notin everShown[x] /\ f \in NamesOf(Finds(x))
      BY <1>1, <1>2, <1>7 DEF Nags
    <2> QED BY <1>4, <2>1, <2>2, SelectSparesTheAcknowledged
  <1>8. \A d \in Reviewers : phase'[d] # "published" /\ (phase'[d] = "selected" => d = c)
    BY <1>1, <1>3 DEF InHand
  <1>9. ~nagged'
    BY <1>2 DEF QuietOK
  <1> QED BY <1>3, <1>5, <1>6, <1>7, <1>8, <1>9 DEF QuietOK

LEMMA PublishStaysQuiet ==
    ASSUME ReviewTypeOK, QuietOK, NEW c \in Reviewers, PublishReview(c)
    PROVE  QuietOK'
  <1>1. /\ phase[c] = "selected" /\ phase' = [phase EXCEPT ![c] = "published"]
        /\ everShown' = [everShown EXCEPT ![doing[c].week] = @ \cup doing[c].document.shown]
        /\ nagged' = (nagged \/ \E f \in doing[c].document.shown : Nags(c, f))
        /\ UNCHANGED <<week, history, doing>>
    BY DEF PublishReview, world
  <1>2. /\ doing[c].week = week /\ DOMAIN everShown = Weeks
        /\ phase'[c] = "published" /\ \A d \in Reviewers \ {c} : phase'[d] = phase[d]
    BY <1>1 DEF ReviewTypeOK, CommandOK
  <1>3. everShown' = WithShown(c)
    BY <1>1, <1>2 DEF WithShown
  <1>4. \A d \in Reviewers : InHand(d)' => d = c
    BY <1>1, <1>2 DEF InHand, QuietOK
  <1>5. Remembers(WithShown(c), doing[c].history) /\ ~nagged'
    BY <1>1 DEF QuietOK
  <1>6. Remembers(everShown, doing[c].history)'
    BY <1>1, <1>3, <1>5 DEF Remembers, Since
  <1>7. \A d \in Reviewers : phase'[d] # "selected" /\ (phase'[d] = "published" => d = c)
    BY <1>2, <1>4 DEF InHand
  <1> QED BY <1>2, <1>4, <1>5, <1>6, <1>7 DEF QuietOK

LEMMA SaveStaysQuiet ==
    ASSUME ReviewTypeOK, QuietOK, NEW c \in Reviewers, SaveHistory(c)
    PROVE  QuietOK'
  <1>1. /\ phase[c] = "published" /\ phase' = [phase EXCEPT ![c] = "saved"]
        /\ history' = doing[c].history
        /\ UNCHANGED <<week, doing, everShown, nagged>>
    BY DEF SaveHistory, world
  <1>2. phase'[c] = "saved" /\ \A d \in Reviewers \ {c} : phase'[d] = phase[d]
    BY <1>1 DEF ReviewTypeOK
  <1>3. \A d \in Reviewers : ~InHand(d)'
    BY <1>1, <1>2 DEF InHand, QuietOK
  <1>4. Remembers(everShown, history')
    BY <1>1 DEF QuietOK
  <1>5. Remembers(everShown, history)'
    BY <1>1, <1>4 DEF Remembers, Since
  <1>6. ~nagged' /\ \A d \in Reviewers : phase'[d] \notin {"selected", "published"}
    BY <1>1, <1>3 DEF QuietOK, InHand
  <1> QED BY <1>3, <1>5, <1>6 DEF QuietOK

LEMMA ElapsesStaysQuiet ==
    ASSUME ReviewTypeOK, QuietOK, Elapses
    PROVE  QuietOK'
  <1>1. /\ \A c \in Reviewers : phase[c] = "idle" /\ phase'[c] = "idle"
        /\ week' = week + 1 /\ week \in Int
        /\ UNCHANGED <<history, everShown, nagged>>
    BY DEF Elapses, acks, ReviewTypeOK, Weeks
  <1>2. Remembers(everShown, history)
    BY <1>1 DEF QuietOK
  <1>3. Remembers(everShown, history)'
    <2> SUFFICES ASSUME NEW w \in Weeks, NEW f \in everShown[w], Since(everShown, w, f)'
                 PROVE  Since(everShown, w, f)
      BY <1>1, <1>2 DEF Remembers
    <2>1. /\ w <= week + 1 /\ week + 1 - w <= Rules.history_weeks
          /\ \A x \in w + 1 .. week + 1 : f \notin everShown[x] /\ f \in NamesOf(Finds(x))
      <3>1. /\ w <= week' /\ week' - w <= Rules.history_weeks
            /\ \A x \in w + 1 .. week' : f \notin everShown'[x] /\ f \in NamesOf(Finds(x))
        BY DEF Since
      <3>2. week' = week + 1 /\ everShown' = everShown
        BY <1>1
      <3>3. week' \in Int /\ w \in Int
        BY <1>1, <3>2 DEF Weeks
      <3>4. \A x : x \in w + 1 .. week + 1 => x \in w + 1 .. week'
        BY <3>2
      <3>5. ASSUME NEW x \in w + 1 .. week + 1
            PROVE  f \notin everShown[x] /\ f \in NamesOf(Finds(x))
        <4>1. x \in w + 1 .. week'
          BY <3>4
        <4>2. f \notin everShown'[x] /\ f \in NamesOf(Finds(x))
          BY <3>1, <4>1
        <4> QED BY <3>2, <4>2
      <3>6. w <= week + 1 /\ week + 1 - w <= Rules.history_weeks
        BY <1>1, <3>1, <3>2, <3>3
      <3> QED BY Zenon, <3>5, <3>6
    <2>2. w \in Int /\ w <= week /\ Rules.history_weeks \in Nat
      BY <1>1, ReviewAssumption DEF ReviewTypeOK, Weeks
    <2>3. \A x \in w + 1 .. week : x \in w + 1 .. week + 1
      BY <1>1, <2>2
    <2> QED BY <1>1, <2>1, <2>2, <2>3 DEF Since
  <1>4. \A c \in Reviewers : ~InHand(c)' /\ phase'[c] # "selected" /\ phase'[c] # "published"
    BY <1>1 DEF InHand
  <1> QED BY <1>1, <1>3, <1>4 DEF QuietOK

-----------------------------------------------------------------------------
(* The inductive invariant, action by action.                              *)

LEMMA ReviewStarts == ReviewInit => ReviewInv
  <1> SUFFICES ASSUME ReviewInit PROVE ReviewInv
    OBVIOUS
  <1>1. /\ week = 1 /\ found = Finds(1) /\ audit = {} /\ kills = 0 /\ ~nagged
        /\ phase = [c \in Reviewers |-> "idle"] /\ doing = [c \in Reviewers |-> Idle]
        /\ copies = [wr \in Weeks \X Recipients |-> 0]
        /\ everShown = [w \in Weeks |-> {}]
        /\ DOMAIN history = {}
    BY DEF ReviewInit
  <1>2. 1 \in Weeks
    BY ReviewAssumption DEF Weeks
  <1>3. ASSUME NEW c \in Reviewers
        PROVE  phase[c] = "idle" /\ doing[c] = ADoing(doing[c]) /\ doing[c].todo = {} /\ doing[c].sent = {}
    BY <1>1 DEF Idle, Job, ADoing
  <1>4. \A c \in Reviewers : CommandOK(c)
    BY <1>3 DEF CommandOK
  <1>5. ReviewTypeOK
    BY <1>1, <1>2, <1>4 DEF ReviewTypeOK, Entries
  <1>6. CopiesOK
    <2> SUFFICES ASSUME NEW w \in Weeks, NEW r \in Recipients
                 PROVE  /\ <<w, r>> \notin audit
                        /\ copies[<<w, r>>] <= kills + Cardinality(Sending(w, r))
      BY Zenon DEF CopiesOK
    <2>1. Cardinality(Sending(w, r)) \in Nat
      <3>1. Sending(w, r) \in SUBSET Reviewers
        BY DEF Sending
      <3> QED BY <3>1, Counted
    <2>2. copies[<<w, r>>] = 0
      BY <1>1
    <2> QED BY <1>1, <2>1, <2>2
  <1>7. QuietOK
    <2>1. \A c \in Reviewers : ~InHand(c) /\ phase[c] # "selected" /\ phase[c] # "published"
      BY <1>3 DEF InHand
    <2>2. Remembers(everShown, history)
      BY <1>1 DEF Remembers
    <2> QED BY <1>1, <2>1, <2>2 DEF QuietOK
  <1> QED BY <1>5, <1>6, <1>7 DEF ReviewInv

LEMMA ElapsesKeeps ==
    ASSUME ReviewInv, Elapses
    PROVE  ReviewInv'
  <1>1. ReviewTypeOK /\ CopiesOK
    BY DEF ReviewInv
  <1>2. /\ \A c \in Reviewers : phase[c] = "idle"
        /\ week < LastWeek /\ week' = week + 1 /\ found' = Finds(week + 1)
        /\ UNCHANGED <<history, audit, phase, doing, kills, copies, everShown, raced, nagged>>
    BY DEF Elapses, acks, bounds
  <1>3. week' \in Weeks /\ week \in Int /\ found' = Finds(week')
    BY <1>1, <1>2, ReviewAssumption DEF ReviewTypeOK, Weeks
  <1>4. \A c \in Reviewers : CommandOK(c)'
    BY <1>1, <1>2 DEF ReviewTypeOK, CommandOK
  <1>5. \A w \in Weeks : w > week' => everShown[w] = {}
    BY <1>1, <1>2, <1>3 DEF ReviewTypeOK, Weeks
  <1>6. ReviewTypeOK'
    BY <1>1, <1>2, <1>3, <1>4, <1>5 DEF ReviewTypeOK
  <1>7. CopiesOK'
    BY <1>1, <1>2, <1>6, NoMailKeeps
  <1>8. kills' = 0 /\ ~raced' => QuietOK'
    BY <1>1, <1>2, ElapsesStaysQuiet DEF ReviewInv
  <1> QED BY <1>6, <1>7, <1>8 DEF ReviewInv

LEMMA SelectKeeps ==
    ASSUME ReviewInv, NEW c \in Reviewers, NEW force \in BOOLEAN, Select(c, force)
    PROVE  ReviewInv'
  <1>1. ReviewTypeOK /\ CopiesOK
    BY DEF ReviewInv
  <1>2. /\ ReviewTypeOK' /\ doing'[c].todo = {} /\ doing'[c].sent = {}
        /\ \A d \in Reviewers \ {c} : doing'[d] = doing[d]
        /\ phase[c] = "idle"
    BY <1>1, SelectTypes
  <1>3. doing[c].sent = {} /\ UNCHANGED <<audit, kills, copies>> /\ (raced => raced')
    BY <1>1, <1>2 DEF Select, ReviewTypeOK, CommandOK
  <1>4. CopiesOK'
    BY <1>1, <1>2, <1>3, NoMailKeeps
  <1>5. kills' = 0 /\ ~raced' => QuietOK'
    BY <1>1, <1>3, SelectStaysQuiet DEF ReviewInv
  <1> QED BY <1>2, <1>4, <1>5 DEF ReviewInv

LEMMA PublishKeeps ==
    ASSUME ReviewInv, NEW c \in Reviewers, PublishReview(c)
    PROVE  ReviewInv'
  <1>1. ReviewTypeOK /\ CopiesOK
    BY DEF ReviewInv
  <1>2. ReviewTypeOK' /\ UNCHANGED <<audit, kills, copies, doing, raced>>
    BY <1>1, PublishTypes DEF PublishReview, bounds
  <1>3. CopiesOK'
    BY <1>1, <1>2, NoMailKeeps
  <1>4. kills' = 0 /\ ~raced' => QuietOK'
    BY <1>1, <1>2, PublishStaysQuiet DEF ReviewInv
  <1> QED BY <1>2, <1>3, <1>4 DEF ReviewInv

LEMMA SaveKeeps ==
    ASSUME ReviewInv, NEW c \in Reviewers, SaveHistory(c)
    PROVE  ReviewInv'
  <1>1. ReviewTypeOK /\ CopiesOK
    BY DEF ReviewInv
  <1>2. ReviewTypeOK' /\ UNCHANGED <<audit, kills, copies, doing, raced>>
    BY <1>1, SaveTypes DEF SaveHistory, bounds
  <1>3. CopiesOK'
    BY <1>1, <1>2, NoMailKeeps
  <1>4. kills' = 0 /\ ~raced' => QuietOK'
    BY <1>1, <1>2, SaveStaysQuiet DEF ReviewInv
  <1> QED BY <1>2, <1>3, <1>4 DEF ReviewInv

\* Deliver and Resume.
LEMMA InboxKeeps ==
    ASSUME ReviewInv, NEW c \in Reviewers, NEW w \in Weeks, \E document : InInbox(c, w, document),
           phase[c] \in {"idle", "saved"}, phase' = [phase EXCEPT ![c] = "delivering"],
           UNCHANGED <<week, found, history, kills, copies, everShown, raced, nagged>>
    PROVE  ReviewInv'
  <1>1. ReviewTypeOK /\ CopiesOK
    BY DEF ReviewInv
  <1>2. doing[c].sent = {}
    BY <1>1 DEF ReviewTypeOK, CommandOK
  <1>3. /\ ReviewTypeOK' /\ audit \subseteq audit'
        /\ doing'[c].sent = {} /\ doing'[c].week = w
        /\ \A r \in doing'[c].todo : <<w, r>> \notin audit
        /\ \A d \in Reviewers \ {c} : doing'[d] = doing[d] /\ phase'[d] = phase[d]
        /\ phase'[c] = "delivering"
    BY <1>1, <1>2, InboxTypes
  <1>4. CopiesOK'
    BY <1>1, <1>2, <1>3, NoMailKeeps
  <1>5. \A d \in Reviewers : InHand(d) \/ InHand(d)' => doing'[d] = doing[d] /\ phase'[d] = phase[d]
    BY <1>3 DEF InHand
  <1>6. kills' = 0 /\ ~raced' => QuietOK'
    BY <1>5, QuietKeeps DEF ReviewInv
  <1> QED BY <1>3, <1>4, <1>6 DEF ReviewInv

LEMMA SendKeeps ==
    ASSUME ReviewInv, NEW c \in Reviewers, NEW r \in doing[c].todo, SendReview(c, r)
    PROVE  ReviewInv'
  <1>1. ReviewTypeOK /\ CopiesOK
    BY DEF ReviewInv
  <1>2. /\ ReviewTypeOK' /\ \A d \in Reviewers \ {c} : doing'[d] = doing[d]
        /\ phase[c] = "delivering"
        /\ UNCHANGED <<week, everShown, history, nagged, phase, kills, raced>>
    BY <1>1, SendTypes DEF SendReview, world, bounds
  <1>3. CopiesOK'
    BY <1>1, SendKeepsCopies
  <1>4. \A d \in Reviewers : InHand(d) \/ InHand(d)' => doing'[d] = doing[d] /\ phase'[d] = phase[d]
    BY <1>2 DEF InHand
  <1>5. kills' = 0 /\ ~raced' => QuietOK'
    BY <1>2, <1>4, QuietKeeps DEF ReviewInv
  <1> QED BY <1>2, <1>3, <1>5 DEF ReviewInv

LEMMA FailKeeps ==
    ASSUME ReviewInv, NEW c \in Reviewers, NEW r \in doing[c].todo, FailDelivery(c, r)
    PROVE  ReviewInv'
  <1>1. ReviewTypeOK /\ CopiesOK
    BY DEF ReviewInv
  <1>2. /\ ReviewTypeOK' /\ doing'[c].sent = doing[c].sent
        /\ doing'[c].week = doing[c].week /\ doing'[c].todo = doing[c].todo \ {r}
        /\ \A d \in Reviewers \ {c} : doing'[d] = doing[d]
    BY <1>1, FailTypes
  <1>3. /\ phase[c] = "delivering"
        /\ UNCHANGED <<week, everShown, history, nagged, phase, kills, raced, audit, copies>>
    BY DEF FailDelivery, world
  <1>4. CopiesOK'
    BY <1>1, <1>2, <1>3, NoMailKeeps
  <1>5. \A d \in Reviewers : InHand(d) \/ InHand(d)' => doing'[d] = doing[d] /\ phase'[d] = phase[d]
    BY <1>2, <1>3 DEF InHand
  <1>6. kills' = 0 /\ ~raced' => QuietOK'
    BY <1>3, <1>5, QuietKeeps DEF ReviewInv
  <1> QED BY <1>2, <1>4, <1>6 DEF ReviewInv

LEMMA RecordKeeps ==
    ASSUME ReviewInv, NEW c \in Reviewers, NEW r \in doing[c].sent, RecordDelivery(c, r)
    PROVE  ReviewInv'
  <1>1. ReviewTypeOK /\ CopiesOK
    BY DEF ReviewInv
  <1>2. /\ ReviewTypeOK' /\ doing'[c].week = doing[c].week
        /\ doing'[c].todo = doing[c].todo /\ doing'[c].sent = {}
        /\ doing[c].sent = {r}
        /\ \A d \in Reviewers \ {c} : doing'[d] = doing[d]
    BY <1>1, RecordTypes
  <1>3. /\ phase[c] = "delivering" /\ audit' = audit \cup {<<doing[c].week, r>>}
        /\ UNCHANGED <<week, everShown, history, nagged, phase, kills, raced, copies>>
    BY DEF RecordDelivery, world, bounds
  <1>4. CopiesOK'
    BY <1>1, <1>2, <1>3, NoMailKeeps
  <1>5. \A d \in Reviewers : InHand(d) \/ InHand(d)' => doing'[d] = doing[d] /\ phase'[d] = phase[d]
    BY <1>2, <1>3 DEF InHand
  <1>6. kills' = 0 /\ ~raced' => QuietOK'
    BY <1>3, <1>5, QuietKeeps DEF ReviewInv
  <1> QED BY <1>2, <1>4, <1>6 DEF ReviewInv

LEMMA FinishKeeps ==
    ASSUME ReviewInv, NEW c \in Reviewers, FinishDelivery(c)
    PROVE  ReviewInv'
  <1>1. ReviewTypeOK /\ CopiesOK
    BY DEF ReviewInv
  <1>2. /\ phase[c] = "delivering" /\ doing[c].todo = {} /\ doing[c].sent = {}
        /\ phase' = [phase EXCEPT ![c] = "idle"] /\ doing' = [doing EXCEPT ![c] = Idle]
        /\ UNCHANGED <<week, found, history, audit, kills, copies, everShown, raced, nagged>>
    BY DEF FinishDelivery, world, bounds
  <1>3. /\ ReviewTypeOK'
        /\ \A d \in Reviewers \ {c} : doing'[d] = doing[d] /\ phase'[d] = phase[d]
        /\ phase'[c] = "idle" /\ doing'[c].todo = {} /\ doing'[c].sent = {}
    <2>1. kills' \in Nat
      BY <1>1, <1>2 DEF ReviewTypeOK
    <2> QED BY <1>1, <1>2, <2>1, IdleTypes
  <1>4. CopiesOK'
    BY <1>1, <1>2, <1>3, NoMailKeeps
  <1>5. \A d \in Reviewers : InHand(d) \/ InHand(d)' => doing'[d] = doing[d] /\ phase'[d] = phase[d]
    BY <1>2, <1>3 DEF InHand
  <1>6. kills' = 0 /\ ~raced' => QuietOK'
    BY <1>2, <1>5, QuietKeeps DEF ReviewInv
  <1> QED BY <1>3, <1>4, <1>6 DEF ReviewInv

LEMMA KillKeeps ==
    ASSUME ReviewInv, NEW c \in Reviewers, KillReview(c)
    PROVE  ReviewInv'
  <1>1. ReviewTypeOK /\ CopiesOK
    BY DEF ReviewInv
  <1>2. /\ kills' = kills + 1
        /\ phase' = [phase EXCEPT ![c] = "idle"] /\ doing' = [doing EXCEPT ![c] = Idle]
        /\ UNCHANGED <<week, found, history, audit, copies, everShown>>
    BY DEF KillReview, world
  <1>3. kills' \in Nat /\ kills' # 0
    BY <1>1, <1>2 DEF ReviewTypeOK
  <1>4. /\ ReviewTypeOK'
        /\ \A d \in Reviewers \ {c} : doing'[d] = doing[d]
        /\ doing'[c].todo = {} /\ doing'[c].sent = {}
    BY <1>1, <1>2, <1>3, IdleTypes
  <1>5. CopiesOK'
    BY <1>1, <1>2, <1>4, KillKeepsCopies
  <1> QED BY <1>3, <1>4, <1>5 DEF ReviewInv

LEMMA ReviewSteps == ReviewInv /\ [ReviewNext]_reviewing => ReviewInv'
  <1> SUFFICES ASSUME ReviewInv, [ReviewNext]_reviewing PROVE ReviewInv'
    OBVIOUS
  <1>1. CASE Elapses
    BY <1>1, ElapsesKeeps
  <1>2. ASSUME NEW f, InboxAct(f) PROVE ReviewInv'
    BY <1>2, NobodyMoves DEF InboxAct, Acknowledge, Suppress, world, bounds
  <1>3. ASSUME NEW c \in Reviewers, NEW force \in BOOLEAN, Select(c, force) PROVE ReviewInv'
    BY <1>3, SelectKeeps
  <1>4. ASSUME NEW c \in Reviewers, NEW w \in Weeks, Resume(c, w) PROVE ReviewInv'
    <2>1. /\ phase[c] = "idle" /\ InInbox(c, w, reviews[w]) /\ phase' = [phase EXCEPT ![c] = "delivering"]
          /\ UNCHANGED <<week, found, history, kills, copies, everShown, raced, nagged>>
      BY <1>4 DEF Resume, Starts, world
    <2>2. \E document : InInbox(c, w, document)
      BY Zenon, <2>1
    <2> QED BY <2>1, <2>2, InboxKeeps
  <1>5. ASSUME NEW c \in Reviewers, PublishReview(c) PROVE ReviewInv'
    BY <1>5, PublishKeeps
  <1>6. ASSUME NEW c \in Reviewers, SaveHistory(c) PROVE ReviewInv'
    BY <1>6, SaveKeeps
  <1>7. ASSUME NEW c \in Reviewers, Deliver(c) PROVE ReviewInv'
    <2>1. /\ phase[c] = "saved" /\ InInbox(c, doing[c].week, doing[c].document)
          /\ phase' = [phase EXCEPT ![c] = "delivering"]
          /\ UNCHANGED <<week, found, history, kills, copies, everShown, raced, nagged>>
      BY <1>7 DEF Deliver, world, bounds
    <2>2. doing[c].week \in Weeks
      BY <2>1 DEF ReviewInv, ReviewTypeOK, CommandOK
    <2>3. \E document : InInbox(c, doing[c].week, document)
      BY Zenon, <2>1
    <2> QED BY <2>1, <2>2, <2>3, InboxKeeps
  <1>8. ASSUME NEW c \in Reviewers, FinishDelivery(c) PROVE ReviewInv'
    BY <1>8, FinishKeeps
  <1>9. ASSUME NEW c \in Reviewers, KillReview(c) PROVE ReviewInv'
    BY <1>9, KillKeeps
  <1>10. ASSUME NEW c \in Reviewers, NEW r \in doing[c].todo, SendReview(c, r) PROVE ReviewInv'
    BY <1>10, SendKeeps
  <1>11. ASSUME NEW c \in Reviewers, NEW r \in doing[c].todo, FailDelivery(c, r) PROVE ReviewInv'
    BY <1>11, FailKeeps
  <1>12. ASSUME NEW c \in Reviewers, NEW r \in doing[c].sent, RecordDelivery(c, r) PROVE ReviewInv'
    BY <1>12, RecordKeeps
  <1>13. CASE UNCHANGED reviewing
    BY <1>13, NobodyMoves DEF reviewing
  <1> QED BY <1>1, <1>2, <1>3, <1>4, <1>5, <1>6, <1>7, <1>8, <1>9, <1>10, <1>11, <1>12, <1>13
          DEF ReviewNext

\* No recipient is mailed a review more often than commands were killed or
\* could run at once, and, unless one was killed or two selected at once, no
\* review shows a finding that was acknowledged and did not change since a
\* review last showed it, whatever the snapshots, the thresholds, the
\* recipients and the number of commands.
THEOREM ReviewsKeepTheirWordHolds == ReviewSpec => []ReviewsKeepTheirWord
  <1>1. ReviewInv => ReviewsKeepTheirWord
    <2> SUFFICES ASSUME ReviewInv PROVE NoSecondCopy /\ AcknowledgedStaysQuiet
      BY DEF ReviewsKeepTheirWord
    <2>1. NoSecondCopy
      <3>1. ASSUME NEW w \in Weeks, NEW r \in Recipients
            PROVE  copies[<<w, r>>] <= kills + Cardinality(Reviewers)
        <4>1. /\ Sending(w, r) \in SUBSET Reviewers /\ Waiting(w, r) \in SUBSET Reviewers
              /\ copies[<<w, r>>] \in Nat /\ kills \in Nat
          BY Parties DEF ReviewInv
        <4>2. /\ Cardinality(Sending(w, r)) \in Nat /\ Cardinality(Waiting(w, r)) \in Nat
              /\ Cardinality(Reviewers) \in Nat
              /\ Cardinality(Sending(w, r)) <= Cardinality(Reviewers)
          <5>1. Reviewers \in SUBSET Reviewers
            OBVIOUS
          <5> QED BY <4>1, <5>1, Counted
        <4> QED BY <4>1, <4>2 DEF ReviewInv, CopiesOK
      <3>2. DOMAIN copies = Weeks \X Recipients
        BY DEF ReviewInv, ReviewTypeOK
      <3>3. ASSUME NEW wr \in Weeks \X Recipients
            PROVE  copies[wr] <= kills + Cardinality(Reviewers)
        <4>1. PICK w \in Weeks, r \in Recipients : wr = <<w, r>>
          OBVIOUS
        <4> QED BY <3>1, <4>1
      <3> QED BY <3>2, <3>3 DEF NoSecondCopy
    <2>2. AcknowledgedStaysQuiet
      BY DEF ReviewInv, QuietOK, AcknowledgedStaysQuiet
    <2> QED BY <2>1, <2>2
  <1> QED BY <1>1, ReviewStarts, ReviewSteps, PTL DEF ReviewSpec
=============================================================================
