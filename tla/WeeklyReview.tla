---------------------------- MODULE WeeklyReview ----------------------------
(***************************************************************************)
(* The weekly review (review.py) and its delivery (delivery.py).  A run    *)
(* selects the findings of the week against what earlier reviews showed    *)
(* and what operators acknowledged or suppressed, publishes the review,    *)
(* saves the selection history and mails whoever the audit does not hold   *)
(* as delivered.  Review commands take no lock, so two of them may         *)
(* interleave, and each may be killed between any two writes.              *)
(***************************************************************************)
EXTENDS ReviewDetectors

CONSTANTS
    Reviewers,     \* review commands that may run at once
    Snapshots,     \* the wiki of each Monday
    Alarms,        \* the alerts live on each Monday
    Delivery,      \* the delivery block of the configuration
    FirstMonday,   \* the day the first review is due
    LastWeek,      \* where the calendar stops (bound)
    MaxReviews,    \* commands started (bound)
    MaxInboxActs,  \* findings acknowledged or suppressed (bound)
    MaxOutages,    \* failures of the relay and killed commands (bound)
    NoReview

ASSUME ReviewAssumption ==
    /\ IsFiniteSet(Reviewers)
    /\ LastWeek \in Nat \ {0}
    /\ Rules.history_weeks \in Nat

VARIABLES
    week,
    found,    \* what the detectors find in the wiki of the week
    acked,    \* acks.json: acknowledged findings
    muted,    \* acks.json: the week the suppression of a finding ends
    history,  \* state.json: evidence last shown and week last seen, by finding
    reviews,  \* reviews[w]: a published file: what it shows and its rows
    audit,    \* <<w, r>>: delivered rows of log.jsonl
    phase, doing,\* of each command
    runs, failures, kills,
    copies,   \* copies[w, r]: mails that left
    everShown,    \* everShown[w]: what reviews of a week showed
    raced,    \* a run selected while another had not saved its history
    nagged    \* a review showed what was acknowledged and did not change
reviewing == <<week, found, acked, muted, history, reviews, audit, phase,
               doing, runs, failures, kills, copies, everShown, raced, nagged>>

Weeks == 1 .. LastWeek
world == <<week, found>>
acks == <<acked, muted>>
bounds == <<runs, failures, kills>>

\* Reviews run on Mondays at ten.
Monday(w) == 24 * (FirstMonday + 7 * (w - 1)) + 10

----------------------------------------------------------------------------
(* select                                                                  *)

Finds(w) == Detected(Snapshots[w], Monday(w))
NamesOf(cands) == {c.name : c \in cands}

Produced == NamesOf(found)
Shadowed == {c \in found : ShadowedBy(c.name, Alarms[week])}
Suppressed ==
    {c \in found \ Shadowed : c.name \in DOMAIN muted /\ muted[c.name] > week}
Movement(c) ==
    IF c.name \notin DOMAIN history THEN "new"
    ELSE IF history[c.name].evidence = c.evidence THEN "carried" ELSE "changed"
Acknowledged ==
    {c \in (found \ Shadowed) \ Suppressed : c.name \in acked /\ Movement(c) = "carried"}
Kept == ((found \ Shadowed) \ Suppressed) \ Acknowledged
Ahead(c, set) == {d \in set : Before(d.key, c.key)}
OfDb(c, set) == {d \in set : d.name[3] = c.name[3]}
WithinDb == {c \in Kept : Cardinality(OfDb(c, Ahead(c, Kept))) < Rules.per_db_cap}
Selected == {c \in WithinDb : Cardinality(Ahead(c, WithinDb)) < Rules.cap}
Resolved == DOMAIN history \ Produced

\* What the next review remembers: what was resolved is forgotten, what was
\* held back stays as it was last shown, and a shadowed one ages.
HeldBack == NamesOf((Kept \ Selected) \cup Suppressed \cup Acknowledged)
Shown(f) == [evidence |-> (CHOOSE c \in Selected : c.name = f).evidence, seen |-> week]
Remembered(f) ==
    IF f \in NamesOf(Selected) THEN Shown(f)
    ELSE [history[f] EXCEPT !.seen = IF f \in HeldBack THEN week ELSE @]
Aged(entry) == entry.seen < week - Rules.history_weeks
NextHistory ==
    LET known == NamesOf(Selected) \cup (DOMAIN history \ Resolved)
    IN  [f \in {g \in known : ~Aged(Remembered(g))} |-> Remembered(f)]

----------------------------------------------------------------------------
(* Policy.resolve and decide                                               *)

Channels == {"inbox", "email"}
Named(i) == Delivery.recipients[i]
Mailed == {i \in DOMAIN Delivery.recipients : "email" \in Named(i).channels}
PolicyResolves ==
    /\ \A i \in DOMAIN Delivery.recipients :
         /\ Named(i).id \notin {"", "inbox"}
         /\ \A j \in DOMAIN Delivery.recipients : Named(i).id = Named(j).id => i = j
         /\ Named(i).channels # {} /\ Named(i).channels \subseteq Channels
         /\ i \in Mailed => Named(i).address # ""
         /\ Named(i).content_class = "internal_full"
         /\ Named(i).role \in {"viewer", "operator", "closer"}
    /\ Delivery.external_enabled =>
         Delivery.smtp_host # "" /\ Delivery.from_address # "" /\ Mailed # {}
Recipients ==
    IF Delivery.enabled /\ Delivery.external_enabled THEN {Named(i).id : i \in Mailed} ELSE {}
Plan == IF Delivery.enabled THEN {"inbox"} \cup Recipients ELSE {}

----------------------------------------------------------------------------
(* The commands                                                            *)

\* A published file: what it shows, and the outcome of its deliveries;
\* merge keeps one row a recipient.
Merge(document, r, status) ==
    [document EXCEPT !.rows = [q \in DOMAIN @ \cup {r} |-> IF q = r THEN status ELSE @[q]]]
Document(shown) == [shown |-> shown, rows |-> <<>>]
Job(w, document, remembered, knew) ==
    [week |-> w, document |-> document, history |-> remembered, knew |-> knew, todo |-> {}, sent |-> {}]
Idle == Job(0, Document({}), <<>>, {})

ReviewInit ==
    /\ week = 1 /\ found = Finds(1)
    /\ acked = {} /\ muted = <<>> /\ history = <<>>
    /\ reviews = [w \in Weeks |-> NoReview]
    /\ audit = {}
    /\ phase = [c \in Reviewers |-> "idle"] /\ doing = [c \in Reviewers |-> Idle]
    /\ runs = 0 /\ failures = 0 /\ kills = 0
    /\ copies = [wr \in Weeks \X Recipients |-> 0]
    /\ everShown = [w \in Weeks |-> {}]
    /\ raced = FALSE /\ nagged = FALSE

\* A week goes by: what it brought to the wiki, and alerts, come and go.
Elapses ==
    /\ week < LastWeek
    /\ \A c \in Reviewers : phase[c] = "idle"
    /\ week' = week + 1 /\ found' = Finds(week + 1)
    /\ UNCHANGED <<acks, history, reviews, audit, phase, doing, bounds, copies, everShown, raced, nagged>>

\* The portal, of a finding any review still held shows, under
\* _acks_locked; a suppression only extends.
Published == UNION {reviews[w].shown : w \in {x \in Weeks : reviews[x] # NoReview}}
Acknowledge(f) ==
    /\ f \notin acked /\ Cardinality(acked) + Cardinality(DOMAIN muted) < MaxInboxActs
    /\ acked' = acked \cup {f}
    /\ UNCHANGED <<world, muted, history, reviews, audit, phase, doing, bounds, copies, everShown, raced, nagged>>
Suppress(f) ==
    /\ f \in DOMAIN muted => muted[f] < week + 2
    /\ Cardinality(acked) + Cardinality(DOMAIN muted \cup {f}) <= MaxInboxActs
    /\ muted' = [g \in DOMAIN muted \cup {f} |-> IF g = f THEN week + 2 ELSE muted[g]]
    /\ UNCHANGED <<world, acked, history, reviews, audit, phase, doing, bounds, copies, everShown, raced, nagged>>
InboxAct(f) == (Acknowledge(f) \/ Suppress(f))

\* A command whose configuration does not resolve, or is off, does nothing.
Starts(c) ==
    /\ phase[c] = "idle" /\ runs < MaxReviews /\ runs' = runs + 1
    /\ Resolves(Rules) /\ PolicyResolves /\ Rules.enabled

\* A run of a week without a review, or with --force.
Select(c, force) ==
    /\ Starts(c)
    /\ reviews[week] # NoReview => force
    /\ phase' = [phase EXCEPT ![c] = "selected"]
    /\ raced' = (raced \/ \E d \in Reviewers : phase[d] \in {"selected", "published"})
    /\ doing' = [doing EXCEPT ![c] = Job(week, Document(NamesOf(Selected)), NextHistory, acked)]
    /\ UNCHANGED <<world, acks, history, reviews, audit, failures, kills, copies, everShown, nagged>>

\* f was acknowledged on the last review that showed it, was there ever
\* since, its entry did not age, and neither the incident nor, of an error
\* code, what the review counted is another than it was then.
EvidenceOf(w, f) == (CHOOSE c \in Finds(w) : c.name = f).evidence
Same(w, x, f) ==
    IF Subject(f[1]) = "incident" THEN Snapshots[w].incidents[f[2]] = Snapshots[x].incidents[f[2]]
    ELSE EvidenceOf(w, f) = EvidenceOf(x, f)
Nags(c, f) ==
    \E w \in Weeks :
        /\ w < week /\ week - w <= Rules.history_weeks
        /\ f \in everShown[w] /\ f \in doing[c].knew
        /\ Same(w, week, f)
        /\ \A x \in w + 1 .. week - 1 : f \notin everShown[x] /\ f \in NamesOf(Finds(x))

\* The file is replaced whole.
PublishReview(c) ==
    /\ phase[c] = "selected"
    /\ reviews' = [reviews EXCEPT ![doing[c].week] = doing[c].document]
    /\ everShown' = [everShown EXCEPT ![doing[c].week] = @ \cup doing[c].document.shown]
    /\ nagged' = (nagged \/ \E f \in doing[c].document.shown : Nags(c, f))
    /\ phase' = [phase EXCEPT ![c] = "published"]
    /\ UNCHANGED <<world, acks, history, audit, doing, bounds, copies, raced>>

Retained == {w \in Weeks : Cardinality({x \in Weeks : x > w /\ reviews[x] # NoReview})
                            < Rules.keep_reviews}
SaveHistory(c) ==
    /\ phase[c] = "published"
    /\ history' = doing[c].history
    /\ reviews' = [w \in Weeks |-> IF w \in Retained THEN reviews[w] ELSE NoReview]
    /\ phase' = [phase EXCEPT ![c] = "saved"]
    /\ UNCHANGED <<world, acks, audit, doing, bounds, copies, everShown, raced, nagged>>

\* delivered_keys is read once, before the first send; the row of the
\* inbox, which sends nothing, is recorded before any mail goes.
ToDeliverForced(w) == Plan
ToDeliver(w) == {r \in Plan : <<w, r>> \notin audit}
InInbox(c, w, document) ==
    /\ audit' = audit \cup ({<<w, "inbox">>} \cap ({w} \X Plan))
    /\ doing' = [doing EXCEPT ![c].todo = ToDeliver(w) \cap Recipients,
                              ![c].document =
                    IF "inbox" \in ToDeliver(w)
                    THEN Merge(document, "inbox", "delivered") ELSE document,
                              ![c].week = w]
Deliver(c) ==
    /\ phase[c] = "saved"
    /\ phase' = [phase EXCEPT ![c] = "delivering"]
    /\ InInbox(c, doing[c].week, doing[c].document)
    /\ UNCHANGED <<world, acks, history, reviews, bounds, copies, everShown, raced, nagged>>

\* A run of a published week without --force, or --deliver-only of any week,
\* works on the document it loads.
Resume(c, w) ==
    /\ Starts(c)
    /\ reviews[w] # NoReview
    /\ phase' = [phase EXCEPT ![c] = "delivering"]
    /\ InInbox(c, w, reviews[w])
    /\ UNCHANGED <<world, acks, history, reviews, failures, kills, copies, everShown, raced, nagged>>

SendReview(c, r) ==
    /\ phase[c] = "delivering" /\ doing[c].sent = {} /\ r \in doing[c].todo
    /\ doing' = [doing EXCEPT ![c].todo = @ \ {r}, ![c].sent = {r}]
    /\ copies' = [copies EXCEPT ![<<doing[c].week, r>>] = @ + 1]
    /\ UNCHANGED <<world, acks, history, reviews, audit, phase, bounds, everShown, raced, nagged>>
FailDelivery(c, r) ==
    /\ phase[c] = "delivering" /\ doing[c].sent = {} /\ r \in doing[c].todo
    /\ failures + kills < MaxOutages /\ failures' = failures + 1
    /\ doing' = [doing EXCEPT ![c].todo = @ \ {r}, ![c].document = Merge(@, r, "failed")]
    /\ UNCHANGED <<world, acks, history, reviews, audit, phase, runs, kills, copies, everShown, raced, nagged>>
RecordDelivery(c, r) ==
    /\ phase[c] = "delivering" /\ r \in doing[c].sent
    /\ audit' = audit \cup {<<doing[c].week, r>>}
    /\ doing' = [doing EXCEPT ![c].sent = {}, ![c].document = Merge(@, r, "delivered")]
    /\ UNCHANGED <<world, acks, history, reviews, phase, bounds, copies, everShown, raced, nagged>>

\* The file is written again, from the document in memory, when a row is new.
FinishDelivery(c) ==
    /\ phase[c] = "delivering" /\ doing[c].todo = {} /\ doing[c].sent = {}
    /\ reviews' = IF reviews[doing[c].week] = NoReview
                     \/ doing[c].document.rows # reviews[doing[c].week].rows
                  THEN [reviews EXCEPT ![doing[c].week] = doing[c].document] ELSE reviews
    /\ phase' = [phase EXCEPT ![c] = "idle"] /\ doing' = [doing EXCEPT ![c] = Idle]
    /\ UNCHANGED <<world, acks, history, audit, bounds, copies, everShown, raced, nagged>>

KillReview(c) ==
    /\ phase[c] # "idle" /\ failures + kills < MaxOutages /\ kills' = kills + 1
    /\ phase' = [phase EXCEPT ![c] = "idle"] /\ doing' = [doing EXCEPT ![c] = Idle]
    /\ UNCHANGED <<world, acks, history, reviews, audit, runs, failures, copies, everShown, raced, nagged>>

ReviewNext ==
    \/ Elapses
    \/ \E f \in Published : InboxAct(f)
    \/ \E c \in Reviewers :
           \/ \E force \in BOOLEAN : Select(c, force)
           \/ \E w \in Weeks : Resume(c, w)
           \/ PublishReview(c) \/ SaveHistory(c) \/ Deliver(c) \/ FinishDelivery(c) \/ KillReview(c)
           \/ \E r \in doing[c].todo : SendReview(c, r) \/ FailDelivery(c, r)
           \/ \E r \in doing[c].sent : RecordDelivery(c, r)

ReviewSpec == ReviewInit /\ [][ReviewNext]_reviewing

----------------------------------------------------------------------------

\* A recipient gets a review once: retries after a failed or a finished
\* delivery, a forced republication and --deliver-only resend only what the
\* audit does not hold. A further copy takes a kill between a send and its
\* row, or a command that read the audit while another was sending.
NoSecondCopy ==
    \A wr \in DOMAIN copies :
        copies[wr] <= kills + Cardinality(Reviewers)

\* What an operator acknowledged stays off the reviews for as long as it is
\* there unchanged: through the weeks it is held back, suppressed, shadowed
\* by an alert or capped, and through another run of the same week. Only a
\* kill between a publication and its history, or a run that read the
\* history before another had saved it, brings it back.
AcknowledgedStaysQuiet == kills = 0 /\ ~raced => ~nagged

\* A review comes once, and shows nothing an operator has put aside.
ReviewsKeepTheirWord == NoSecondCopy /\ AcknowledgedStaysQuiet
=============================================================================
