----------------------------- MODULE Workbench -----------------------------
(***************************************************************************)
(* Writing an incident page from the portal: the browser page that walks   *)
(* an operator from a form over a preview to a commit, and the server that *)
(* builds both answers from a revision.  A request is taken up after it    *)
(* was sent, perhaps after the browser gave up on it; other commands       *)
(* commit, hold the lock, dirty the tree or break the lint meanwhile.  An  *)
(* agent asked to fill in a field answers into whatever screen is open.    *)
(***************************************************************************)
EXTENDS Integers, Sequences, FiniteSets

CONSTANTS
    Browsers,    \* open pages of the workbench
    Verbs,       \* the verbs operators use
    Texts,       \* what an operator types
    AgentText,   \* what an agent answers
    Scripts,     \* write bodies posted by something else than the page
    Patient,     \* operators wait for answers, agents' included (assumption)
    LastSecond,  \* where the clock stops (bound)
    MaxForms,    \* incidents opened (bound)
    MaxCalls,    \* previews and commits sent (bound)
    MaxElsewhere,\* commits of other commands (bound)
    MaxMishaps,  \* lost answers, held locks, dirty trees, broken lints (bound)
    Misshapen, Nothing

VARIABLES
    clock,
    revisions,   \* of the incident: its status, its action log and what made it
    wire,      \* requests sent and answers not yet read
    page,      \* page[b]: STATE of a browser page
    shown,     \* previews an operator pressed Publish under
    forms, calls, elsewhere, mishaps
publishing == <<clock, revisions, wire, page, shown, forms, calls, elsewhere, mishaps>>

HEAD == Len(revisions)

----------------------------------------------------------------------------
(* Commands (lifecycle, incident_action, identity)                         *)

Blank == ""
Field(required, optional) == [required |-> required, optional |-> optional]
\* The fields that carry text; ticket, evidence and notes are left out.
command_fields ==
    [v \in {"record-action", "monitor", "extend", "resolve", "reopen", "merge"} |->
        CASE v = "record-action" -> Field({"intent", "summary"}, {})
          [] v = "monitor" -> Field({"signal", "until", "intent", "summary"}, {})
          [] v = "extend" -> Field({"until", "intent"}, {})
          [] v = "resolve" -> Field({"summary"}, {"residual_risk"})
          [] v = "reopen" -> Field({"reason"}, {})
          [] v = "merge" -> Field({"into"}, {})]
VERBS == DOMAIN command_fields
FieldsOf(verb) == command_fields[verb].required \cup command_fields[verb].optional

ACTIVE == {"open", "monitoring"}
TRANSITIONS ==
    {<<s, "record-action", s>> : s \in ACTIVE \cup {"resolved"}}
    \cup {<<s, "monitor", "monitoring">> : s \in ACTIVE}
    \cup {<<"monitoring", "extend", "monitoring">>}
    \cup {<<s, v, "resolved">> : s \in ACTIVE, v \in {"resolve", "merge"}}
    \cup {<<"resolved", "reopen", "open">>}
NextStatus(status, verb) ==
    LET to == {t \in TRANSITIONS : t[1] = status /\ t[2] = verb}
    IN  IF to = {} THEN Nothing ELSE (CHOOSE t \in to : TRUE)[3]
Allowed(status) == {v \in VERBS : NextStatus(status, v) # Nothing}

ROLE_OF == [v \in VERBS |-> IF v \in {"resolve", "merge"} THEN "closer" ELSE "operator"]
TrustedOperator == {"viewer", "operator", "closer"}
Permits(roles, verb) == ROLE_OF[verb] \in roles

\* Fields the command has no home for, fields it needs, values of another shape.
Coerces(fields) == \A f \in DOMAIN fields : fields[f] # Misshapen
Decodes(verb, fields) ==
    /\ DOMAIN fields \subseteq FieldsOf(verb)
    /\ command_fields[verb].required \subseteq DOMAIN fields
    /\ Coerces(fields)
\* An absent optional field is blank.
Command(verb, fields) ==
    [f \in FieldsOf(verb) |-> IF f \in DOMAIN fields THEN fields[f] ELSE Blank]
\* The canonical echo: fields at their default are left out.
Encode(verb, fields) ==
    LET kept == {f \in FieldsOf(verb) : f \in command_fields[verb].required
                                          \/ Command(verb, fields)[f] # Blank}
    IN  [f \in kept |-> fields[f]]
Unwritten(verb, fields) ==
    verb = "resolve" /\ Command(verb, fields)["residual_risk"] = Blank

\* A script claims an identity, skips the preview or leaves the risk out.  (One
\* that posts a commit in order, its preview's base and timestamp included, does
\* what a page does, and is none of these.)
Overreaches(body) ==
    \/ body.keys # {}
    \/ Nothing \in {body.base, body.at}
    \/ body.verb = "resolve" /\ "residual_risk" \notin DOMAIN body.fields
ASSUME WorkbenchAssumption ==
    /\ Nothing \notin Nat \cup VERBS
    /\ \A body \in Scripts : Overreaches(body)

\* Action: one act, pinned.
Record(verb, fields, at, after) ==
    [verb |-> verb, text |-> Command(verb, fields), at |-> at, after |-> after]
Collides(records, record) == \E held \in records : held.at = record.at /\ held # record

----------------------------------------------------------------------------
(* The server (portal/api.py, wire.py, server.py)                          *)

Body(verb, fields, base, at) ==
    [verb |-> verb, fields |-> fields, base |-> base, at |-> at, keys |-> {}]
Answer(error, base, at) ==
    [error |-> error, base |-> base, at |-> at, nothing |-> FALSE, blocked |-> FALSE,
     requires |-> FALSE, after |-> Nothing, verb |-> Nothing, fields |-> <<>>]
ErrorJson(error) == Answer(error, Nothing, Nothing)

\* What WriteRequest.from_json refuses, the identity first.
Malformed(body) ==
    IF "actor" \in body.keys THEN "identity_is_server_side"
    ELSE IF body.keys # {} THEN "unknown_key" ELSE ""

\* Role before decode, decode before transition, transition before text.
Built(revision, body, at) ==
    LET inc == revisions[revision]
        after == NextStatus(inc.status, body.verb)
    IN  IF body.verb \notin VERBS THEN "bad_verb"
        ELSE IF ~Permits(TrustedOperator, body.verb) THEN "forbidden"
        ELSE IF ~Decodes(body.verb, body.fields) THEN "field"
        ELSE IF after = Nothing THEN "transition_refused"
        ELSE IF \E f \in command_fields[body.verb].required : body.fields[f] = Blank
             THEN "malformed"
        ELSE IF Collides(inc.records, Record(body.verb, body.fields, at, after))
             THEN "malformed" ELSE ""
\* What a built act makes of its base.
RecordOf(revision, body, at) ==
    Record(body.verb, body.fields, at, NextStatus(revisions[revision].status, body.verb))
Unchanged(revision, body, at) == RecordOf(revision, body, at) \in revisions[revision].records

PreviewJson(body, base, at, debt) ==
    [Answer("", base, at) EXCEPT
        !.verb = body.verb, !.fields = Encode(body.verb, body.fields),
        !.after = RecordOf(base, body, at).after, !.nothing = Unchanged(base, body, at),
        !.blocked = debt, !.requires = Unwritten(body.verb, body.fields)]
Preview(body, debt) ==
    LET base == IF body.base = Nothing THEN HEAD ELSE body.base
        at == IF body.at = Nothing THEN clock ELSE body.at
        error == Built(base, body, at)
    IN  IF error # "" THEN ErrorJson(error) ELSE PreviewJson(body, base, at, debt)

\* Mutant: the base is not compared with HEAD.
PublishAnyBase(body, weather) ==
    IF weather = "locked" THEN "lock_busy"
    ELSE IF weather = "dirty" THEN "tree_dirty"
    ELSE IF Unchanged(HEAD, body, body.at) THEN ""
    ELSE IF weather = "debt" THEN "lint_blocked" ELSE ""

\* incident_action.publish: the lock, then transaction.commit's refusals.
PublishAct(body, weather) ==
    IF weather = "locked" THEN "lock_busy"
    ELSE IF body.base # HEAD THEN "base_moved"
    ELSE IF weather = "dirty" THEN "tree_dirty"
    ELSE IF Unchanged(HEAD, body, body.at) THEN ""
    ELSE IF weather = "debt" THEN "lint_blocked" ELSE ""
OutcomeJson(error, body) ==
    [Answer(error, body.base, body.at) EXCEPT !.nothing = Unchanged(body.base, body, body.at)]
Commit(body, weather) ==
    IF Nothing \in {body.base, body.at} THEN ErrorJson("preview_first")
    ELSE IF Built(body.base, body, body.at) # ""
         THEN ErrorJson(Built(body.base, body, body.at))
    ELSE IF Unwritten(body.verb, body.fields)
         THEN Answer("confirmation_required", body.base, body.at)
    ELSE OutcomeJson(PublishAct(body, weather), body)

\* The revision a commit makes.
Written(form, body) ==
    LET record == RecordOf(body.base, body, body.at)
    IN  [status |-> record.after, records |-> revisions[HEAD].records \cup {record},
         act |-> [form |-> form, base |-> body.base, record |-> record]]

Weather == {"fair", "locked", "dirty", "debt"}

\* A handler thread takes a request up and answers; the answer of a request
\* nobody waits for goes nowhere.
Dispatch(m) ==
    \E weather \in Weather :
        LET bad == Malformed(m.body)
            answer == IF bad # "" THEN ErrorJson(bad)
                      ELSE IF m.kind = "commit" THEN Commit(m.body, weather)
                      ELSE Preview(m.body, weather = "debt")
            writes == m.kind = "commit" /\ answer.error = "" /\ ~answer.nothing
        IN  /\ m \in wire /\ m.answer = Nothing
            /\ weather # "fair" =>
                   /\ mishaps < MaxMishaps
                   /\ \/ weather = "debt" /\ m.kind # "commit" /\ answer.error = ""
                      \/ answer.error \in {"lock_busy", "tree_dirty", "lint_blocked"}
            /\ mishaps' = IF weather = "fair" THEN mishaps ELSE mishaps + 1
            /\ revisions' = IF ~writes THEN revisions
                          ELSE Append(revisions, Written(m.form, m.body))
            /\ wire' = (wire \ {m}) \cup
                       (IF m.awaited THEN {[m EXCEPT !.answer = answer]} ELSE {})
            /\ UNCHANGED <<clock, page, shown, forms, calls, elsewhere>>

----------------------------------------------------------------------------
(* The page (portal/workbench.html)                                        *)

NAV == "queue"
TRANSITION ==
    [form |-> [back |-> "incident", preview |-> "preview"],
     incident |-> [back |-> "queue", pick |-> "form"],
     preview |-> [back |-> "form", continue |-> "confirm"],
     confirm |-> [back |-> "preview", published |-> "result", repreview |-> "preview",
                  blocked |-> "preview", amend |-> "form"],
     result |-> [back |-> "queue"],
     queue |-> [incident |-> "incident"]]
Go(screen, event) ==
    IF event \in DOMAIN TRANSITION[screen] THEN TRANSITION[screen][event] ELSE screen

NoPreview == ErrorJson("none")
Closed == [screen |-> NAV, form |-> 0, allowed |-> {}, verb |-> Nothing,
           values |-> <<>>, at |-> Nothing, preview |-> NoPreview,
           filling |-> FALSE, retry |-> FALSE]

ON_INCIDENT == {"incident", "form", "preview", "confirm", "result"}
Acting(b) == page[b].screen \in ON_INCIDENT
Awaited(b) == {m \in wire : m.browser = b /\ m.awaited}
Inflight(b) == \E m \in Awaited(b) : m.guarded
Undisturbed(b) == Patient => Awaited(b) = {}

TOOL_FIELD == {"record-action", "resolve"} \* both fill their summary
MissingFields(b) ==
    {f \in command_fields[page[b].verb].required
           \cup (IF page[b].verb = "resolve" THEN {"residual_risk"} ELSE {}) :
        page[b].values[f] = Blank}
WireFields(b) ==
    LET verb == page[b].verb
        sent == {f \in FieldsOf(verb) :
                    page[b].values[f] # Blank \/ f \in command_fields[verb].required}
    IN  [f \in sent |-> page[b].values[f]]

Set(b, state) == page' = [page EXCEPT ![b] = state]
Send(b, kind, guarded, body) ==
    /\ calls < MaxCalls
    /\ calls' = calls + 1
    /\ wire' = wire \cup {[browser |-> b, n |-> calls, kind |-> kind, guarded |-> guarded,
                           form |-> page[b].form, body |-> body, awaited |-> TRUE,
                           answer |-> Nothing]}

\* openIncident forgets the form that was open, but for calls in flight.
OpenIncident(b) ==
    /\ page[b].screen = "queue" /\ forms < MaxForms /\ Undisturbed(b)
    /\ forms' = forms + 1
    /\ Set(b, [Closed EXCEPT !.screen = Go("queue", "incident"), !.form = forms + 1,
                             !.allowed = Allowed(revisions[HEAD].status), !.values = page[b].values])
    /\ UNCHANGED <<clock, revisions, wire, shown, calls, elsewhere, mishaps>>

PickVerb(b) ==
    /\ page[b].screen = "incident" /\ Undisturbed(b)
    /\ \E verb \in Verbs \cap page[b].allowed :
        /\ Set(b, [page[b] EXCEPT
              !.screen = Go("incident", "pick"), !.verb = verb, !.preview = NoPreview,
              !.retry = FALSE,
              !.values = IF page[b].verb = verb THEN page[b].values
                         ELSE [f \in FieldsOf(verb) |-> Blank]])
    /\ UNCHANGED <<clock, revisions, wire, shown, forms, calls, elsewhere, mishaps>>

\* Typing fills every field of the form at once.
OnFormInput(b) ==
    /\ page[b].screen = "form" /\ Undisturbed(b)
    /\ \E text \in Texts :
        Set(b, [page[b] EXCEPT !.values = [f \in FieldsOf(page[b].verb) |-> text]])
    /\ UNCHANGED <<clock, revisions, wire, shown, forms, calls, elsewhere, mishaps>>

\* The run is started and polled (AdvisoryRunner); land writes its answer
\* into the form's values on whatever screen the operator is by then.
AskForField(b) ==
    /\ page[b].screen = "form" /\ page[b].verb \in TOOL_FIELD
    /\ ~Inflight(b) /\ ~page[b].filling
    /\ Set(b, [page[b] EXCEPT !.filling = TRUE])
    /\ UNCHANGED <<clock, revisions, wire, shown, forms, calls, elsewhere, mishaps>>
Land(b) ==
    /\ Acting(b) /\ page[b].filling /\ page[b].verb \in TOOL_FIELD
    /\ Undisturbed(b)
    /\ \E answered \in BOOLEAN :
        Set(b, [page[b] EXCEPT !.filling = FALSE,
                    !.values = IF answered THEN [@ EXCEPT !["summary"] = AgentText] ELSE @])
    /\ UNCHANGED <<clock, revisions, wire, shown, forms, calls, elsewhere, mishaps>>

PreviewBody(b) == Body(page[b].verb, WireFields(b), Nothing, page[b].at)

RequestPreview(b) ==
    /\ page[b].screen = "form" /\ ~Inflight(b) /\ MissingFields(b) = {}
    /\ Patient => ~page[b].filling
    /\ Send(b, "preview", TRUE, PreviewBody(b))
    /\ UNCHANGED <<clock, revisions, page, shown, forms, elsewhere, mishaps>>

Continue(b) ==
    /\ page[b].screen = "preview" /\ ~page[b].preview.blocked /\ ~page[b].preview.requires
    /\ Set(b, [page[b] EXCEPT !.screen = Go("preview", "continue")])
    /\ UNCHANGED <<clock, revisions, wire, shown, forms, calls, elsewhere, mishaps>>

\* The values of the moment, with the base and the timestamp of the preview.
CommitBody(b) == Body(page[b].verb, WireFields(b), page[b].preview.base, page[b].preview.at)
\* Under which preview the operator pressed Publish, with the status it promised.
Reviewed(b) == [form |-> page[b].form, base |-> page[b].preview.base,
                record |-> [verb |-> page[b].preview.verb, text |-> Command(page[b].preview.verb, page[b].preview.fields),
                            at |-> page[b].preview.at, after |-> page[b].preview.after]]
PublishFrom(b, guarded) ==
    /\ Send(b, "commit", guarded, CommitBody(b))
    /\ shown' = shown \cup {Reviewed(b)}
    /\ UNCHANGED <<clock, revisions, page, forms, elsewhere, mishaps>>
ConfirmGo(b) == page[b].screen = "confirm" /\ ~Inflight(b) /\ PublishFrom(b, TRUE)
\* "Publish again" of a refusal is not held back by a call in flight.
RetryAction(b) ==
    /\ page[b].retry /\ Acting(b) /\ page[b].preview # NoPreview
    /\ Patient => Awaited(b) = {} /\ page[b].screen = "confirm"
    /\ PublishFrom(b, FALSE)

Back(b) ==
    /\ Acting(b) /\ Undisturbed(b)
    /\ Set(b, [page[b] EXCEPT !.screen = Go(page[b].screen, "back"), !.retry = FALSE])
    /\ UNCHANGED <<clock, revisions, wire, shown, forms, calls, elsewhere, mishaps>>

\* Where REFUSALS sends the page.
Event(error) ==
    CASE error = "base_moved" -> "repreview"
      [] error = "lint_blocked" -> "blocked"
      [] error \in {"field", "confirmation_required"} -> "amend"
      [] OTHER -> "stay"

Settle(b, answer) ==
    LET state == [page[b] EXCEPT !.retry = answer.error = "lock_busy"]
        event == Event(answer.error)
    IN  IF answer.error = "" THEN [state EXCEPT !.screen = Go(@, "published")]
        ELSE IF event = "blocked"
             THEN [state EXCEPT !.preview.blocked = TRUE, !.screen = Go(@, "blocked")]
        ELSE IF event = "amend" THEN [state EXCEPT !.screen = Go(@, "amend")] ELSE state
Previewed(b, answer, event) ==
    IF answer.error = ""
    THEN [page[b] EXCEPT !.preview = answer, !.at = answer.at, !.retry = FALSE,
                         !.screen = Go(@, event)]
    ELSE IF answer.error = "field" /\ page[b].screen # "form"
         THEN [page[b] EXCEPT !.screen = Go(@, "amend"), !.retry = FALSE]
         ELSE [page[b] EXCEPT !.retry = FALSE]

\* A moved base is previewed again, with the values of the moment.
Read(b) ==
    \E m \in Awaited(b) :
        /\ m.answer # Nothing
        /\ IF m.kind = "commit"
           THEN /\ Set(b, Settle(b, m.answer))
                /\ IF Event(m.answer.error) = "repreview" /\ calls < MaxCalls
                      /\ page[b].verb # Nothing
                   THEN /\ calls' = calls + 1
                        /\ wire' = (wire \ {m}) \cup
                               {[m EXCEPT !.n = calls, !.kind = "repreview", !.answer = Nothing,
                                          !.form = page[b].form, !.body = PreviewBody(b)]}
                   ELSE wire' = wire \ {m} /\ calls' = calls
           ELSE /\ Set(b, Previewed(b, m.answer, m.kind))
                /\ wire' = wire \ {m} /\ calls' = calls
        /\ UNCHANGED <<clock, revisions, shown, forms, elsewhere, mishaps>>

\* The browser reads no answer: the request may still be taken up.
Lose(b) ==
    \E m \in Awaited(b), arrives \in BOOLEAN :
        /\ mishaps < MaxMishaps /\ mishaps' = mishaps + 1
        /\ wire' = (wire \ {m}) \cup
                   (IF arrives /\ m.answer = Nothing THEN {[m EXCEPT !.awaited = FALSE]} ELSE {})
        /\ Set(b, [page[b] EXCEPT !.retry = FALSE])
        /\ UNCHANGED <<clock, revisions, shown, forms, calls, elsewhere>>

----------------------------------------------------------------------------
(* Everything else                                                         *)

\* A script posts a commit the page would never send; nobody reads the answer.
ScriptPosts ==
    \E body \in Scripts :
        LET refused == Malformed(body) # "" \/ Commit(body, "fair").error # ""
        IN  /\ revisions' = IF refused THEN revisions
                          ELSE Append(revisions, Written(0, body))
            /\ UNCHANGED <<clock, wire, page, shown, forms, calls, elsewhere, mishaps>>

\* A commit of another page, or an act on this one from the command line.
Elsewhere ==
    /\ elsewhere < MaxElsewhere /\ elsewhere' = elsewhere + 1
    /\ \E status \in {revisions[HEAD].status} \cup
                     {NextStatus(revisions[HEAD].status, v) :
                          v \in Verbs \cap Allowed(revisions[HEAD].status)} :
          revisions' = Append(revisions, [revisions[HEAD] EXCEPT !.status = status, !.act = Nothing])
    /\ UNCHANGED <<clock, wire, page, shown, forms, calls, mishaps>>

Second ==
    /\ clock < LastSecond /\ clock' = clock + 1
    /\ UNCHANGED <<revisions, wire, page, shown, forms, calls, elsewhere, mishaps>>

WorkbenchInit ==
    /\ clock = 1
    /\ revisions = <<[status |-> "open", records |-> {}, act |-> Nothing]>>
    /\ wire = {}
    /\ page = [b \in Browsers |-> Closed]
    /\ shown = {}
    /\ forms = 0 /\ calls = 0 /\ elsewhere = 0 /\ mishaps = 0

Browse(b) ==
    \/ OpenIncident(b) \/ PickVerb(b) \/ OnFormInput(b) \/ AskForField(b) \/ Land(b)
    \/ RequestPreview(b) \/ Continue(b) \/ ConfirmGo(b) \/ RetryAction(b)
    \/ Back(b) \/ Read(b) \/ Lose(b)

WorkbenchNext ==
    \/ \E b \in Browsers : Browse(b)
    \/ \E m \in wire : Dispatch(m)
    \/ ScriptPosts \/ Elsewhere \/ Second

WorkbenchSpec == WorkbenchInit /\ [][WorkbenchNext]_publishing

----------------------------------------------------------------------------
(* Properties                                                              *)

ActsDone == {n \in 1 .. HEAD : revisions[n].act # Nothing}

\* Nothing is published that was not on the screen: verb, text, timestamp,
\* base and resulting status of every act are those of a preview an operator
\* pressed Publish under (api.py:1171-1174, "byte-identical").
PublishedIsPreviewed == \A n \in ActsDone : revisions[n].act \in shown

\* It is published where the preview put it: directly on its base.
OnItsBase == \A n \in ActsDone : revisions[n].act.base = n - 1

\* One form makes one record, whatever answers are lost and however often
\* its Publish is pressed.
OneRecordPerForm ==
    \A n, k \in ActsDone : revisions[n].act.form = revisions[k].act.form => n = k

\* Nobody resolves an incident without writing down the remaining risk.
RiskIsWritten ==
    \A n \in ActsDone : LET r == revisions[n].act.record
                    IN  r.verb = "resolve" => r.text["residual_risk"] # Blank

\* A page that says "published" shows an act that is on HEAD: its verb, its
\* text, its timestamp.  (The status beside them is that of the last preview
\* read, which may be of another revision than the one it was published on.)
ResultIsOnHead ==
    \A b \in Browsers : page[b].screen = "result" =>
        \E record \in revisions[HEAD].records :
            /\ record.verb = Reviewed(b).record.verb
            /\ record.text = Reviewed(b).record.text
            /\ record.at = Reviewed(b).record.at

WhatLandsWasReviewed ==
    PublishedIsPreviewed /\ OnItsBase /\ OneRecordPerForm /\ RiskIsWritten /\ ResultIsOnHead
=============================================================================
