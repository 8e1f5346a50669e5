---------------------------- MODULE AnalystQueue ----------------------------
(***************************************************************************)
(* The analyst queue (queue.py, ADR-0001).  The on-prem tick enqueues a    *)
(* request for an escalated window and writes a placeholder report; an     *)
(* analyst claims the request, writes the report the placeholder stands    *)
(* for and leaves a telemetry event, which a later tick folds into the run *)
(* log.  Nodes share nothing but a Git remote: each works in its clone and *)
(* meets the others when it pulls or pushes.                               *)
(*                                                                         *)
(* One command runs at a time on a node (lock.single_flight), so its local *)
(* commits are steps between a pull and a push that nobody sees.  What     *)
(* interleaves is pulls, pushes, crashes and the clock.                    *)
(***************************************************************************)
EXTENDS QueueRepository, FiniteSets, Bags

CONSTANTS
    OnPrem,       \* the on-prem node
    Scenarios     \* what a behavior is about: the analysts at work, the requests
                  \* made and the day of each; bounds: where the clock stops, how
                  \* many commands on the remote or commits fail and how many
                  \* commands are killed

ASSUME QueueAssumption ==
    /\ OnPrem \notin Analysts
    /\ Scenarios \subseteq [team : SUBSET Analysts, requests : SUBSET Requests,
                           day : [Requests -> Nat], until : Nat, failures : Nat, kills : Nat]

MAX_CLAIM_ATTEMPTS == 3
MAX_REQUEST_ATTEMPTS == 2
MAX_PUSH_ATTEMPTS == 3

Nodes == Analysts \cup {OnPrem}
NoJob == [req |-> 0, file |-> NoFile]

VARIABLES
    remote,   \* the tree at the tip of the remote branch
    seen,     \* history: the requests that were ever at that tip
    clone,    \* node -> its checkout: log, current, stopped, draft, see below
    pc,       \* node -> where its command stands
    asked,    \* the last request enqueued (windows come in order)
    job,      \* analyst -> the request record its command holds in memory
    tries,    \* analyst -> the loop variable of claim and _push_rebase_retry
    folded,   \* .state/agent_runs.jsonl: a bag of events
    removed,  \* results a fold has deleted and staged but not committed
    now,      \* the clock, in units of `stale_hours`
    failures, \* failures left
    kills,    \* kills left
    scenario  \* the member of Scenarios this behavior is about

vars == <<remote, seen, clone, pc, asked, job, tries, folded, removed, now, failures,
          kills, scenario>>
clock == <<now, scenario>>

(* log[1] is the tree where the clone last met the remote, the others its  *)
(* unpushed commits; `current` says that the remote is still at log[1];    *)
(* `stopped` that a rebase is in progress; `draft` is the request whose    *)
(* report page a killed agent left in the working tree (0: none).          *)
Tip(n) == clone[n].log[Len(clone[n].log)]
Waiting(tree) == In(tree.queue, "pending")

Init ==
    /\ remote = EmptyTree
    /\ seen = {}
    /\ clone = [n \in Nodes |-> [log |-> <<EmptyTree>>, current |-> TRUE,
                                 stopped |-> FALSE, draft |-> 0]]
    /\ pc = [n \in Nodes |-> "off"]
    /\ asked = 0
    /\ job = [a \in Analysts |-> NoJob]
    /\ tries = [a \in Analysts |-> 0]
    /\ folded = EmptyBag
    /\ removed = {}
    /\ now = 0
    /\ scenario \in Scenarios
    /\ failures = scenario.failures
    /\ kills = scenario.kills

-----------------------------------------------------------------------------
(* Git, as the nodes use it.                                               *)

Fails == failures > 0 /\ failures' = failures - 1
Works == UNCHANGED failures

Commit(n, tree) == [clone[n] EXCEPT !.log = Append(@, tree), !.draft = 0]
Set(n, c) == clone' = [clone EXCEPT ![n] = c]

(* `git push` is accepted when nobody pushed since the clone last pulled.  *)
Accepts(n, c) ==
    /\ c.current
    /\ remote' = c.log[Len(c.log)]
    /\ seen' = seen \cup {r \in Requests : remote'.queue[r].at # "none"}
    /\ clone' = [m \in Nodes |->
                    IF m = n THEN [c EXCEPT !.log = <<remote'>>]
                    ELSE [clone[m] EXCEPT !.current = @ /\ Len(c.log) = 1]]

Rejected(n, c) == ~c.current /\ Set(n, c) /\ UNCHANGED <<remote, seen>>

(* The remote is out of reach, or its answer is lost after it moved.       *)
PushFails(n, c) ==
    /\ Fails
    /\ \/ Accepts(n, c)
       \/ Set(n, c) /\ UNCHANGED <<remote, seen>>

(* gitutil.push_best_effort: whatever happens, the caller goes on.         *)
PushBestEffort(n, c) ==
    \/ (Accepts(n, c) \/ Rejected(n, c)) /\ Works
    \/ PushFails(n, c)

Rebased(n, favor) ==
    [clone[n] EXCEPT !.log = IF clone[n].current THEN @ ELSE Rebase(@, remote, favor),
                     !.current = TRUE]
PullClashes(n, favor) == ~clone[n].current /\ Stops(clone[n].log, remote, favor)
PullMayClash(n, favor) == ~clone[n].current /\ MayStop(clone[n].log, remote, favor)

-----------------------------------------------------------------------------
(* `dbwiki analyst`: claim, run_queued_report, complete or fail_request.   *)

Goto(n, step) == pc' = [pc EXCEPT ![n] = step]

(* A command that ends, or raises, forgets its request.                    *)
Ends(a) ==
    /\ Goto(a, "off")
    /\ job' = [job EXCEPT ![a] = NoJob]
    /\ tries' = [tries EXCEPT ![a] = 0]

(* `git pull --rebase` starts in no stopped rebase and on no uncommitted   *)
(* change of a tracked file, and overwrites no untracked one.              *)
CanPull(a) ==
    /\ ~clone[a].stopped
    /\ clone[a].draft # 0 =>
          "none" = Tip(a).page[clone[a].draft] /\ "none" = remote.page[clone[a].draft]

ClaimPulls(a) ==
    /\ pc[a] = "off"
    /\ CanPull(a)
    /\ \/ /\ ~PullClashes(a, "none")
          /\ Set(a, Rebased(a, "none"))
          /\ Goto(a, "pulled")
          /\ Works
       \/ /\ PullMayClash(a, "none")
          /\ Set(a, [clone[a] EXCEPT !.stopped = TRUE])
          /\ Works
          /\ UNCHANGED pc
    /\ UNCHANGED <<remote, seen, job, tries, folded, removed, asked, clock, kills>>

ClaimPullFails(a) ==
    /\ pc[a] = "off"
    /\ CanPull(a)
    /\ Fails
    /\ UNCHANGED <<remote, seen, clone, pc, job, tries, folded, removed, asked, clock, kills>>

(* transaction.capture takes every change of the working tree, a draft     *)
(* included, into the commit.                                              *)
WithDraft(a, tree) ==
    IF clone[a].draft = 0 THEN tree
    ELSE [tree EXCEPT !.page[clone[a].draft] = "draft"]

(* As a bug: no claim is ever stale.                                       *)
StaleNever(file) == FALSE

Stale(file) == file.at = "claimed" /\ now > file.since

Reclaimed(file) ==
    IF file.attempts + 1 >= MAX_REQUEST_ATTEMPTS
    THEN [file EXCEPT !.at = "failed", !.attempts = @ + 1]
    ELSE [at |-> "pending", attempts |-> file.attempts + 1, by |-> NoOne, since |-> 0]

ReclaimStale(a) ==
    /\ pc[a] = "pulled"
    /\ LET queue == Tip(a).queue
           moved == {r \in Requests : Stale(queue[r])}
           tree  == [Tip(a) EXCEPT !.queue = [r \in Requests |->
                        IF r \in moved THEN Reclaimed(queue[r]) ELSE queue[r]]]
       IN  IF moved = {} THEN UNCHANGED clone
           ELSE Set(a, Commit(a, WithDraft(a, tree)))
    /\ Goto(a, "selecting")
    /\ UNCHANGED <<remote, seen, job, tries, folded, removed, asked, clock, failures, kills>>

(* The oldest day pending, and the newest request of that day.             *)
IsTarget(r, tree) ==
    /\ r \in Waiting(tree)
    /\ \A s \in Waiting(tree) : scenario.day[r] < scenario.day[s] \/ (scenario.day[r] = scenario.day[s] /\ s <= r)

(* As a bug: the day is not compared.                                      *)
SupersededOfAnyDay(r, tree) == {s \in Waiting(tree) : s # r}

Superseded(r, tree) == {s \in Waiting(tree) : scenario.day[s] = scenario.day[r] /\ s # r}

Without(queue, gone) == [r \in Requests |-> IF r \in gone THEN NoFile ELSE queue[r]]

ClaimSelects(a) ==
    /\ pc[a] = "selecting"
    /\ \E r \in Requests :
          /\ IsTarget(r, Tip(a))
          /\ LET file == [Tip(a).queue[r] EXCEPT !.at = "claimed", !.by = a, !.since = now]
                 queue == Without(Tip(a).queue, Superseded(r, Tip(a)))
             IN  /\ Set(a, Commit(a, WithDraft(a,
                        [Tip(a) EXCEPT !.queue = [queue EXCEPT ![r] = file]])))
                 /\ job' = [job EXCEPT ![a] = [req |-> r, file |-> file]]
    /\ Goto(a, "claiming")
    /\ UNCHANGED <<remote, seen, tries, folded, removed, asked, clock, failures, kills>>

NothingToClaim(a) ==
    /\ pc[a] = "selecting"
    /\ Waiting(Tip(a)) = {}
    /\ Ends(a)
    /\ UNCHANGED <<remote, seen, clone, folded, removed, asked, clock, failures, kills>>

ClaimPushed(a) ==
    /\ pc[a] = "claiming"
    /\ Accepts(a, clone[a])
    /\ Goto(a, "running")
    /\ tries' = [tries EXCEPT ![a] = 0]
    /\ UNCHANGED <<job, folded, removed, asked, clock, failures, kills>>

(* As a bug: a rejected claim is rebased and kept, as an answer is.        *)
ClaimRejectedKeepsClaim(a) ==
    /\ pc[a] = "claiming"
    /\ ~clone[a].current
    /\ ~PullClashes(a, "theirs")
    /\ Set(a, Rebased(a, "theirs"))
    /\ Goto(a, "running")
    /\ UNCHANGED <<remote, seen, asked, job, tries, folded, removed, clock, failures, kills>>

(* `git reset --hard` to the commit before the claim, `git fetch`, `git    *)
(* reset --hard @{u}`, and another round if the request is still there.    *)
ClaimRejected(a) ==
    /\ pc[a] = "claiming"
    /\ ~clone[a].current
    /\ Set(a, [clone[a] EXCEPT !.log = <<remote>>, !.current = TRUE])
    /\ IF job[a].req \in Waiting(remote) /\ tries[a] + 1 < MAX_CLAIM_ATTEMPTS
       THEN /\ Goto(a, "selecting")
            /\ tries' = [tries EXCEPT ![a] = @ + 1]
            /\ job' = [job EXCEPT ![a] = NoJob]
       ELSE Ends(a)
    /\ UNCHANGED <<remote, seen, folded, removed, asked, clock, failures, kills>>

(* A push that fails otherwise raises and leaves the claim commit in the   *)
(* clone; so does a failing fetch, after the first reset.                  *)
ClaimPushFails(a) ==
    /\ pc[a] = "claiming"
    /\ \/ PushFails(a, clone[a])
       \/ /\ ~clone[a].current
          /\ Fails
          /\ Set(a, [clone[a] EXCEPT !.log = SubSeq(@, 1, Len(@) - 1)])
          /\ UNCHANGED <<remote, seen>>
    /\ Ends(a)
    /\ UNCHANGED <<folded, removed, asked, clock, kills>>

-----------------------------------------------------------------------------
Event(a, completed) ==
    [req |-> job[a].req, by |-> a, attempts |-> job[a].file.attempts,
     since |-> job[a].file.since, completed |-> completed]

(* As a bug: the claimed request is not deleted.                           *)
CompleteKeepsClaim(a) ==
    /\ pc[a] = "running"
    /\ Set(a, Commit(a, [Tip(a) EXCEPT !.page[job[a].req] = "analysis",
                                       !.results = @ \cup {Event(a, TRUE)}]))
    /\ Goto(a, "answering")
    /\ UNCHANGED <<remote, seen, asked, job, tries, folded, removed, clock, failures, kills>>

(* The agent's report passed: report page, deleted request and event are   *)
(* one commit.                                                             *)
Complete(a) ==
    /\ pc[a] = "running"
    /\ Set(a, Commit(a, [Tip(a) EXCEPT !.page[job[a].req] = "analysis",
                                        !.queue[job[a].req] = NoFile,
                                        !.results = @ \cup {Event(a, TRUE)}]))
    /\ Goto(a, "answering")
    /\ UNCHANGED <<remote, seen, job, tries, folded, removed, asked, clock, failures, kills>>

(* It did not: the stage has restored the wiki, the request is put back or *)
(* given up.                                                               *)
FailRequest(a) ==
    /\ pc[a] = "running"
    /\ LET file == Reclaimed(job[a].file) IN
       Set(a, Commit(a, [Tip(a) EXCEPT
            !.queue[job[a].req] = file,
            !.results = IF file.at = "failed" THEN @ \cup {Event(a, FALSE)} ELSE @]))
    /\ Goto(a, "answering")
    /\ UNCHANGED <<remote, seen, job, tries, folded, removed, asked, clock, failures, kills>>

(* _push_rebase_retry: after three rejected rounds a last push that may    *)
(* fail quietly.                                                           *)
AnswerPushed(a) ==
    /\ pc[a] = "answering"
    /\ Accepts(a, clone[a])
    /\ Ends(a)
    /\ UNCHANGED <<folded, removed, asked, clock, failures, kills>>

AnswerRebased(a) ==
    /\ pc[a] = "answering"
    /\ ~clone[a].current
    /\ tries[a] < MAX_PUSH_ATTEMPTS
    /\ \/ /\ ~PullClashes(a, "theirs")
          /\ Set(a, Rebased(a, "theirs"))
          /\ tries' = [tries EXCEPT ![a] = @ + 1]
          /\ UNCHANGED <<pc, job>>
       \/ /\ PullMayClash(a, "theirs")
          /\ Set(a, [clone[a] EXCEPT !.stopped = TRUE])
          /\ Ends(a)
    /\ UNCHANGED <<remote, seen, folded, removed, asked, clock, failures, kills>>

AnswerNotPushed(a) ==
    /\ pc[a] = "answering"
    /\ \/ PushFails(a, clone[a])
       \/ /\ tries[a] = MAX_PUSH_ATTEMPTS
          /\ Rejected(a, clone[a])
          /\ Works
    /\ Ends(a)
    /\ UNCHANGED <<folded, removed, asked, clock, kills>>

(* A killed command; an agent that was running may have left its page.     *)
AnalystKilled(a) ==
    /\ pc[a] # "off"
    /\ kills > 0
    /\ kills' = kills - 1
    /\ \E draft \in {0, job[a].req} :
          /\ draft # 0 => pc[a] = "running"
          /\ Set(a, [clone[a] EXCEPT !.draft = IF draft = 0 THEN @ ELSE draft])
    /\ Ends(a)
    /\ UNCHANGED <<remote, seen, folded, removed, asked, clock, failures>>

-----------------------------------------------------------------------------
(* The on-prem tick: _fold_analyst, then the report of the window.         *)

(* As a bug: -X read as if `theirs` were the other side.                   *)
TickPullsKeepingLocal ==
    /\ pc[OnPrem] = "off"
    /\ ~PullClashes(OnPrem, "theirs")
    /\ Set(OnPrem, Rebased(OnPrem, "theirs"))
    /\ Goto(OnPrem, "fold")
    /\ UNCHANGED <<remote, seen, asked, job, tries, folded, removed, clock, failures, kills>>

(* pull_before_fold: a pull that stops is undone, and the tick goes on.    *)
TickPulls ==
    /\ pc[OnPrem] = "off"
    /\ \/ /\ ~PullClashes(OnPrem, "ours")
          /\ Set(OnPrem, Rebased(OnPrem, "ours"))
          /\ Works
       \/ PullMayClash(OnPrem, "ours") /\ UNCHANGED clone /\ Works
       \/ Fails /\ UNCHANGED clone
    /\ Goto(OnPrem, "fold")
    /\ UNCHANGED <<remote, seen, job, tries, folded, removed, asked, clock, kills>>

(* As a bug: the known event ids are not consulted.                        *)
FoldAppendsAll ==
    /\ pc[OnPrem] = "fold"
    /\ LET files == Tip(OnPrem).results \ removed
       IN  IF files = {} THEN Goto(OnPrem, "report") /\ UNCHANGED <<folded, removed>>
           ELSE /\ Goto(OnPrem, "folding")
                /\ removed' = removed \cup files
                /\ folded' = folded (+) SetToBag(files)
    /\ UNCHANGED <<remote, seen, clone, asked, job, tries, clock, failures, kills>>

(* fold_results: what the run log does not know yet is appended, and every *)
(* file it read is deleted and staged.  Appending is best effort: a result *)
(* that could not be appended is deleted as well.                          *)
FoldAppends ==
    /\ pc[OnPrem] = "fold"
    /\ LET files == Tip(OnPrem).results \ removed
           new   == {e \in files : e \notin BagToSet(folded)}
       IN  IF files = {}
           THEN Goto(OnPrem, "report") /\ Works /\ UNCHANGED <<folded, removed>>
           ELSE /\ Goto(OnPrem, "folding")
                /\ removed' = removed \cup files
                /\ \/ folded' = folded (+) SetToBag(new) /\ Works
                   \/ \E e \in new : folded' = folded (+) SetToBag(new \ {e}) /\ Fails
    /\ UNCHANGED <<remote, seen, clone, job, tries, asked, clock, kills>>

FoldCommits ==
    /\ pc[OnPrem] = "folding"
    /\ removed' = {}
    /\ \/ PushBestEffort(OnPrem,
             Commit(OnPrem, [Tip(OnPrem) EXCEPT !.results = @ \ removed]))
       \/ Fails /\ UNCHANGED <<remote, seen, clone>>  \* git commit fails: restored
    /\ Goto(OnPrem, "report")
    /\ UNCHANGED <<job, tries, folded, asked, clock, kills>>

(* enqueue_request for an escalated window, before the placeholder; staged *)
(* deletions make the tree dirty, and the report raises before either.     *)
Enqueue ==
    /\ pc[OnPrem] = "report"
    /\ removed = {}
    /\ asked + 1 \in scenario.requests
    /\ asked' = asked + 1
    /\ LET file  == [NoFile EXCEPT !.at = "pending"]
           older == {s \in Waiting(Tip(OnPrem)) : scenario.day[s] = scenario.day[asked']}
           queue == Without(Tip(OnPrem).queue, older)
       IN  PushBestEffort(OnPrem, Commit(OnPrem,
               [Tip(OnPrem) EXCEPT !.queue = [queue EXCEPT ![asked'] = file]]))
    /\ Goto(OnPrem, "placeholder")
    /\ UNCHANGED <<job, tries, folded, removed, clock, kills>>

(* The structured report of the window; the local model may fail at it.    *)
PlaceholderWritten ==
    /\ pc[OnPrem] = "placeholder"
    /\ PushBestEffort(OnPrem, Commit(OnPrem, [Tip(OnPrem) EXCEPT !.page[asked] = "placeholder"]))
    /\ Goto(OnPrem, "off")
    /\ UNCHANGED <<asked, job, tries, folded, removed, clock, kills>>

TickEnds ==
    /\ pc[OnPrem] \in {"report", "placeholder"}
    /\ Goto(OnPrem, "off")
    /\ UNCHANGED <<remote, seen, clone, asked, job, tries, folded, removed, clock,
                   failures, kills>>

(* A kill inside the loop of fold_results leaves the files it was done     *)
(* with deleted and staged, and perhaps one more event appended.           *)
FoldHalfDone ==
    /\ pc[OnPrem] = "fold"
    /\ LET files == Tip(OnPrem).results \ removed
       IN  \E done \in SUBSET files : \E last \in {{}} \cup {{e} : e \in files \ done} :
              /\ removed' = removed \cup done
              /\ folded' = folded (+) SetToBag((done \cup last) \ BagToSet(folded))

TickKilled ==
    /\ pc[OnPrem] # "off"
    /\ kills > 0
    /\ kills' = kills - 1
    /\ Goto(OnPrem, "off")
    /\ FoldHalfDone \/ UNCHANGED <<folded, removed>>
    /\ UNCHANGED <<remote, seen, clone, asked, job, tries, clock, failures>>

-----------------------------------------------------------------------------
(* More than `stale_hours` pass.                                           *)
Elapses ==
    /\ now < scenario.until
    /\ now' = now + 1
    /\ UNCHANGED <<remote, seen, clone, pc, asked, job, tries, folded, removed,
                   failures, kills, scenario>>

Claim(a) ==
    \/ ClaimPulls(a) \/ ClaimPullFails(a) \/ ReclaimStale(a) \/ ClaimSelects(a)
    \/ NothingToClaim(a) \/ ClaimPushed(a) \/ ClaimRejected(a) \/ ClaimPushFails(a)

Answer(a) ==
    \/ Complete(a) \/ FailRequest(a)
    \/ AnswerPushed(a) \/ AnswerRebased(a) \/ AnswerNotPushed(a)

Tick ==
    \/ TickPulls \/ FoldAppends \/ FoldCommits
    \/ Enqueue \/ PlaceholderWritten \/ TickEnds

Next ==
    \/ \E a \in scenario.team : Claim(a) \/ Answer(a) \/ AnalystKilled(a)
    \/ Tick \/ TickKilled
    \/ Elapses

Spec == Init /\ [][Next]_vars

-----------------------------------------------------------------------------
(* Cron runs both commands again and again, a running one goes on until it *)
(* ends or is killed, and the clock runs.                                  *)
FairSpec ==
    /\ Spec
    /\ \A a \in Analysts : WF_vars(a \in scenario.team /\ Claim(a))
                         /\ WF_vars(a \in scenario.team /\ Answer(a))
    /\ WF_vars(Tick)
    /\ WF_vars(Elapses)

-----------------------------------------------------------------------------
(* Git is the lock: as long as no claim has gone stale, the remote shows   *)
(* the request an analyst works on as claimed by it, so nobody else claims,*)
(* supersedes or reclaims it (ADR-0001, claim protocol).                   *)
FreshClaimStands ==
    \A a \in Analysts :
        pc[a] = "running" /\ now = 0 => remote.queue[job[a].req] = job[a].file

(* A request leaves the queue only when its analysis is published or a     *)
(* newer request of its day was (complete, supersede): no merge, reclaim   *)
(* or retry drops it.                                                      *)
EveryRequestIsAccountedFor ==
    \A r \in seen :
        \/ remote.queue[r].at # "none"
        \/ remote.page[r] = "analysis"
        \/ \E s \in seen : scenario.day[s] = scenario.day[r] /\ r < s

(* A published analysis is not asked for again: neither a late failure nor *)
(* a reclaim puts a completed request back.                                *)
DoneIsNotAskedAgain ==
    \A r \in Requests : remote.page[r] = "analysis" => remote.queue[r].at = "none"

(* No placeholder, and nobody's draft, replaces a published analysis       *)
(* (pull_before_fold's -X ours).                                           *)
AnalysisStands ==
    [][\A r \in Requests : remote.page[r] = "analysis" => remote'.page[r] = "analysis"]_vars

(* An event is in the run log once, whatever becomes of the commit that    *)
(* deletes its file (fold_results is keyed on event_id).                   *)
FoldedOnce == \A e \in BagToSet(folded) : folded[e] = 1

(* The telemetry an analyst has committed and nobody else has.             *)
Unpushed(a) == Tip(a).results \ clone[a].log[1].results

(* Every request that reached the remote ends, completed, given up or      *)
(* superseded, in spite of a killed command.  Three things excuse it: a    *)
(* clone that waits for a human; an answer that lies in a clone whose      *)
(* command was killed before the push, because only the push of another    *)
(* claim carries it; a claim made when the clock of the model had run out. *)
WaitsForHuman(a) == ~CanPull(a)
LeftBehind(r, a) ==
    pc[a] = "off" /\ \/ \E e \in Unpushed(a) : e.req = r
                     \/ Tip(a).queue[r].at = "failed"
ClockRanOut ==
    \E a \in Analysts, r \in Requests :
        Tip(a).queue[r].at = "claimed" /\ Tip(a).queue[r].since = scenario.until
EveryRequestEnds ==
    \A r \in Requests :
        r \in seen ~> \/ remote.queue[r].at \in {"none", "failed"}
                      \/ \E a \in Analysts : WaitsForHuman(a) \/ LeftBehind(r, a)
                      \/ ClockRanOut

-----------------------------------------------------------------------------
(* What the documentation says and the code does not keep.                 *)

(* queue.py:29 and pull_before_fold: reports/<day><suffix>.md is the one   *)
(* path both sides can touch, so a tick's pull never stops on a conflict.  *)
OnlyReportsConflict == ~PullClashes(OnPrem, "ours")

=============================================================================
