------------------------------ MODULE Exchange ------------------------------
(***************************************************************************)
(* Offloaded research (exchange.py, ADR-0002).  Once a round the on-prem   *)
(* node folds the results a researcher pushed into the wiki and enqueues an *)
(* anonymized request for every page that wants one; a researcher claims a *)
(* request, answers it and pushes the result.  They share a Git remote, the*)
(* exchange, and nothing else.                                             *)
(*                                                                         *)
(* What interleaves is pulls, pushes, crashes and the clock; the steps of  *)
(* one command between a pull and a push are seen by nobody.               *)
(***************************************************************************)
EXTENDS GitFiles, FiniteSets

CONSTANTS
    Researchers,  \* hosts that run `dbwiki-researcher`
    OnPrem,       \* the on-prem node
    NoOne,        \* claimed_by: null
    Requests,     \* requests, numbered in the order of `created_at`
    KeyOf,        \* request -> the page it is about (kind and code or slug)
    Reviews,      \* pages whose request is a source review
    Scenarios     \* what a behavior is about: the researchers at work, the pages
                  \* due and those whose request still leaks after redaction;
                  \* bounds: where the clock stops, how many Git commands fail
                  \* and how many commands are killed

ASSUME ExchangeAssumption ==
    /\ Requests \subseteq Nat \ {0}
    /\ OnPrem \notin Researchers /\ NoOne \notin Researchers
    /\ Scenarios \subseteq [team : SUBSET Researchers, pages : SUBSET {KeyOf[r] : r \in Requests},
                           leaky : SUBSET {KeyOf[r] : r \in Requests},
                           until : Nat, failures : Nat, kills : Nat]

MAX_CLAIM_ATTEMPTS == 3
MAX_REQUEST_ATTEMPTS == 2
MAX_PUSH_ATTEMPTS == 3

Nodes == Researchers \cup {OnPrem}
Keys == {KeyOf[r] : r \in Requests}

(* A request and its result are two files of the exchange.                 *)
Req(r) == <<"request", r>>
Res(r) == <<"result", r>>
Names == {"request", "result"} \X Requests

Files == [at : {"none", "pending", "claimed", "failed", "results"}, attempts : Nat,
          by : Researchers \cup {NoOne}, since : Nat]
NoFile == [at |-> "none", attempts |-> 0, by |-> NoOne, since |-> 0]
Trees == [Names -> Files]
EmptyTree == [f \in Names |-> NoFile]
NoJob == [req |-> 0, file |-> NoFile]

VARIABLES
    remote,   \* the tree at the tip of the remote branch
    seen,     \* history: the requests that were ever at that tip
    runs,     \* history: request -> the claims of it that reached the remote
    late,     \* history: the requests some researcher was too slow with
    clone,    \* node -> its clone, see below
    pc,       \* node -> where its command stands
    job,      \* researcher -> the request record its command holds in memory
    tries,    \* researcher -> the loop variable of claim and _push_rebase_retry
    issued,   \* requests ever written into a clone
    wanted,   \* the pages the round was started for
    landed,   \* the pages the round has folded a result of (folded_now)
    answered, \* request -> "none", "applied" to the wiki or "rejected"
    now,      \* the clock, in units of `stale_hours`
    failures, \* failures left
    kills,    \* kills left
    scenario  \* the member of Scenarios this behavior is about

vars == <<remote, seen, runs, late, clone, pc, job, tries, issued, wanted, landed, answered,
          now, failures, kills, scenario>>
onprem == <<issued, wanted, landed, answered>>
clock == <<now, late, scenario>>

(* log[1] is the tree where the clone last met the remote, the others its  *)
(* unpushed commits; `work` is the working tree; `current` says that the   *)
(* remote is still at log[1]; `stopped` that a rebase stopped half way.    *)

Tip(n) == clone[n].log[Len(clone[n].log)]
Work(n) == clone[n].work
Step(n, from) == pc[n] = from /\ ~clone[n].stopped
Goto(n, step) == pc' = [pc EXCEPT ![n] = step]

Init ==
    /\ remote = EmptyTree
    /\ seen = {} /\ late = {}
    /\ runs = [r \in Requests |-> 0]
    /\ clone = [n \in Nodes |-> [log |-> <<EmptyTree>>, work |-> EmptyTree,
                                 current |-> TRUE, stopped |-> FALSE]]
    /\ pc = [n \in Nodes |-> "off"]
    /\ job = [n \in Researchers |-> NoJob]
    /\ tries = [n \in Researchers |-> 0]
    /\ issued = {} /\ wanted = {} /\ landed = {}
    /\ answered = [r \in Requests |-> "none"]
    /\ scenario \in Scenarios
    /\ now = 0 /\ failures = scenario.failures /\ kills = scenario.kills

-----------------------------------------------------------------------------
(* Git, as the nodes use it.                                               *)

Fails == failures > 0 /\ failures' = failures - 1
Works == UNCHANGED failures
Set(n, c) == clone' = [clone EXCEPT ![n] = c]

(* _commit stages everything; content already held makes no commit.        *)
Commit(c, tree) ==
    [c EXCEPT !.log = IF tree = c.log[Len(c.log)] THEN @ ELSE Append(@, tree),
              !.work = tree]

(* `git reset --hard`: a tracked file gets its content back, and a file    *)
(* that the reset commit added is gone.                                    *)
ResetTo(c, log) == [c EXCEPT !.log = log, !.work = log[Len(log)]]

ClaimsIn(log, r) ==
    {i \in DOMAIN log \ {1} : log[i][Req(r)].at = "claimed" /\ log[i][Req(r)] # log[i - 1][Req(r)]}
Publishes(log) ==
    /\ remote' = log[Len(log)]
    /\ seen' = seen \cup {r \in Requests : remote'[Req(r)].at # "none"}
    /\ runs' = [r \in Requests |-> runs[r] + Cardinality(ClaimsIn(log, r))]
Quiet == UNCHANGED <<remote, seen, runs>>

(* `git push` of the clone `c` is accepted when nobody pushed since it last*)
(* pulled; `after` is what becomes of the clone.                           *)
AcceptedThen(n, c, after) ==
    /\ c.current
    /\ Publishes(c.log)
    /\ clone' = [m \in Nodes |->
                    IF m = n THEN after
                    ELSE [clone[m] EXCEPT !.current = @ /\ Len(c.log) = 1]]
Accepts(n, c) == AcceptedThen(n, c, [c EXCEPT !.log = <<c.log[Len(c.log)]>>])

(* The remote is out of reach, or its answer is lost after it moved.       *)
PushFails(n, c) == Fails /\ (Accepts(n, c) \/ (Set(n, c) /\ Quiet))

(* gitutil.push_best_effort: whatever happens, the caller goes on.         *)
PushBestEffort(n, c) ==
    \/ Accepts(n, c) /\ Works
    \/ ~c.current /\ Set(n, c) /\ Quiet /\ Works
    \/ PushFails(n, c)

Rebase(log, upstream, favor) == Replay(log, upstream, favor, MergeFiles)
Stops(log, upstream, favor) ==
    \E i \in DOMAIN log \ {1} :
        FilesClash(log[i - 1], Rebase(log, upstream, favor)[i - 1], log[i], favor)
MayStop(log, upstream, favor) ==
    \/ Stops(log, upstream, favor)
    \/ \E i \in DOMAIN log \ {1} :
          FilesMayClash(log[i - 1], Rebase(log, upstream, favor)[i - 1], log[i])

(* Untracked files survive the rebase.                                     *)
Rebased(n, favor) ==
    LET c   == clone[n]
        log == IF c.current THEN c.log ELSE Rebase(c.log, remote, favor)
    IN  [c EXCEPT !.log = log, !.current = TRUE,
                  !.work = [f \in Names |->
                     IF c.work[f] = Tip(n)[f] THEN log[Len(log)][f] ELSE c.work[f]]]
PullStops(n, favor) == ~clone[n].current /\ Stops(clone[n].log, remote, favor)
PullMayStop(n, favor) == ~clone[n].current /\ MayStop(clone[n].log, remote, favor)

(* exchange.pull.  A tracked file that is changed or removed in the working*)
(* tree makes `git pull --rebase` refuse; so does a remote out of reach;   *)
(* the caller works from local state.  A rebase that stops leaves the clone*)
(* to a human.                                                             *)
Dirty(n) == \E f \in Names : Tip(n)[f].at # "none" /\ Work(n)[f] # Tip(n)[f]

Pulled(n, c) ==
    \/ ~Dirty(n) /\ ~PullStops(n, "none") /\ c = Rebased(n, "none") /\ Works
    \/ Dirty(n) /\ c = clone[n] /\ Works
    \/ ~clone[n].current /\ c = clone[n] /\ Fails
PullStopsHere(n) ==
    /\ ~Dirty(n) /\ PullMayStop(n, "none")
    /\ Set(n, [clone[n] EXCEPT !.stopped = TRUE])
    /\ Quiet /\ Works

-----------------------------------------------------------------------------
(* Pull, then reclaim_stale: both nodes do this first.                     *)

Stale(file) == file.at = "claimed" /\ now > file.since

GivenBack(file) ==
    IF file.attempts + 1 >= MAX_REQUEST_ATTEMPTS
    THEN [file EXCEPT !.at = "failed", !.attempts = @ + 1]
    ELSE [at |-> "pending", attempts |-> file.attempts + 1, by |-> NoOne, since |-> 0]

Reclaimed(tree) == [f \in Names |-> IF Stale(tree[f]) THEN GivenBack(tree[f]) ELSE tree[f]]

(* The claims reclaimed are one commit, still to be pushed.                *)
PullAndReclaim(n, next) ==
    /\ Step(n, "off")
    /\ \E c \in {clone[n], Rebased(n, "none")} :
          /\ Pulled(n, c)
          /\ IF \E f \in Names : Stale(c.work[f])
             THEN Set(n, Commit(c, Reclaimed(c.work))) /\ Goto(n, "reclaiming")
             ELSE Set(n, c) /\ Goto(n, next)
    /\ Quiet

Shorter(log) == SubSeq(log, 1, Len(log) - 1)

(* As a bug: a reclaim that is rejected is rebased over what the other side*)
(* did meanwhile, and pushed.                                              *)
ReclaimRebased(n, next) ==
    /\ Step(n, "reclaiming")
    /\ \/ Accepts(n, clone[n]) /\ Works /\ Goto(n, next)
       \/ /\ ~clone[n].current /\ ~PullStops(n, "theirs")
          /\ Set(n, Rebased(n, "theirs"))
          /\ Quiet /\ Works /\ UNCHANGED pc

(* A push that fails for any reason drops the reclaim again.  When only the*)
(* answer was lost, the clone stays behind a remote that has it.           *)
ReclaimPushed(n, next) ==
    /\ Step(n, "reclaiming")
    /\ LET c == clone[n]
           dropped == ResetTo(c, Shorter(c.log))
       IN  \/ Accepts(n, c) /\ Works
           \/ ~c.current /\ Set(n, dropped) /\ Quiet /\ Works
           \/ /\ Fails
              /\ \/ Set(n, dropped) /\ Quiet
                 \/ AcceptedThen(n, c, [dropped EXCEPT !.log = <<c.log[Len(c.log) - 1]>>,
                                                      !.current = FALSE])
    /\ Goto(n, next)

-----------------------------------------------------------------------------
(* `dbwiki-researcher`: claim, run_one, complete or fail_request.          *)

Ends(a) ==
    /\ Goto(a, "off")
    /\ job' = [job EXCEPT ![a] = NoJob]
    /\ tries' = [tries EXCEPT ![a] = 0]

Pull(a) ==
    \/ /\ PullAndReclaim(a, "selecting")
       /\ UNCHANGED <<job, tries, onprem, clock, kills>>
    \/ /\ Step(a, "off") /\ PullStopsHere(a)
       /\ UNCHANGED <<pc, job, tries, onprem, clock, kills>>

Reclaim(a) ==
    /\ ReclaimPushed(a, "selecting")
    /\ UNCHANGED <<job, tries, onprem, clock, kills>>

Waiting(tree) == {r \in Requests : tree[Req(r)].at = "pending"}
Older(r, tree) == {s \in Waiting(tree) : KeyOf[s] = KeyOf[r] /\ s < r}
Newest(tree) == {r \in Waiting(tree) : \A s \in Waiting(tree) : r \notin Older(s, tree)}

(* The newest request of every page; of these, the one created first.      *)
IsTarget(r, tree) == r \in Newest(tree) /\ \A s \in Newest(tree) : r <= s

Without(tree, gone) ==
    [f \in Names |-> IF f[1] = "request" /\ f[2] \in gone THEN NoFile ELSE tree[f]]

(* As a bug: the claim counts as an attempt, and so does its failure.      *)
ClaimSelectsCounting(a) ==
    /\ Step(a, "selecting")
    /\ \E r \in Requests :
          /\ IsTarget(r, Work(a))
          /\ LET file == [Work(a)[Req(r)] EXCEPT !.at = "claimed", !.by = a, !.since = now,
                                                 !.attempts = @ + 1]
             IN  /\ Set(a, Commit(clone[a], [Work(a) EXCEPT ![Req(r)] = file]))
                 /\ job' = [job EXCEPT ![a] = [req |-> r, file |-> file]]
    /\ Goto(a, "claiming")
    /\ UNCHANGED <<remote, seen, runs, tries, onprem, clock, failures, kills>>

ClaimSelects(a) ==
    /\ Step(a, "selecting")
    /\ \E r \in Requests :
          /\ IsTarget(r, Work(a))
          /\ LET file == [Work(a)[Req(r)] EXCEPT !.at = "claimed", !.by = a, !.since = now]
                 tree == Without(Work(a), Older(r, Work(a)))
             IN  /\ Set(a, Commit(clone[a], [tree EXCEPT ![Req(r)] = file]))
                 /\ job' = [job EXCEPT ![a] = [req |-> r, file |-> file]]
    /\ Goto(a, "claiming")
    /\ UNCHANGED <<remote, seen, runs, tries, onprem, clock, failures, kills>>

NothingToClaim(a) ==
    /\ Step(a, "selecting")
    /\ Waiting(Work(a)) = {}
    /\ Ends(a)
    /\ UNCHANGED <<remote, seen, runs, clone, onprem, clock, failures, kills>>

ClaimPushed(a) ==
    /\ Step(a, "claiming")
    /\ Accepts(a, clone[a])
    /\ Goto(a, "running")
    /\ tries' = [tries EXCEPT ![a] = 0]
    /\ UNCHANGED <<job, onprem, clock, failures, kills>>

(* Loser backs off: reset to the commit before, fetch, reset to upstream,  *)
(* and another round if the request is still there.                        *)
ClaimRejected(a) ==
    /\ Step(a, "claiming")
    /\ ~clone[a].current
    /\ Set(a, [ResetTo(clone[a], <<remote>>) EXCEPT !.current = TRUE])
    /\ IF job[a].req \in Waiting(remote) /\ tries[a] + 1 < MAX_CLAIM_ATTEMPTS
       THEN /\ Goto(a, "selecting")
            /\ tries' = [tries EXCEPT ![a] = @ + 1]
            /\ job' = [job EXCEPT ![a] = NoJob]
       ELSE Ends(a)
    /\ UNCHANGED <<remote, seen, runs, onprem, clock, failures, kills>>

(* A push that fails otherwise raises and leaves the claim commit in the   *)
(* clone; so does a failing fetch, after the first reset.                  *)
ClaimPushFails(a) ==
    /\ Step(a, "claiming")
    /\ \/ PushFails(a, clone[a])
       \/ /\ ~clone[a].current /\ Fails
          /\ Set(a, ResetTo(clone[a], Shorter(clone[a].log))) /\ Quiet
    /\ Ends(a)
    /\ UNCHANGED <<onprem, clock, kills>>

(* Result written and claim deleted in one commit.                         *)
Complete(a) ==
    /\ Step(a, "running")
    /\ Set(a, Commit(clone[a], [Work(a) EXCEPT
            ![Req(job[a].req)] = NoFile,
            ![Res(job[a].req)] = [job[a].file EXCEPT !.at = "results"]]))
    /\ Goto(a, "answering")
    /\ UNCHANGED <<remote, seen, runs, job, tries, onprem, clock, failures, kills>>

FailRequest(a) ==
    /\ Step(a, "running")
    /\ Set(a, Commit(clone[a], [Work(a) EXCEPT ![Req(job[a].req)] = GivenBack(job[a].file)]))
    /\ Goto(a, "answering")
    /\ UNCHANGED <<remote, seen, runs, job, tries, onprem, clock, failures, kills>>

(* queue._push_rebase_retry: three rounds of `pull --rebase -X theirs`,    *)
(* then a last push that may fail quietly.                                 *)
AnswerPushed(a) ==
    /\ Step(a, "answering")
    /\ Accepts(a, clone[a])
    /\ Ends(a)
    /\ UNCHANGED <<onprem, clock, failures, kills>>

AnswerRebased(a) ==
    /\ Step(a, "answering")
    /\ ~clone[a].current
    /\ tries[a] < MAX_PUSH_ATTEMPTS
    /\ \/ /\ ~PullStops(a, "theirs")
          /\ Set(a, Rebased(a, "theirs"))
          /\ tries' = [tries EXCEPT ![a] = @ + 1]
          /\ UNCHANGED <<pc, job>>
       \/ /\ PullMayStop(a, "theirs")
          /\ Set(a, [clone[a] EXCEPT !.stopped = TRUE])
          /\ Ends(a)
    /\ UNCHANGED <<remote, seen, runs, onprem, clock, failures, kills>>

AnswerNotPushed(a) ==
    /\ Step(a, "answering")
    /\ \/ PushFails(a, clone[a])
       \/ /\ tries[a] = MAX_PUSH_ATTEMPTS /\ ~clone[a].current
          /\ UNCHANGED clone /\ Quiet /\ Works
    /\ Ends(a)
    /\ UNCHANGED <<onprem, clock, kills>>

ResearcherKilled(a) ==
    /\ pc[a] # "off"
    /\ kills > 0 /\ kills' = kills - 1
    /\ Ends(a)
    /\ UNCHANGED <<remote, seen, runs, clone, onprem, clock, failures>>

-----------------------------------------------------------------------------
(* The on-prem round: research.mode offload.                               *)

Research == UNCHANGED <<job, tries>>
Results(tree) == {r \in Requests : tree[Res(r)].at = "results"}
Applied(k) == \E r \in Requests : KeyOf[r] = k /\ answered[r] = "applied"

(* The pages the round is for are picked before it pulls: those that no    *)
(* result has been applied to.                                             *)
RoundStarts ==
    \/ /\ PullAndReclaim(OnPrem, "fold")
       /\ wanted' = {k \in scenario.pages : ~Applied(k)}
       /\ landed' = {}
       /\ UNCHANGED <<issued, answered, clock, kills>> /\ Research
    \/ /\ Step(OnPrem, "off") /\ PullStopsHere(OnPrem)
       /\ UNCHANGED <<pc, onprem, clock, kills>> /\ Research

RoundReclaims ==
    /\ ReclaimPushed(OnPrem, "fold")
    /\ UNCHANGED <<onprem, clock, kills>> /\ Research

(* As a bug: a result that cannot be applied is deleted.                   *)
FoldOneDropsRejected ==
    /\ pc[OnPrem] \in {"fold", "folding"}
    /\ \E r \in Results(Work(OnPrem)) :
          /\ Set(OnPrem, [clone[OnPrem] EXCEPT !.work[Res(r)] = NoFile])
          /\ \/ answered' = [answered EXCEPT ![r] = "applied"]
             \/ UNCHANGED answered
          /\ landed' = landed \cup {KeyOf[r]}
    /\ Goto(OnPrem, "folding")
    /\ UNCHANGED <<remote, seen, runs, issued, wanted, clock, failures, kills>> /\ Research

(* _fold_exchange, one result: applied, linted and committed to the wiki,  *)
(* its file deleted; or the wiki restored and the file moved to failed/.   *)
(* Both are staged in the exchange, neither is committed yet.              *)
FoldOne ==
    /\ \E from \in {"fold", "folding"} : Step(OnPrem, from)
    /\ \E r \in Results(Work(OnPrem)) :
          /\ \A s \in Results(Work(OnPrem)) : r <= s
          /\ \/ /\ Set(OnPrem, [clone[OnPrem] EXCEPT !.work[Res(r)] = NoFile])
                /\ answered' = [answered EXCEPT ![r] = "applied"]
                /\ landed' = landed \cup {KeyOf[r]}
             \/ /\ Set(OnPrem, [clone[OnPrem] EXCEPT !.work[Res(r)].at = "failed"])
                /\ answered' = [answered EXCEPT ![r] = IF @ = "applied" THEN @ ELSE "rejected"]
                /\ UNCHANGED landed
    /\ Goto(OnPrem, "folding")
    /\ UNCHANGED <<remote, seen, runs, issued, wanted, clock, failures, kills>> /\ Research

(* One exchange commit for all the results of the round.                   *)
FoldCommits ==
    /\ Step(OnPrem, "folding")
    /\ Results(Work(OnPrem)) = {}
    /\ PushBestEffort(OnPrem, Commit(clone[OnPrem], Work(OnPrem)))
    /\ Goto(OnPrem, "enqueue")
    /\ UNCHANGED <<onprem, clock, kills>> /\ Research

NothingToFold ==
    /\ Step(OnPrem, "fold")
    /\ Results(Work(OnPrem)) = {}
    /\ Goto(OnPrem, "enqueue")
    /\ UNCHANGED <<remote, seen, runs, clone, onprem, clock, failures, kills>> /\ Research

(* As a bug: a claimed request is not in flight.                           *)
InFlightPending == {KeyOf[r] : r \in Waiting(Work(OnPrem))}

InFlight == {KeyOf[r] : r \in {q \in Requests : Work(OnPrem)[Req(q)].at \in {"pending", "claimed"}}}

(* A page in flight is not asked for again, nor one a result just landed   *)
(* on; that second question is not asked of a source to review.            *)
ToResearch == (wanted \ Reviews) \ (InFlight \cup landed)
ToReview == (wanted \cap Reviews) \ InFlight

NextOf(k) == {r \in Requests \ issued :
                 KeyOf[r] = k /\ \A s \in Requests \ issued : KeyOf[s] = k => r <= s}
NextOfAll(keys) == UNION {NextOf(k) : k \in keys}

(* Writing a request removes the pending ones of its page.                 *)
WithRequests(tree, new) ==
    [f \in Names |->
        IF f[1] = "request" /\ f[2] \in new THEN [NoFile EXCEPT !.at = "pending"]
        ELSE Without(tree, UNION {Older(r, tree) : r \in new})[f]]

(* A research request that leaks is left out of the round.                 *)
Enqueue ==
    /\ Step(OnPrem, "enqueue")
    /\ ToReview \cap scenario.leaky = {}
    /\ LET new == NextOfAll((ToResearch \ scenario.leaky) \cup ToReview)
       IN  /\ issued' = issued \cup new
           /\ IF new = {} THEN UNCHANGED clone /\ Quiet /\ Works
              ELSE PushBestEffort(OnPrem,
                      Commit(clone[OnPrem], WithRequests(Work(OnPrem), new)))
    /\ Goto(OnPrem, "off")
    /\ UNCHANGED <<wanted, landed, answered, clock, kills>> /\ Research

(* A round that stops in the middle of enqueueing leaves what it wrote in  *)
(* the working tree.                                                       *)
WritesSome(new) ==
    /\ issued' = issued \cup new
    /\ Set(OnPrem, [clone[OnPrem] EXCEPT !.work = WithRequests(@, new)])

(* A review request that leaks even without its notes raises, after the    *)
(* requests before it were written and before any is committed.            *)
EnqueueRaises ==
    /\ Step(OnPrem, "enqueue")
    /\ ToReview \cap scenario.leaky # {}
    /\ \E some \in SUBSET (ToReview \ scenario.leaky) :
          WritesSome(NextOfAll((ToResearch \ scenario.leaky) \cup some))
    /\ Goto(OnPrem, "off")
    /\ UNCHANGED <<remote, seen, runs, wanted, landed, answered, clock, failures, kills>>
    /\ Research

(* A killed round, or one that raises because somebody moved the wiki.     *)
RoundKilled ==
    /\ pc[OnPrem] # "off"
    /\ kills > 0 /\ kills' = kills - 1
    /\ \/ UNCHANGED <<clone, issued>>
       \/ /\ Step(OnPrem, "enqueue")
          /\ \E some \in SUBSET (ToResearch \ scenario.leaky) : some # {} /\ WritesSome(NextOfAll(some))
    /\ Goto(OnPrem, "off")
    /\ UNCHANGED <<remote, seen, runs, wanted, landed, answered, clock, failures>> /\ Research

-----------------------------------------------------------------------------
(* More than `stale_hours` pass.                                           *)
Elapses ==
    /\ now < scenario.until
    /\ now' = now + 1
    /\ late' = late \cup {job[a].req : a \in {b \in Researchers : job[b] # NoJob}}
    /\ UNCHANGED <<remote, seen, runs, clone, pc, job, tries, onprem, failures, kills, scenario>>

Claim(a) ==
    \/ Pull(a) \/ Reclaim(a) \/ ClaimSelects(a) \/ NothingToClaim(a)
    \/ ClaimPushed(a) \/ ClaimRejected(a) \/ ClaimPushFails(a)

Answer(a) ==
    Complete(a) \/ FailRequest(a) \/ AnswerPushed(a) \/ AnswerRebased(a) \/ AnswerNotPushed(a)

Round ==
    \/ RoundStarts \/ RoundReclaims \/ FoldOne \/ FoldCommits \/ NothingToFold
    \/ Enqueue \/ EnqueueRaises

Next ==
    \/ \E a \in scenario.team : Claim(a) \/ Answer(a) \/ ResearcherKilled(a)
    \/ Round \/ RoundKilled
    \/ Elapses

Spec == Init /\ [][Next]_vars

(* Both nodes run again and again (cron, --watch), a running command goes  *)
(* on until it ends or is killed, and the clock runs.                      *)
FairSpec ==
    /\ Spec
    /\ \A a \in Researchers : WF_vars(a \in scenario.team /\ Claim(a))
                            /\ WF_vars(a \in scenario.team /\ Answer(a))
    /\ WF_vars(Round)
    /\ WF_vars(Elapses)

-----------------------------------------------------------------------------
(* As long as nobody was slower with it than the stale budget, the remote  *)
(* shows the request a researcher works on as claimed by it: no other      *)
(* claim, reclaim, fold or enqueue takes it away (claim protocol, ADR-0002).*)
FreshClaimStands ==
    \A a \in Researchers :
        pc[a] = "running" /\ job[a].req \notin late => remote[Req(job[a].req)] = job[a].file

(* A dead run counts once: the attempts of a request never exceed the runs *)
(* that were started for it, although both sides reclaim (reclaim_stale).  *)
AttemptsAreRuns == \A r \in Requests : remote[Req(r)].attempts <= runs[r]

(* A round that stops half way leaves a request it wrote uncommitted; the   *)
(* next one may sweep that up with a reclaim whose push gets through and   *)
(* whose answer is lost, drop both and ask again.  Short of the two        *)
(* together ...                                                            *)
NeverHalf == kills = scenario.kills /\ scenario.leaky = {}
Tidy == failures = scenario.failures \/ NeverHalf

(* ... one request per page is out at a time (in_flight), in spite of       *)
(* failed pulls, lost pushes, late answers and merges, or of killed rounds. *)
OneRequestInFlight ==
    Tidy => \A r, s \in Requests :
        /\ KeyOf[r] = KeyOf[s]
        /\ remote[Req(r)].at \in {"pending", "claimed"}
        /\ remote[Req(s)].at \in {"pending", "claimed"}
        => r = s

(* A request that reached the exchange is not dropped: it lies in a        *)
(* directory of it, or its result does, or the result was dealt with.      *)
EveryRequestIsAccountedFor ==
    \A r \in seen :
        \/ remote[Req(r)].at # "none"
        \/ remote[Res(r)].at # "none"
        \/ answered[r] # "none"
        \/ \E s \in seen : KeyOf[s] = KeyOf[r] /\ r < s

-----------------------------------------------------------------------------
(* What a comment says and the code does not keep.  cli.py:528: "offload   *)
(* mode always runs: results the researcher pushed fold in even when there *)
(* is nothing new to enqueue".                                             *)
ResultsFoldIn ==
    \A r \in Requests :
        remote[Res(r)].at = "results" ~> answered[r] # "none" \/ clone[OnPrem].stopped
=============================================================================
