-------------------------- MODULE QueueRepository --------------------------
(***************************************************************************)
(* What the nodes of ADR-0001 exchange: the part of the wiki repository   *)
(* under queue/ and reports/, and what Git makes of two versions of it.    *)
(*                                                                         *)
(* A request is one file, queue/<directory>/report-<day>-<hhmm>-<run>.json.*)
(* Git follows such a file when it moves between directories, because its  *)
(* content hardly changes, so a tree is here a function from requests to   *)
(* where the file lies and what the queue wrote into it.                   *)
(***************************************************************************)
EXTENDS GitFiles

CONSTANTS
    Requests,  \* requests, numbered in the order of `created_at`
    Analysts,  \* hosts that run `dbwiki analyst`
    NoOne      \* claimed_by: null

ASSUME RepositoryAssumption ==
    /\ Requests \subseteq Nat \ {0}
    /\ NoOne \notin Analysts

Directories == {"pending", "claimed", "failed"}

(* A request file: its directory, and the fields the queue rewrites.       *)
(* `since` is claimed_at.                                                  *)
Files == [at : Directories \cup {"none"}, attempts : Nat,
          by : Analysts \cup {NoOne}, since : Nat]
NoFile == [at |-> "none", attempts |-> 0, by |-> NoOne, since |-> 0]

(* A telemetry event queue/results/<run>-<event>.json.                     *)
Events == [req : Requests, by : Analysts, attempts : Nat, since : Nat,
           completed : BOOLEAN]

(* The report page of a request's window.  A "draft" is what a killed agent*)
(* left behind.                                                            *)
Pages == {"none", "placeholder", "analysis", "draft"}

Trees == [queue : [Requests -> Files], results : SUBSET Events,
          page : [Requests -> Pages]]
EmptyTree == [queue |-> [r \in Requests |-> NoFile], results |-> {},
              page |-> [r \in Requests |-> "none"]]

-----------------------------------------------------------------------------
(* A merge of two versions of the tree: see GitFiles.                      *)

Clash(base, ours, theirs, favor) ==
    \/ FilesClash(base.queue, ours.queue, theirs.queue, favor)
    \/ /\ favor = "none"
       /\ \E r \in Requests : BothChanged(base.page[r], ours.page[r], theirs.page[r])

Merge(base, ours, theirs, favor) ==
    [queue   |-> MergeFiles(base.queue, ours.queue, theirs.queue, favor),
     results |-> (ours.results \ (base.results \ theirs.results))
                     \cup (theirs.results \ base.results),
     page    |-> [r \in Requests |->
                    Pick(base.page[r], ours.page[r], theirs.page[r], favor)]]

Rebase(log, upstream, favor) == Replay(log, upstream, favor, Merge)

Stops(log, upstream, favor) ==
    \E i \in DOMAIN log \ {1} :
        Clash(log[i - 1], Rebase(log, upstream, favor)[i - 1], log[i], favor)

MayStop(log, upstream, favor) ==
    \/ Stops(log, upstream, favor)
    \/ \E i \in DOMAIN log \ {1} :
          FilesMayClash(log[i - 1].queue, Rebase(log, upstream, favor)[i - 1].queue,
                        log[i].queue)
=============================================================================
