-------------------------- MODULE WikiTransaction --------------------------
(***************************************************************************)
(* Publishing to the wiki checkout: dbwiki/transaction.py under the        *)
(* single-flight lock of dbwiki/lock.py.  Two kinds of writer publish:     *)
(*                                                                         *)
(*   - an operator's act (incident_action.publish): built from a base      *)
(*     revision without the lock, then committed under it;                 *)
(*   - a stage (orchestrate.py: _stage): holds the lock for its whole run, *)
(*     lets an agent write into the checkout, captures what changed and    *)
(*     commits that, or rolls it back.                                     *)
(*                                                                         *)
(* Hands edit, stage and commit in the same checkout without taking the    *)
(* lock, and a writer can be killed at any step.                           *)
(*                                                                         *)
(* A page's content is the set of marks written on it; {} is a page that   *)
(* does not exist.  Paths are published in any order where the code sorts  *)
(* them.                                                                   *)
(***************************************************************************)
EXTENDS Naturals, FiniteSets

CONSTANTS
    Pages,      \* curated pages of the wiki
    Shared,     \* index.md and log.md, which every stage may change
    Operators,  \* operator acts, one mark each (actor and `at` name an act)
    Stages,     \* agent-stage runs, one mark each
    HandMarks,  \* edits made by hand
    Touches,    \* Touches[a]: the pages act a's proposal names
    Torn,       \* what a page holds when a kill cut its write short
    NoWriter,   \* the lock is free
    NoPage,     \* a hand edit that was not made yet
    HandsRace,  \* TRUE: hands act even inside commit()'s check-to-commit window
    LateFailure \* TRUE: `git commit` may be reported failed after it landed

Writers == Operators \cup Stages
Marks == Writers \cup HandMarks \cup {Torn}

ASSUME WriterAssumption ==
    /\ Operators \cap Stages = {}
    /\ HandMarks \cap Writers = {}
    /\ Torn \notin Writers \cup HandMarks
    /\ NoWriter \notin Writers
    /\ NoPage \notin Pages
ASSUME PageAssumption ==
    /\ Shared \subseteq Pages
    /\ Touches \in [Operators -> (SUBSET Pages) \ {{}}]
ASSUME RaceAssumption == HandsRace \in BOOLEAN /\ LateFailure \in BOOLEAN

VARIABLES
    head,     \* HEAD: its revision number and its tree
    work,     \* the working tree
    index,    \* the git index
    lock,     \* who holds .state/orchestrator.lock
    pc,       \* where each writer stands
    base,     \* the revision each writer's proposal was built from
    paths,    \* the paths each proposal names
    want,     \* the content each proposal wants (its base elsewhere)
    todo,     \* the changed paths a commit still has to write
    touched,  \* the pages the stage's agent wrote, which it declares
    hand,     \* hand[m]: the page hand edit m was made on
    crashed   \* the writers that were killed at least once

tree_vars == <<head, work, index>>
proposal_vars == <<base, paths, want, todo, touched>>
vars == <<tree_vars, proposal_vars, lock, pc, hand, crashed>>

Tree == [Pages -> SUBSET Marks]
Revision == [rev : Nat, tree : Tree]

\* The steps of commit() between its checks and its git commit, where it
\* relies on nothing else moving.
Window == {"checked", "placing", "staged"}
Holding == Window \cup {"begin", "writing", "locked", "landed", "refused",
                         "failing"}
Answered == {"busy", "moved", "dirty", "nothing", "blocked", "failed",
             "committed", "killed"}
PC == {"idle", "ready"} \cup Holding \cup Answered

-----------------------------------------------------------------------------
\* What git and commit() see.

\* Paths `git status` reports.
Stray == {p \in Pages : index[p] # head.tree[p] \/ work[p] # index[p]}

\* Paths with a staged change, which belong to whoever staged them.
Staged == {p \in Pages : index[p] # head.tree[p]}

Differing(w) == {p \in paths[w] : want[w][p] # base[w].tree[p]}

\* Mutant of Unowned: a path of ours is adopted whatever it holds.
UnownedByName(w) == {p \in Stray : p \notin paths[w]}

\* Mutant of Unowned: no debris is adopted.
UnownedAll(w) == {p \in Stray : p \in Pages}

\* A path that already holds the proposed bytes is our own debris.
Unowned(w) == {p \in Stray : p \notin paths[w] \/ work[p] # want[w][p]}

\* Tree t with the paths of S taken from tree u.
Overlay(t, S, u) == [p \in Pages |-> IF p \in S THEN u[p] ELSE t[p]]

\* `git checkout <rev> -- <paths>`, deleting those absent there.
Restore(S, t) == /\ work' = Overlay(work, S, t)
                 /\ index' = Overlay(index, S, t)
                 /\ UNCHANGED head

-----------------------------------------------------------------------------
\* The lock.

\* An act asks for the lock with its proposal, a stage before it does anything.
Asks(w) == pc[w] = IF w \in Operators THEN "ready" ELSE "idle"

\* single_flight succeeds.
Acquire(w) ==
    /\ lock = NoWriter
    /\ Asks(w)
    /\ lock' = w
    /\ pc' = [pc EXCEPT ![w] = IF w \in Operators THEN "locked" ELSE "begin"]
    /\ UNCHANGED <<tree_vars, proposal_vars, hand, crashed>>

\* Leave the lock with an answer.
Answer(w, a) == /\ lock' = NoWriter
                /\ pc' = [pc EXCEPT ![w] = a]

\* Mutant of LockBusy: the wait for the lock has no deadline.
WaitForever(w) ==
    /\ lock # NoWriter
    /\ Asks(w)
    /\ UNCHANGED vars

\* LockBusyError: the wait ran out while another writer held the lock.
LockBusy(w) ==
    /\ lock # NoWriter
    /\ Asks(w)
    /\ pc' = [pc EXCEPT ![w] = "busy"]
    /\ UNCHANGED <<tree_vars, proposal_vars, lock, hand, crashed>>

-----------------------------------------------------------------------------
\* An operator's act.

\* Preview at HEAD: the proposal adds the act's record to each of its pages.
\* A refused act is previewed again at the new HEAD.
Build(a) ==
    /\ pc[a] \in {"idle", "busy", "moved", "dirty", "blocked", "failed",
                  "killed"}
    /\ base' = [base EXCEPT ![a] = head]
    /\ paths' = [paths EXCEPT ![a] = Touches[a]]
    /\ want' = [want EXCEPT ![a] =
                  [p \in Pages |-> IF p \in Touches[a]
                                   THEN head.tree[p] \cup {a}
                                   ELSE head.tree[p]]]
    /\ pc' = [pc EXCEPT ![a] = "ready"]
    /\ UNCHANGED <<tree_vars, todo, touched, lock, hand, crashed>>

\* The identical retry: the echoed command line, with its --base and --at.
Retry(a) ==
    /\ pc[a] \in {"busy", "dirty", "blocked", "failed", "killed"}
    /\ pc' = [pc EXCEPT ![a] = "ready"]
    /\ UNCHANGED <<tree_vars, proposal_vars, lock, hand, crashed>>

-----------------------------------------------------------------------------
\* transaction.commit, one action per step that another actor can separate.

\* Mutant of Refuse: a stage that was refused leaves the lock at once.
RefuseAndLeave(w, a) == Answer(w, a)

\* A refusal, or an exception before step 6, writes nothing.  The act is
\* answered; a stage still has the agent's edits in the tree and goes on to
\* restore them.
Refuse(w, a) ==
    IF w \in Operators
    THEN Answer(w, a)
    ELSE /\ pc' = [pc EXCEPT ![w] = IF a \in {"moved", "dirty"}
                                    THEN "refused" ELSE "failing"]
         /\ UNCHANGED lock

\* HEAD is still the revision the proposal was built from.
AtBase(w) == head.rev = base[w].rev

\* Mutant of Check: no comparison of HEAD with the proposal's base.
CheckTreeOnly(w) ==
    /\ pc[w] = "locked"
    /\ \/ Unowned(w) # {} /\ Refuse(w, "dirty")
       \/ Unowned(w) = {} /\ Differing(w) = {} /\ Answer(w, "nothing")
       \/ /\ Unowned(w) = {} /\ Differing(w) # {}
          /\ pc' = [pc EXCEPT ![w] = "checked"]
          /\ UNCHANGED lock
    /\ UNCHANGED <<tree_vars, proposal_vars, hand, crashed>>

\* Steps 2 to 4: HEAD, then strays, then whether anything would change.
Check(w) ==
    /\ pc[w] = "locked"
    /\ \/ head.rev # base[w].rev /\ Refuse(w, "moved")
       \/ AtBase(w) /\ Unowned(w) # {} /\ Refuse(w, "dirty")
       \/ /\ AtBase(w) /\ Unowned(w) = {} /\ Differing(w) = {}
          /\ Answer(w, "nothing")
       \/ /\ AtBase(w) /\ Unowned(w) = {} /\ Differing(w) # {}
          /\ pc' = [pc EXCEPT ![w] = "checked"]
          /\ UNCHANGED lock
    /\ UNCHANGED <<tree_vars, proposal_vars, hand, crashed>>

\* Step 5, in a throwaway worktree: either verdict is possible, and so is a
\* git failure while the worktree is made.
Lint(w) ==
    /\ pc[w] = "checked"
    /\ \/ /\ \E a \in {"blocked", "failed"} : Refuse(w, a)
          /\ UNCHANGED todo
       \/ /\ pc' = [pc EXCEPT ![w] = "placing"]
          /\ todo' = [todo EXCEPT ![w] = Differing(w)]
          /\ UNCHANGED lock
    /\ UNCHANGED <<tree_vars, base, paths, want, touched, hand, crashed>>

\* Step 6: write one of the changed files.
Place(w) ==
    /\ pc[w] = "placing"
    /\ \E p \in todo[w] :
         /\ work' = [work EXCEPT ![p] = want[w][p]]
         /\ todo' = [todo EXCEPT ![w] = @ \ {p}]
    /\ UNCHANGED <<head, index, base, paths, want, touched, lock, pc, hand,
                   crashed>>

\* Step 7, `git add --all -- <changed>`.
GitAdd(w) ==
    /\ pc[w] = "placing"
    /\ todo[w] = {}
    /\ index' = Overlay(index, Differing(w), work)
    /\ pc' = [pc EXCEPT ![w] = "staged"]
    /\ UNCHANGED <<head, work, proposal_vars, lock, hand, crashed>>

\* Step 7, `git commit -- <changed>`: the working content of those paths on
\* top of whatever HEAD is by now.  Other index entries stay staged.
GitCommit(w) ==
    /\ pc[w] = "staged"
    /\ head' = [rev |-> head.rev + 1,
                tree |-> Overlay(head.tree, Differing(w), work)]
    /\ index' = Overlay(index, Differing(w), work)
    /\ pc' = [pc EXCEPT ![w] = "landed"]
    /\ UNCHANGED <<work, proposal_vars, lock, hand, crashed>>

\* Committed: the caller leaves the lock.
Done(w) ==
    /\ pc[w] = "landed"
    /\ Answer(w, "committed")
    /\ UNCHANGED <<tree_vars, proposal_vars, hand, crashed>>

\* Any failure of steps 6 and 7, an interrupt included: restore the
\* proposal's paths to its base and re-raise.  A timeout or an interrupt can
\* strike after git moved HEAD.
CommitFails(w) ==
    /\ \/ pc[w] \in {"placing", "staged"}
       \/ LateFailure /\ pc[w] = "landed"
    /\ Restore(paths[w], base[w].tree)
    /\ IF w \in Operators
       THEN Answer(w, "failed")
       ELSE pc' = [pc EXCEPT ![w] = "failing"] /\ UNCHANGED lock
    /\ UNCHANGED <<proposal_vars, hand, crashed>>

-----------------------------------------------------------------------------
\* A stage.

\* The pre-flight check, the digest commit (machine output only, so the
\* curated tree is the same) and the base the run will publish against.
Begin(s) ==
    /\ pc[s] = "begin"
    /\ IF Stray # {}
       THEN Answer(s, "dirty") /\ UNCHANGED <<head, base, touched>>
       ELSE \E digests \in {0, 1} :
              /\ head' = [rev |-> head.rev + digests, tree |-> head.tree]
              /\ base' = [base EXCEPT ![s] = head']
              /\ touched' = [touched EXCEPT ![s] = {}]
              /\ pc' = [pc EXCEPT ![s] = "writing"]
              /\ UNCHANGED lock
    /\ UNCHANGED <<work, index, paths, want, todo, hand, crashed>>

\* The agent writes a page of the checkout in place.
AgentWrites(s) ==
    /\ pc[s] = "writing"
    /\ \E p \in Pages \ touched[s] :
         /\ work' = [work EXCEPT ![p] = @ \cup {s}]
         /\ touched' = [touched EXCEPT ![s] = @ \cup {p}]
    /\ UNCHANGED <<head, index, base, paths, want, todo, lock, pc, hand,
                   crashed>>

\* The agent finished: capture every stray path as the proposal.
Capture(s) ==
    /\ pc[s] = "writing"
    /\ paths' = [paths EXCEPT ![s] = Stray]
    /\ want' = [want EXCEPT ![s] = Overlay(base[s].tree, Stray, work)]
    /\ pc' = [pc EXCEPT ![s] =
                IF Stray # {} /\ Stray \subseteq touched[s] \cup Shared
                THEN "locked"    \* _validate found nothing
                ELSE "failing"]  \* undeclared change, or no change at all
    /\ UNCHANGED <<tree_vars, base, todo, touched, lock, hand, crashed>>

\* The harness failed or timed out, or validation refused the result.
StageFails(s) ==
    /\ pc[s] \in {"writing", "locked"}
    /\ pc' = [pc EXCEPT ![s] = "failing"]
    /\ UNCHANGED <<tree_vars, proposal_vars, lock, hand, crashed>>

\* Mutant of Rollback: back to the base the run began with.
RollbackToBase(s) ==
    /\ pc[s] = "failing"
    /\ Restore(Stray \ Staged, base[s].tree)
    /\ Answer(s, "failed")
    /\ UNCHANGED <<proposal_vars, hand, crashed>>

\* Mutant of Rollback: staged paths are rolled back too.
RollbackAll(s) ==
    /\ pc[s] = "failing"
    /\ Restore(Stray, head.tree)
    /\ Answer(s, "failed")
    /\ UNCHANGED <<proposal_vars, hand, crashed>>

\* _rollback: everything stray but what somebody staged goes to HEAD as it
\* is now, which base need no longer be.
Rollback(s) ==
    /\ pc[s] = "failing"
    /\ Restore(Stray \ Staged, head.tree)
    /\ Answer(s, "failed")
    /\ UNCHANGED <<proposal_vars, hand, crashed>>

\* _refused: the same for the paths of a proposal commit() refused.
Refused(s) ==
    /\ pc[s] = "refused"
    /\ Restore(paths[s] \ Staged, head.tree)
    /\ Answer(s, "failed")
    /\ UNCHANGED <<proposal_vars, hand, crashed>>

-----------------------------------------------------------------------------
\* A kill: the flock dies with the process and the tree keeps what was
\* written.  One that lands inside a file's write leaves that file torn.
Kill(w) ==
    /\ lock = w
    /\ Answer(w, "killed")
    /\ crashed' = crashed \cup {w}
    /\ \/ UNCHANGED work
       \/ /\ pc[w] = "placing"
          /\ \E p \in todo[w] : work' = [work EXCEPT ![p] = {Torn}]
    /\ UNCHANGED <<head, index, proposal_vars, hand>>

-----------------------------------------------------------------------------
\* Hands in the checkout.  They take no lock; HandsRace = FALSE keeps them
\* out of the sub-second window of commit() only.

HandsMayAct == HandsRace \/ \A w \in Writers : pc[w] \notin Window

HandEdit(m) ==
    /\ HandsMayAct
    /\ hand[m] = NoPage
    /\ \E p \in Pages :
         /\ hand' = [hand EXCEPT ![m] = p]
         /\ work' = [work EXCEPT ![p] = @ \cup {m}]
    /\ UNCHANGED <<head, index, proposal_vars, lock, pc, crashed>>

\* What page p holds beyond HEAD.
Uncommitted(p) == work[p] \ head.tree[p]

HandStage(p) ==
    /\ HandsMayAct
    /\ Uncommitted(p) \cap HandMarks # {}
    /\ index[p] # work[p]
    /\ index' = [index EXCEPT ![p] = work[p]]
    /\ UNCHANGED <<head, work, proposal_vars, lock, pc, hand, crashed>>

\* A hand commits a page that holds hand edits only.
HandCommit(p) ==
    /\ HandsMayAct
    /\ Uncommitted(p) # {}
    /\ Uncommitted(p) \subseteq HandMarks
    /\ head.tree[p] \subseteq work[p]
    /\ head' = [rev |-> head.rev + 1,
                tree |-> [head.tree EXCEPT ![p] = work[p]]]
    /\ index' = [index EXCEPT ![p] = work[p]]
    /\ UNCHANGED <<work, proposal_vars, lock, pc, hand, crashed>>

\* The operator cleans up a page nothing is working on.
HandRestore(p) ==
    /\ lock = NoWriter
    /\ p \in Stray
    /\ Restore({p}, head.tree)
    /\ UNCHANGED <<proposal_vars, lock, pc, hand, crashed>>

-----------------------------------------------------------------------------
Init ==
    /\ head = [rev |-> 0, tree |-> [p \in Pages |-> {}]]
    /\ work = head.tree
    /\ index = head.tree
    /\ lock = NoWriter
    /\ pc = [w \in Writers |-> "idle"]
    /\ base = [w \in Writers |-> head]
    /\ paths = [w \in Writers |-> {}]
    /\ want = [w \in Writers |-> head.tree]
    /\ todo = [w \in Writers |-> {}]
    /\ touched = [w \in Writers |-> {}]
    /\ hand = [m \in HandMarks |-> NoPage]
    /\ crashed = {}

Commit(w) == \/ Check(w)
             \/ Lint(w)
             \/ Place(w)
             \/ GitAdd(w)
             \/ GitCommit(w)
             \/ Done(w)
             \/ CommitFails(w)

Act(a) == Build(a) \/ Retry(a)

Stage(s) == \/ Begin(s)
            \/ AgentWrites(s)
            \/ Capture(s)
            \/ StageFails(s)
            \/ Rollback(s)
            \/ Refused(s)

Hands == \/ \E m \in HandMarks : HandEdit(m)
         \/ \E p \in Pages : HandStage(p) \/ HandCommit(p) \/ HandRestore(p)

Next == \/ \E w \in Writers : Acquire(w) \/ LockBusy(w) \/ Commit(w) \/ Kill(w)
        \/ \E a \in Operators : Act(a)
        \/ \E s \in Stages : Stage(s)
        \/ Hands

Spec == Init /\ [][Next]_vars

\* A process that holds the lock keeps running until it answers or is killed.
Progress(w) == \/ Check(w) \/ Lint(w) \/ Place(w) \/ GitAdd(w)
               \/ GitCommit(w) \/ Done(w) \/ Begin(w) \/ Capture(w)
               \/ Rollback(w) \/ Refused(w)

FairSpec == /\ Spec
            /\ \A w \in Writers : /\ WF_vars(Progress(w))
                                  /\ WF_vars(Acquire(w) \/ LockBusy(w))
-----------------------------------------------------------------------------
(***************************************************************************)
(* Properties.                                                             *)
(***************************************************************************)

\* The variables have their types, and a writer is between taking and
\* leaving the lock exactly when it holds it (single_flight).
TypeOK ==
    /\ head \in Revision
    /\ work \in Tree
    /\ index \in Tree
    /\ lock \in Writers \cup {NoWriter}
    /\ pc \in [Writers -> PC]
    /\ base \in [Writers -> Revision]
    /\ paths \in [Writers -> SUBSET Pages]
    /\ want \in [Writers -> Tree]
    /\ todo \in [Writers -> SUBSET Pages]
    /\ touched \in [Writers -> SUBSET Pages]
    /\ hand \in [HandMarks -> Pages \cup {NoPage}]
    /\ crashed \in SUBSET Writers
    /\ \A w \in Writers : pc[w] \in Holding <=> lock = w

\* Every act and every run reaches HEAD whole, once, on top of everything
\* published before it (transaction.commit as a whole).
Published == INSTANCE PublishedWiki WITH tree <- head.tree
Implements == Published!Spec

\* No revision takes away what an earlier one published: the optimistic
\* check of commit() admits no lost update.
NoLostUpdate ==
    [][\A p \in Pages : head.tree[p] \subseteq head'.tree[p]]_vars

\* While an operator's act holds the lock, no uncommitted hand edit leaves
\* the checkout, whatever the outcome (TreeDirty, adoption, restore).
OperatorsSpareHands ==
    [][(lock \in Operators) =>
         \A p \in Pages : Uncommitted(p) \cap HandMarks \subseteq work'[p]]_vars

\* Rolling back a stage never discards what somebody staged during the run
\* (_rollback and _refused subtract staged_paths).
RollbackSparesStaged ==
    [][\A s \in Stages : pc[s] \in {"failing", "refused"} =>
         \A p \in Staged : index[p] \cap HandMarks \subseteq work'[p]]_vars

\* With nobody at work the checkout is never behind HEAD: no rollback left
\* the revert of a newer commit staged (_restore goes to HEAD as it is now).
NoStaleRevert ==
    lock = NoWriter =>
      \A p \in Pages : Torn \notin work[p] =>
        head.tree[p] \subseteq work[p] /\ head.tree[p] \subseteq index[p]

\* With nobody at work, whatever is uncommitted belongs to a hand or to a
\* writer that was killed: every other exit cleans up after itself, so the
\* next stage does not refuse on it.
NoOrphanDebris ==
    lock = NoWriter =>
      \A p \in Stray :
        \/ ((work[p] \cup index[p]) \cap HandMarks) \ head.tree[p] # {}
        \/ \E w \in crashed : p \in paths[w] \cup touched[w]

\* An act killed between its check and its commit is recognised by its own
\* retry: nothing it left makes the identical call refuse with TreeDirty,
\* unless the kill tore a file.
InterruptedRunIsAdopted ==
    \A a \in Operators :
      (/\ pc[a] = "killed"
       /\ lock = NoWriter
       /\ head.rev = base[a].rev
       /\ crashed = {a}
       /\ \A p \in Pages : /\ Torn \notin work[p]
                           /\ Uncommitted(p) \cap HandMarks = {})
      => Unowned(a) = {}

\* Whoever asks for the lock is answered: it is published, refused, told
\* the lock is busy, or was killed.
EveryWriterIsAnswered ==
    \A w \in Writers : (Asks(w) \/ pc[w] \in Holding) ~> pc[w] \in Answered
=============================================================================
