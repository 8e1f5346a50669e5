----------------------- MODULE WikiTransactionProofs -----------------------
(***************************************************************************)
(* Proofs about WikiTransaction, for any set of pages, acts, stages and    *)
(* hand edits.                                                             *)
(***************************************************************************)
EXTENDS WikiTransaction, TLAPS

\* The two halves of TypeOK: what the checkout and the proposals hold, and
\* who is at which step.
DataType == /\ head \in Revision
            /\ work \in Tree
            /\ index \in Tree
            /\ base \in [Writers -> Revision]
            /\ paths \in [Writers -> SUBSET Pages]
            /\ want \in [Writers -> Tree]
            /\ todo \in [Writers -> SUBSET Pages]
            /\ touched \in [Writers -> SUBSET Pages]
            /\ hand \in [HandMarks -> Pages \cup {NoPage}]
            /\ crashed \in SUBSET Writers

SingleFlight == /\ lock \in Writers \cup {NoWriter}
                /\ pc \in [Writers -> PC]
                /\ \A w \in Writers : pc[w] \in Holding <=> lock = w

\* What a revision is made of.
LEMMA RevisionType ==
    /\ \A r \in Revision : r.rev \in Nat /\ r.tree \in Tree
    /\ \A n \in Nat, t \in Tree : [rev |-> n, tree |-> t] \in Revision
  BY DEF Revision

\* Two trees overlaid are a tree.
LEMMA OverlayType ==
    ASSUME NEW t \in Tree, NEW u \in Tree, NEW S
    PROVE  Overlay(t, S, u) \in Tree
  BY DEF Overlay, Tree

\* Writing one page of a tree.
LEMMA PageType ==
    ASSUME NEW t \in Tree, NEW p \in Pages, NEW c \in SUBSET Marks
    PROVE  [t EXCEPT ![p] = c] \in Tree
  BY DEF Tree

\* What a page holds.
LEMMA ContentType ==
    ASSUME NEW t \in Tree, NEW p \in Pages
    PROVE  t[p] \in SUBSET Marks
  BY DEF Tree

\* Restoring paths keeps the checkout well typed.
LEMMA RestoreType ==
    ASSUME DataType, NEW S, NEW t \in Tree, Restore(S, t), UNCHANGED proposal_vars,
           UNCHANGED hand, crashed' \in SUBSET Writers
    PROVE  DataType'
  <1>1. Overlay(work, S, t) \in Tree /\ Overlay(index, S, t) \in Tree
    BY OverlayType DEF DataType
  <1> QED BY <1>1 DEF DataType, Restore, proposal_vars

\* Nothing but the lock and the writers' steps moved.
LEMMA SameData ==
    ASSUME DataType, UNCHANGED <<tree_vars, proposal_vars, hand>>,
           crashed' \in SUBSET Writers
    PROVE  DataType'
  BY DEF DataType, tree_vars, proposal_vars

\* Leaving the lock with an answer keeps single flight.
LEMMA AnswerType ==
    ASSUME SingleFlight, NEW w \in Writers, lock = w, NEW a \in Answered,
           Answer(w, a)
    PROVE  SingleFlight'
  <1>1. a \in PC /\ a \notin Holding
    BY DEF Answered, PC, Holding, Window
  <1> QED BY <1>1, WriterAssumption DEF SingleFlight, Answer

\* So does a step between two places inside the lock.
LEMMA StepType ==
    ASSUME SingleFlight, NEW w \in Writers, lock = w, NEW a \in Holding,
           pc' = [pc EXCEPT ![w] = a], UNCHANGED lock
    PROVE  SingleFlight'
  BY DEF SingleFlight, PC

\* So does a step between two places outside it.
LEMMA OutsideType ==
    ASSUME SingleFlight, NEW w \in Writers, pc[w] \notin Holding,
           NEW a \in PC \ Holding, pc' = [pc EXCEPT ![w] = a], UNCHANGED lock
    PROVE  SingleFlight'
  BY DEF SingleFlight, PC

\* The writer at a step inside the lock is the one that holds it.
LEMMA HolderIs ==
    ASSUME SingleFlight, NEW w \in Writers, pc[w] \in Holding
    PROVE  lock = w
  BY DEF SingleFlight

\* A refusal either answers or keeps the lock for the stage's restore.
LEMMA RefuseType ==
    ASSUME SingleFlight, NEW w \in Writers, lock = w,
           NEW a \in {"moved", "dirty", "blocked", "failed"}, Refuse(w, a)
    PROVE  SingleFlight'
  <1>1. CASE w \in Operators
    <2>1. a \in Answered
      BY DEF Answered
    <2> QED BY <1>1, <2>1, AnswerType DEF Refuse
  <1>2. CASE w \notin Operators
    <2>1. (IF a \in {"moved", "dirty"} THEN "refused" ELSE "failing") \in Holding
      BY DEF Holding
    <2> QED BY <1>2, <2>1, StepType DEF Refuse
  <1> QED BY <1>1, <1>2

-----------------------------------------------------------------------------
\* The initial state is well typed, and nobody holds the lock in it.
LEMMA TypeInit == Init => TypeOK
  <1> SUFFICES ASSUME Init PROVE TypeOK
    OBVIOUS
  <1>1. head.tree \in Tree /\ head \in Revision
    BY DEF Init, Tree, Revision
  <1>2. \A w \in Writers : pc[w] \in Holding <=> lock = w
    BY WriterAssumption DEF Init, Holding, Window
  <1> QED BY <1>1, <1>2 DEF Init, TypeOK, PC, Answered

\* The lock and an act's preparation keep both halves.
LEMMA EntryStep ==
    ASSUME DataType, SingleFlight, NEW w \in Writers,
           \/ Acquire(w)
           \/ LockBusy(w)
           \/ w \in Operators /\ Act(w)
    PROVE  DataType' /\ SingleFlight'
  <1>1. CASE Acquire(w)
    <2>1. (IF w \in Operators THEN "locked" ELSE "begin") \in Holding
      BY DEF Holding
    <2>2. SingleFlight'
      BY <1>1, <2>1, WriterAssumption DEF Acquire, SingleFlight, PC
    <2> QED BY <1>1, <2>2, SameData DEF Acquire, DataType
  <1>2. CASE LockBusy(w)
    <2>1. pc[w] \notin Holding /\ "busy" \in PC \ Holding
      BY <1>2 DEF LockBusy, Asks, Holding, Window, PC, Answered
    <2>2. SingleFlight'
      BY <1>2, <2>1, OutsideType DEF LockBusy
    <2> QED BY <1>2, <2>2, SameData DEF LockBusy, DataType
  <1>3. CASE w \in Operators /\ Build(w)
    <2>1. pc[w] \notin Holding /\ "ready" \in PC \ Holding
      BY <1>3 DEF Build, Holding, Window, PC
    <2>2. SingleFlight'
      BY <1>3, <2>1, OutsideType DEF Build
    <2>3. Touches[w] \in SUBSET Pages
      BY <1>3, PageAssumption
    <2>4. [p \in Pages |-> IF p \in Touches[w] THEN head.tree[p] \cup {w}
                           ELSE head.tree[p]] \in Tree
      BY <1>3, RevisionType DEF DataType, Tree, Marks, Writers
    <2>5. DataType'
      BY <1>3, <2>3, <2>4 DEF Build, DataType, tree_vars
    <2> QED BY <2>2, <2>5
  <1>4. CASE w \in Operators /\ Retry(w)
    <2>1. pc[w] \notin Holding /\ "ready" \in PC \ Holding
      BY <1>4 DEF Retry, Holding, Window, PC
    <2>2. SingleFlight'
      BY <1>4, <2>1, OutsideType DEF Retry
    <2> QED BY <1>4, <2>2, SameData DEF Retry, DataType
  <1> QED BY <1>1, <1>2, <1>3, <1>4 DEF Act

\* The steps of transaction.commit keep both halves.
LEMMA CommitStep ==
    ASSUME DataType, SingleFlight, NEW w \in Writers, Commit(w)
    PROVE  DataType' /\ SingleFlight'
  <1>1. CASE Check(w)
    <2>1. lock = w
      BY <1>1, HolderIs DEF Check, Holding
    <2>2. ASSUME \E a \in {"moved", "dirty"} : Refuse(w, a)
         PROVE  SingleFlight'
      BY <2>1, <2>2, RefuseType
    <2>3. ASSUME Answer(w, "nothing")
         PROVE  SingleFlight'
      BY <2>1, <2>3, AnswerType DEF Answered
    <2>4. ASSUME pc' = [pc EXCEPT ![w] = "checked"] /\ UNCHANGED lock
         PROVE  SingleFlight'
      BY <2>1, <2>4, StepType DEF Holding, Window
    <2>5. SingleFlight'
      BY <1>1, <2>2, <2>3, <2>4 DEF Check
    <2> QED BY <1>1, <2>5, SameData DEF Check, DataType
  <1>2. CASE Lint(w)
    <2>1. lock = w
      BY <1>2, HolderIs DEF Lint, Holding, Window
    <2>2. ASSUME \E a \in {"blocked", "failed"} : Refuse(w, a)
         PROVE  SingleFlight'
      BY <2>1, <2>2, RefuseType
    <2>3. ASSUME pc' = [pc EXCEPT ![w] = "placing"] /\ UNCHANGED lock
         PROVE  SingleFlight'
      BY <2>1, <2>3, StepType DEF Holding, Window
    <2>4. SingleFlight'
      BY <1>2, <2>2, <2>3 DEF Lint
    <2>5. Differing(w) \in SUBSET Pages
      BY DEF Differing, DataType
    <2>6. DataType'
      BY <1>2, <2>5 DEF Lint, DataType, tree_vars
    <2> QED BY <2>4, <2>6
  <1>3. CASE Place(w)
    <2>1. PICK p \in todo[w] : /\ work' = [work EXCEPT ![p] = want[w][p]]
                               /\ todo' = [todo EXCEPT ![w] = @ \ {p}]
      BY <1>3 DEF Place
    <2>2. p \in Pages /\ want[w] \in Tree
      BY DEF DataType
    <2>3. work' \in Tree
      BY <2>1, <2>2, PageType, ContentType DEF DataType
    <2>4. DataType'
      BY <1>3, <2>1, <2>3 DEF Place, DataType
    <2> QED BY <1>3, <2>4 DEF Place, SingleFlight
  <1>4. CASE GitAdd(w)
    <2>1. lock = w
      BY <1>4, HolderIs DEF GitAdd, Holding, Window
    <2>2. SingleFlight'
      BY <1>4, <2>1, StepType DEF GitAdd, Holding, Window
    <2>3. index' \in Tree
      BY <1>4, OverlayType DEF GitAdd, DataType
    <2> QED BY <1>4, <2>2, <2>3 DEF GitAdd, DataType, proposal_vars
  <1>5. CASE GitCommit(w)
    <2>1. lock = w
      BY <1>5, HolderIs DEF GitCommit, Holding, Window
    <2>2. SingleFlight'
      BY <1>5, <2>1, StepType DEF GitCommit, Holding
    <2>3. index' \in Tree
      BY <1>5, OverlayType DEF GitCommit, DataType
    <2>4. head' \in Revision
      BY <1>5, OverlayType, RevisionType DEF GitCommit, DataType
    <2> QED BY <1>5, <2>2, <2>3, <2>4 DEF GitCommit, DataType, proposal_vars
  <1>6. CASE Done(w)
    <2>1. SingleFlight'
      BY <1>6, HolderIs, AnswerType DEF Done, Holding, Answered
    <2> QED BY <1>6, <2>1, SameData DEF Done, DataType
  <1>7. CASE CommitFails(w)
    <2>1. lock = w
      BY <1>7, HolderIs DEF CommitFails, Holding, Window
    <2>2. ASSUME Answer(w, "failed")
         PROVE  SingleFlight'
      BY <2>1, <2>2, AnswerType DEF Answered
    <2>3. ASSUME pc' = [pc EXCEPT ![w] = "failing"] /\ UNCHANGED lock
         PROVE  SingleFlight'
      BY <2>1, <2>3, StepType DEF Holding
    <2>4. SingleFlight'
      BY <1>7, <2>2, <2>3 DEF CommitFails
    <2>5. base[w].tree \in Tree
      BY RevisionType DEF DataType
    <2>6. DataType'
      BY <1>7, <2>5, RestoreType DEF CommitFails, DataType
    <2> QED BY <2>4, <2>6
  <1> QED BY <1>1, <1>2, <1>3, <1>4, <1>5, <1>6, <1>7 DEF Commit

\* The steps of a stage keep both halves.
LEMMA StageStep ==
    ASSUME DataType, SingleFlight, NEW s \in Stages, Stage(s)
    PROVE  DataType' /\ SingleFlight'
  <1> DEFINE Moves(a) == pc' = [pc EXCEPT ![s] = a] /\ UNCHANGED lock
  <1>w. s \in Writers
    BY DEF Writers
  <1>m. ASSUME lock = s, NEW a \in {"writing", "locked", "failing"}, Moves(a)
        PROVE  SingleFlight'
    <2>1. a \in Holding
      BY DEF Holding
    <2> QED BY <1>w, <1>m, <2>1, StepType
  <1>f. ASSUME lock = s, NEW a \in {"dirty", "failed"}, Answer(s, a)
        PROVE  SingleFlight'
    <2>1. a \in Answered
      BY DEF Answered
    <2> QED BY <1>w, <1>f, <2>1, AnswerType
  <1>1. CASE Begin(s)
    <2>1. lock = s
      BY <1>w, <1>1, HolderIs DEF Begin, Holding
    <2>2. CASE Stray # {}
      <3>1. UNCHANGED <<tree_vars, proposal_vars, hand>> /\ Answer(s, "dirty")
        BY <1>1, <2>2 DEF Begin, tree_vars, proposal_vars
      <3> QED BY <1>1, <1>f, <2>1, <3>1, SameData DEF Begin, DataType
    <2>3. CASE Stray = {}
      <3>1. PICK n \in {0, 1} : head' = [rev |-> head.rev + n, tree |-> head.tree]
        BY <1>1, <2>3 DEF Begin
      <3>2. head' \in Revision
        BY <3>1 DEF DataType, Revision
      <3>3. Moves("writing")
        BY <1>1, <2>3 DEF Begin
      <3>4. SingleFlight'
        BY <1>m, <2>1, <3>3
      <3>5. DataType'
        BY <1>w, <1>1, <2>3, <3>2 DEF Begin, DataType
      <3> QED BY <3>4, <3>5
    <2> QED BY <2>2, <2>3
  <1>2. CASE AgentWrites(s)
    <2>1. PICK p \in Pages \ touched[s] :
            /\ work' = [work EXCEPT ![p] = @ \cup {s}]
            /\ touched' = [touched EXCEPT ![s] = @ \cup {p}]
      BY <1>2 DEF AgentWrites
    <2>2. work[p] \cup {s} \in SUBSET Marks
      BY <1>w, ContentType DEF DataType, Marks
    <2>3. work' = [work EXCEPT ![p] = work[p] \cup {s}]
      BY <2>1
    <2>4. work' \in Tree
      BY <2>2, <2>3, PageType DEF DataType
    <2>5. touched' \in [Writers -> SUBSET Pages]
      BY <2>1 DEF DataType
    <2> QED BY <1>2, <2>4, <2>5 DEF AgentWrites, DataType, SingleFlight
  <1>3. CASE Capture(s)
    <2>1. lock = s
      BY <1>w, <1>3, HolderIs DEF Capture, Holding
    <2>2. \E a \in {"locked", "failing"} : Moves(a)
      BY <1>3 DEF Capture
    <2>3. SingleFlight'
      BY <1>m, <2>1, <2>2
    <2>4. Overlay(base[s].tree, Stray, work) \in Tree
      BY <1>w, OverlayType, RevisionType DEF DataType
    <2>5. Stray \in SUBSET Pages
      BY DEF Stray
    <2>6. DataType'
      BY <1>w, <1>3, <2>4, <2>5 DEF Capture, DataType, tree_vars
    <2> QED BY <2>3, <2>6
  <1>4. CASE StageFails(s)
    <2>1. lock = s
      BY <1>w, <1>4, HolderIs DEF StageFails, Holding
    <2>2. Moves("failing")
      BY <1>4 DEF StageFails
    <2> QED BY <1>m, <1>4, <2>1, <2>2, SameData DEF StageFails, DataType
  <1>5. CASE Rollback(s) \/ Refused(s)
    <2>1. lock = s
      BY <1>w, <1>5, HolderIs DEF Rollback, Refused, Holding
    <2>2. head.tree \in Tree
      BY RevisionType DEF DataType
    <2>3. PICK S : Restore(S, head.tree)
      BY <1>5 DEF Rollback, Refused
    <2>4. Answer(s, "failed")
      BY <1>5 DEF Rollback, Refused
    <2>5. SingleFlight'
      BY <1>f, <2>1, <2>4
    <2>6. DataType'
      BY <1>5, <2>2, <2>3, RestoreType DEF Rollback, Refused, DataType
    <2> QED BY <2>5, <2>6
  <1> QED BY <1>1, <1>2, <1>3, <1>4, <1>5 DEF Stage

\* A kill keeps both halves.
LEMMA KillStep ==
    ASSUME DataType, SingleFlight, NEW w \in Writers, Kill(w)
    PROVE  DataType' /\ SingleFlight'
  <1>1. SingleFlight'
    BY AnswerType DEF Kill, Answered
  <1>2. work' \in Tree
    <2>1. ASSUME NEW p \in todo[w], work' = [work EXCEPT ![p] = {Torn}]
          PROVE  work' \in Tree
      BY <2>1, PageType DEF DataType, Marks
    <2> QED BY <2>1 DEF Kill, DataType
  <1> QED BY <1>1, <1>2 DEF Kill, DataType, proposal_vars

\* Hands keep both halves.
LEMMA HandStep ==
    ASSUME DataType, SingleFlight, Hands
    PROVE  DataType' /\ SingleFlight'
  <1>1. ASSUME NEW m \in HandMarks, HandEdit(m) PROVE DataType' /\ SingleFlight'
    <2>1. PICK p \in Pages : /\ hand' = [hand EXCEPT ![m] = p]
                             /\ work' = [work EXCEPT ![p] = @ \cup {m}]
      BY <1>1 DEF HandEdit
    <2>2. work[p] \cup {m} \in SUBSET Marks
      BY ContentType DEF DataType, Marks
    <2>3. work' = [work EXCEPT ![p] = work[p] \cup {m}]
      BY <2>1
    <2>4. work' \in Tree
      BY <2>2, <2>3, PageType DEF DataType
    <2> QED BY <1>1, <2>1, <2>4
            DEF HandEdit, DataType, SingleFlight, proposal_vars
  <1>2. ASSUME NEW p \in Pages, HandStage(p) PROVE DataType' /\ SingleFlight'
    <2>1. index' \in Tree
      BY <1>2, PageType, ContentType DEF HandStage, DataType
    <2> QED BY <1>2, <2>1 DEF HandStage, DataType, SingleFlight, proposal_vars
  <1>3. ASSUME NEW p \in Pages, HandCommit(p) PROVE DataType' /\ SingleFlight'
    <2>1. work[p] \in SUBSET Marks
      BY ContentType DEF DataType
    <2>2. index' \in Tree
      BY <1>3, <2>1, PageType DEF HandCommit, DataType
    <2>3. [head.tree EXCEPT ![p] = work[p]] \in Tree
      BY <2>1, PageType, RevisionType DEF DataType
    <2>4. head.rev + 1 \in Nat
      BY RevisionType DEF DataType
    <2>5. head' \in Revision
      BY <1>3, <2>3, <2>4, RevisionType DEF HandCommit
    <2> QED BY <1>3, <2>2, <2>5
            DEF HandCommit, DataType, SingleFlight, proposal_vars
  <1>4. ASSUME NEW p \in Pages, HandRestore(p) PROVE DataType' /\ SingleFlight'
    <2>1. DataType'
      BY <1>4, RestoreType, RevisionType DEF HandRestore, DataType
    <2> QED BY <1>4, <2>1 DEF HandRestore, SingleFlight
  <1> QED BY <1>1, <1>2, <1>3, <1>4 DEF Hands

LEMMA TypeStep == TypeOK /\ [Next]_vars => TypeOK'
  <1> SUFFICES ASSUME DataType, SingleFlight, [Next]_vars
               PROVE  DataType' /\ SingleFlight'
    BY DEF TypeOK, DataType, SingleFlight
  <1>1. CASE UNCHANGED vars
    BY <1>1, SameData
       DEF vars, tree_vars, proposal_vars, DataType, SingleFlight
  <1>2. ASSUME NEW w \in Writers, Acquire(w) \/ LockBusy(w) \/ Commit(w) \/ Kill(w)
        PROVE  DataType' /\ SingleFlight'
    BY <1>2, EntryStep, CommitStep, KillStep
  <1>3. ASSUME NEW a \in Operators, Act(a) PROVE DataType' /\ SingleFlight'
    BY <1>3, EntryStep DEF Writers
  <1> QED BY <1>1, <1>2, <1>3, StageStep, HandStep DEF Next

\* Whatever the writers and the hands do, and wherever a writer is killed,
\* the state keeps its types and a writer is inside the lock's body exactly
\* when it holds the flock (lock.single_flight).
THEOREM TypeCorrect == Spec => []TypeOK
  <1>1. Init => TypeOK
    BY TypeInit
  <1>2. TypeOK /\ [Next]_vars => TypeOK'
    BY TypeStep
  <1> QED BY <1>1, <1>2, PTL DEF Spec

-----------------------------------------------------------------------------
(***************************************************************************)
(* WikiTransaction implements PublishedWiki when hands keep out of         *)
(* commit()'s check-to-commit window.  The invariant says why a commit     *)
(* writes what it was proposed, on top of what is published: HEAD is still *)
(* the proposal's base, and the pages that change hold what the proposal   *)
(* wants by the time git reads them.                                       *)
(***************************************************************************)

\* Revision numbers name revisions: a base that is not behind HEAD is HEAD.
BaseIsPast ==
    \A w \in Writers : /\ base[w].rev <= head.rev
                       /\ base[w].rev = head.rev => base[w] = head

\* From its checks to its git commit a writer has HEAD where it expects it,
\* and something to publish.
WindowAtBase ==
    \A w \in Writers : pc[w] \in Window => base[w] = head /\ Differing(w) # {}

\* What an act proposes: its base, with its record on the pages it touches.
ActProposal ==
    \A a \in Operators : pc[a] # "idle" =>
      /\ paths[a] = Touches[a]
      /\ want[a] = [p \in Pages |-> IF p \in Touches[a]
                                    THEN base[a].tree[p] \cup {a}
                                    ELSE base[a].tree[p]]

\* The pages commit() wrote so far hold what the proposal wants.
PlacedPages ==
    \A w \in Writers :
      /\ pc[w] = "placing" => \A p \in Differing(w) \ todo[w] : work[p] = want[w][p]
      /\ pc[w] = "staged" => \A p \in Differing(w) : work[p] = want[w][p]

\* c is page p at base plus what the stage and hands may have added.
RunContent(s, p, c) == /\ base[s].tree[p] \subseteq c
                       /\ c \subseteq base[s].tree[p] \cup {s} \cup HandMarks

\* While a stage runs, the checkout holds its base plus its own and hand
\* edits, and so does what it captured.
StageContent ==
    \A s \in Stages : \A p \in Pages :
      /\ pc[s] \in {"writing", "locked"} \cup Window => RunContent(s, p, work[p])
      /\ pc[s] \in {"locked"} \cup Window => RunContent(s, p, want[s][p])

\* An act is at HEAD on all of its pages or on none.
WholeActs ==
    \A a \in Operators : \/ \A p \in Touches[a] : a \in head.tree[p]
                         \/ \A p \in Pages : a \notin head.tree[p]

\* A stage that did not commit yet is not at HEAD.
Before == {"idle", "begin", "writing", "locked"} \cup Window

StagesOnce ==
    \A s \in Stages : pc[s] \in Before => \A p \in Pages : s \notin head.tree[p]

PublishInv == /\ TypeOK
              /\ BaseIsPast
              /\ WindowAtBase
              /\ ActProposal
              /\ PlacedPages
              /\ StageContent
              /\ WholeActs
              /\ StagesOnce

\* Only the writer inside the lock is bound by what holds inside it.
LEMMA OthersAreOutside ==
    ASSUME SingleFlight, NEW w \in Writers, lock = w
    PROVE  \A v \in Writers : v # w =>
             pc[v] \notin {"begin", "writing", "locked"} \cup Window
  BY DEF SingleFlight, Holding

\* While HEAD and the proposals stay, so do the facts about them alone.
LEMMA SameHead ==
    ASSUME PublishInv, UNCHANGED <<head, base, paths, want>>,
           \A a \in Operators : pc'[a] # "idle" => pc[a] # "idle",
           \A s \in Stages : pc'[s] \in Before => pc[s] \in Before
    PROVE  /\ BaseIsPast' /\ ActProposal' /\ WholeActs' /\ StagesOnce'
           /\ \A w \in Writers : Differing(w)' = Differing(w)
           /\ \A s \in Stages, p \in Pages, c \in SUBSET Marks :
                RunContent(s, p, c)' <=> RunContent(s, p, c)
  <1>1. BaseIsPast'
    BY DEF PublishInv, BaseIsPast
  <1>2. ActProposal'
    BY DEF PublishInv, ActProposal
  <1>3. WholeActs'
    BY DEF PublishInv, WholeActs
  <1>4. StagesOnce'
    BY DEF PublishInv, StagesOnce
  <1>5. \A w \in Writers : Differing(w)' = Differing(w)
    BY DEF Differing
  <1>6. \A s \in Stages, p \in Pages, c \in SUBSET Marks :
          RunContent(s, p, c)' <=> RunContent(s, p, c)
    BY DEF RunContent
  <1> QED BY <1>1, <1>2, <1>3, <1>4, <1>5, <1>6

\* A writer answers, or moves to a step where it owes nothing.
LEMMA QuietStep ==
    ASSUME PublishInv, TypeOK',
           UNCHANGED <<head, work, base, paths, want, todo>>,
           NEW w \in Writers, NEW a, pc' = [pc EXCEPT ![w] = a],
           a \notin Window,
           w \in Stages => a \notin {"idle", "writing", "locked"},
           w \in Stages /\ a = "begin" => pc[w] = "idle",
           w \in Operators => pc[w] # "idle"
    PROVE  PublishInv'
  <1>1. \A v \in Writers : v # w => pc'[v] = pc[v]
    BY DEF PublishInv, TypeOK
  <1>2. pc'[w] = a
    BY DEF PublishInv, TypeOK
  <1>3. \A v \in Operators : pc'[v] # "idle" => pc[v] # "idle"
    BY <1>1, <1>2 DEF Writers
  <1>4. \A s \in Stages : pc'[s] \in Before => pc[s] \in Before
    BY <1>1, <1>2 DEF Writers, Before
  <1>5. /\ BaseIsPast' /\ ActProposal' /\ WholeActs' /\ StagesOnce'
        /\ \A v \in Writers : Differing(v)' = Differing(v)
    BY <1>3, <1>4, SameHead
  <1>6. WindowAtBase'
    BY <1>1, <1>2, <1>5 DEF PublishInv, WindowAtBase
  <1>7. PlacedPages'
    BY <1>1, <1>2, <1>5 DEF PublishInv, PlacedPages, Window
  <1>8. StageContent'
    BY <1>1, <1>2 DEF PublishInv, StageContent, RunContent, Writers
  <1> QED BY <1>5, <1>6, <1>7, <1>8 DEF PublishInv

\* Steps that move a writer and nothing a proposal depends on.
LEMMA EntryInv ==
    ASSUME PublishInv, TypeOK', NEW w \in Writers,
           Acquire(w) \/ LockBusy(w) \/ (w \in Operators /\ Retry(w))
    PROVE  PublishInv'
  <1> USE DEF tree_vars, proposal_vars
  <1>1. CASE Acquire(w)
    <2>1. w \in Operators => pc[w] # "idle"
      BY <1>1 DEF Acquire, Asks
    <2>2. w \in Stages => w \notin Operators
      BY WriterAssumption
    <2> DEFINE a == IF w \in Operators THEN "locked" ELSE "begin"
    <2>3. pc' = [pc EXCEPT ![w] = a] /\ (w \in Stages => pc[w] = "idle")
      BY <1>1, <2>2 DEF Acquire, Asks
    <2>4. a \notin Window /\ (w \in Stages => a = "begin")
      BY <2>2 DEF Window
    <2> QED BY <1>1, <2>1, <2>3, <2>4, QuietStep DEF Acquire
  <1>2. CASE LockBusy(w)
    <2>1. w \in Operators => pc[w] # "idle"
      BY <1>2 DEF LockBusy, Asks
    <2> QED BY <1>2, <2>1, QuietStep DEF LockBusy, Window
  <1>3. CASE w \in Operators /\ Retry(w)
    <2>1. pc[w] # "idle" /\ w \notin Stages
      BY <1>3, WriterAssumption DEF Retry
    <2> QED BY <1>3, <2>1, QuietStep DEF Retry, Window
  <1> QED BY <1>1, <1>2, <1>3

\* A new proposal: an act previewed at HEAD.
LEMMA BuildInv ==
    ASSUME PublishInv, TypeOK', NEW a \in Operators, Build(a)
    PROVE  PublishInv'
  <1>1. a \in Writers /\ a \notin Stages
    BY WriterAssumption DEF Writers
  <1>2. \A v \in Writers : v # a =>
          /\ pc'[v] = pc[v] /\ base'[v] = base[v] /\ paths'[v] = paths[v]
          /\ want'[v] = want[v] /\ Differing(v)' = Differing(v)
    BY DEF Build, PublishInv, TypeOK, Differing
  <1>3. /\ pc'[a] = "ready" /\ base'[a] = head /\ paths'[a] = Touches[a]
        /\ want'[a] = [p \in Pages |-> IF p \in Touches[a]
                                       THEN head.tree[p] \cup {a}
                                       ELSE head.tree[p]]
    BY <1>1 DEF Build, PublishInv, TypeOK
  <1>4. head' = head /\ work' = work /\ todo' = todo
    BY DEF Build, tree_vars
  <1>5. BaseIsPast'
    <2>1. head.rev <= head.rev
      BY RevisionType DEF PublishInv, TypeOK
    <2> QED BY <1>2, <1>3, <1>4, <2>1 DEF PublishInv, BaseIsPast
  <1>6. WindowAtBase'
    BY <1>2, <1>3, <1>4 DEF PublishInv, WindowAtBase, Window
  <1>7. ActProposal'
    <2> SUFFICES ASSUME NEW v \in Operators, pc'[v] # "idle"
                 PROVE  /\ paths'[v] = Touches[v]
                        /\ want'[v] = [p \in Pages |->
                                         IF p \in Touches[v]
                                         THEN base'[v].tree[p] \cup {v}
                                         ELSE base'[v].tree[p]]
      BY DEF ActProposal
    <2>1. CASE v = a
      BY <1>3, <2>1
    <2>2. CASE v # a
      BY <1>2, <2>2 DEF PublishInv, ActProposal, Writers
    <2> QED BY <2>1, <2>2
  <1>8. PlacedPages'
    BY <1>2, <1>3, <1>4 DEF PublishInv, PlacedPages
  <1>9. StageContent'
    BY <1>1, <1>2, <1>4 DEF PublishInv, StageContent, RunContent, Writers
  <1>10. WholeActs'
    BY <1>4 DEF PublishInv, WholeActs
  <1>11. StagesOnce'
    BY <1>1, <1>2, <1>4 DEF PublishInv, StagesOnce, Writers
  <1> QED BY <1>5, <1>6, <1>7, <1>8, <1>9, <1>10, <1>11 DEF PublishInv

\* The checks of commit(): past them, HEAD is the base.
LEMMA CheckInv ==
    ASSUME PublishInv, TypeOK', NEW w \in Writers, Check(w)
    PROVE  PublishInv'
  <1> USE DEF tree_vars, proposal_vars
  <1>1. pc[w] = "locked"
    BY DEF Check
  <1>2. ASSUME NEW a \in {"moved", "dirty", "nothing", "refused", "failing"},
               pc' = [pc EXCEPT ![w] = a]
        PROVE  PublishInv'
    <2>1. a \notin Window /\ a \notin {"idle", "begin", "writing", "locked"}
      BY DEF Window
    <2>2. UNCHANGED <<head, work, base, paths, want, todo>>
      BY DEF Check
    <2>3. pc[w] # "idle"
      BY <1>1
    <2> QED BY <1>2, <2>1, <2>2, <2>3, QuietStep
  <1>3. ASSUME pc' = [pc EXCEPT ![w] = "checked"], AtBase(w), Differing(w) # {}
        PROVE  PublishInv'
    <2>1. /\ pc'[w] = "checked"
          /\ \A v \in Writers : v # w => pc'[v] = pc[v]
      BY <1>3 DEF PublishInv, TypeOK
    <2>2. UNCHANGED <<head, work, base, paths, want, todo>>
      BY DEF Check
    <2>3. /\ \A v \in Operators : pc'[v] # "idle" => pc[v] # "idle"
          /\ \A s \in Stages : pc'[s] \in Before => pc[s] \in Before
      BY <1>1, <2>1 DEF Before, Writers
    <2>4. /\ BaseIsPast' /\ ActProposal' /\ WholeActs' /\ StagesOnce'
          /\ \A v \in Writers : Differing(v)' = Differing(v)
      BY <2>2, <2>3, SameHead
    <2>5. base[w] = head
      BY <1>3 DEF AtBase, PublishInv, BaseIsPast
    <2>6. WindowAtBase'
      BY <1>3, <2>1, <2>2, <2>4, <2>5 DEF PublishInv, WindowAtBase
    <2>7. PlacedPages'
      BY <2>1, <2>2, <2>4 DEF PublishInv, PlacedPages
    <2>8. StageContent'
      BY <1>1, <2>1, <2>2 DEF PublishInv, StageContent, RunContent, Writers, Window
    <2> QED BY <2>4, <2>6, <2>7, <2>8 DEF PublishInv
  <1>4. CASE \E a \in {"moved", "dirty"} : Refuse(w, a)
    BY <1>2, <1>4 DEF Refuse, Answer
  <1>5. CASE Answer(w, "nothing")
    BY <1>2, <1>5 DEF Answer
  <1> QED BY <1>3, <1>4, <1>5 DEF Check

\* A clean lint verdict opens the placing; a finding or a failure leaves.
LEMMA LintInv ==
    ASSUME PublishInv, TypeOK', NEW w \in Writers, Lint(w)
    PROVE  PublishInv'
  <1>1. pc[w] = "checked" /\ UNCHANGED <<head, work, base, paths, want>>
    BY DEF Lint, tree_vars
  <1>2. ASSUME NEW a \in {"blocked", "failed", "refused", "failing"},
               pc' = [pc EXCEPT ![w] = a], UNCHANGED todo
        PROVE  PublishInv'
    <2>1. a \notin Window /\ a \notin {"idle", "begin", "writing", "locked"}
      BY DEF Window
    <2> QED BY <1>1, <1>2, <2>1, QuietStep
  <1>3. CASE /\ \E a \in {"blocked", "failed"} : Refuse(w, a)
             /\ UNCHANGED todo
    BY <1>2, <1>3 DEF Refuse, Answer
  <1>4. CASE /\ pc' = [pc EXCEPT ![w] = "placing"]
             /\ todo' = [todo EXCEPT ![w] = Differing(w)]
    <2>1. /\ pc'[w] = "placing" /\ todo'[w] = Differing(w)
          /\ \A v \in Writers : v # w => pc'[v] = pc[v] /\ todo'[v] = todo[v]
      BY <1>4 DEF PublishInv, TypeOK
    <2>2. /\ \A v \in Operators : pc'[v] # "idle" => pc[v] # "idle"
          /\ \A s \in Stages : pc'[s] \in Before => pc[s] \in Before
      BY <1>1, <2>1 DEF Before, Window, Writers
    <2>3. /\ BaseIsPast' /\ ActProposal' /\ WholeActs' /\ StagesOnce'
          /\ \A v \in Writers : Differing(v)' = Differing(v)
      BY <1>1, <2>2, SameHead
    <2>4. WindowAtBase'
      BY <1>1, <2>1, <2>3 DEF PublishInv, WindowAtBase, Window
    <2>5. PlacedPages'
      BY <1>1, <2>1, <2>3 DEF PublishInv, PlacedPages
    <2>6. StageContent'
      BY <1>1, <2>1 DEF PublishInv, StageContent, RunContent, Writers, Window
    <2> QED BY <2>3, <2>4, <2>5, <2>6 DEF PublishInv
  <1> QED BY <1>3, <1>4 DEF Lint

\* One page written: it holds what the proposal wants.
LEMMA PlaceInv ==
    ASSUME PublishInv, TypeOK', NEW w \in Writers, Place(w)
    PROVE  PublishInv'
  <1>1. pc[w] = "placing" /\ UNCHANGED <<head, base, paths, want, pc>>
    BY DEF Place
  <1>2. PICK p \in todo[w] : /\ work' = [work EXCEPT ![p] = want[w][p]]
                             /\ todo' = [todo EXCEPT ![w] = @ \ {p}]
    BY DEF Place
  <1>3. /\ BaseIsPast' /\ ActProposal' /\ WholeActs' /\ StagesOnce'
        /\ \A v \in Writers : Differing(v)' = Differing(v)
    BY <1>1, SameHead
  <1>4. WindowAtBase'
    BY <1>1, <1>3 DEF PublishInv, WindowAtBase
  <1>5. lock = w
    BY <1>1, HolderIs DEF PublishInv, TypeOK, SingleFlight, Holding, Window
  <1>6. \A v \in Writers : v # w =>
          pc[v] \notin {"begin", "writing", "locked"} \cup Window
    BY <1>5, OthersAreOutside DEF PublishInv, TypeOK, SingleFlight
  <1>7. p \in Pages /\ work'[p] = want[w][p] /\ todo'[w] = todo[w] \ {p}
        /\ \A q \in Pages : q # p => work'[q] = work[q]
    BY <1>2 DEF PublishInv, TypeOK, Tree
  <1>8. Differing(w) \subseteq Pages
    BY DEF Differing, PublishInv, TypeOK
  <1>9. PlacedPages'
    BY <1>1, <1>3, <1>6, <1>7, <1>8 DEF PublishInv, PlacedPages, Window
  <1>10. StageContent'
    BY <1>1, <1>6, <1>7
       DEF PublishInv, StageContent, RunContent, Writers, Window
  <1> QED BY <1>3, <1>4, <1>9, <1>10 DEF PublishInv

\* Everything placed: the pages that change hold what the proposal wants.
LEMMA GitAddInv ==
    ASSUME PublishInv, TypeOK', NEW w \in Writers, GitAdd(w)
    PROVE  PublishInv'
  <1>1. /\ pc[w] = "placing" /\ todo[w] = {}
        /\ UNCHANGED <<head, work, base, paths, want, todo>>
    BY DEF GitAdd, proposal_vars
  <1>2. /\ pc'[w] = "staged"
        /\ \A v \in Writers : v # w => pc'[v] = pc[v]
    BY DEF GitAdd, PublishInv, TypeOK
  <1>3. /\ \A v \in Operators : pc'[v] # "idle" => pc[v] # "idle"
        /\ \A s \in Stages : pc'[s] \in Before => pc[s] \in Before
    BY <1>1, <1>2 DEF Before, Window, Writers
  <1>4. /\ BaseIsPast' /\ ActProposal' /\ WholeActs' /\ StagesOnce'
        /\ \A v \in Writers : Differing(v)' = Differing(v)
    BY <1>1, <1>3, SameHead
  <1>5. WindowAtBase'
    BY <1>1, <1>2, <1>4 DEF PublishInv, WindowAtBase, Window
  <1>6. PlacedPages'
    BY <1>1, <1>2, <1>4 DEF PublishInv, PlacedPages
  <1>7. StageContent'
    BY <1>1, <1>2 DEF PublishInv, StageContent, RunContent, Writers, Window
  <1> QED BY <1>4, <1>5, <1>6, <1>7 DEF PublishInv

\* A failing commit restores the base and leaves its steps.
LEMMA CommitFailsInv ==
    ASSUME PublishInv, TypeOK', NEW w \in Writers, CommitFails(w)
    PROVE  PublishInv'
  <1>1. /\ pc[w] \in {"placing", "staged", "landed"}
        /\ UNCHANGED <<head, base, paths, want, todo>>
    BY DEF CommitFails, Restore, proposal_vars
  <1>2. PICK a \in {"failed", "failing"} : pc' = [pc EXCEPT ![w] = a]
    BY DEF CommitFails, Answer
  <1>3. pc'[w] = a /\ \A v \in Writers : v # w => pc'[v] = pc[v]
    BY <1>2 DEF PublishInv, TypeOK
  <1>4. /\ \A v \in Operators : pc'[v] # "idle" => pc[v] # "idle"
        /\ \A s \in Stages : pc'[s] \in Before => pc[s] \in Before
    BY <1>1, <1>3 DEF Before, Window, Writers
  <1>5. /\ BaseIsPast' /\ ActProposal' /\ WholeActs' /\ StagesOnce'
        /\ \A v \in Writers : Differing(v)' = Differing(v)
    BY <1>1, <1>4, SameHead
  <1>6. lock = w
    BY <1>1, HolderIs DEF PublishInv, TypeOK, SingleFlight, Holding, Window
  <1>7. \A v \in Writers :
          pc'[v] \notin {"begin", "writing", "locked"} \cup Window
    BY <1>3, <1>6, OthersAreOutside
       DEF PublishInv, TypeOK, SingleFlight, Window
  <1>8. WindowAtBase' /\ PlacedPages' /\ StageContent'
    BY <1>7 DEF WindowAtBase, PlacedPages, StageContent, Window, Writers
  <1> QED BY <1>5, <1>8 DEF PublishInv

\* With nobody between begin and commit, the facts about those steps are
\* vacuous.
LEMMA NobodyInside ==
    ASSUME \A v \in Writers :
             pc'[v] \notin {"begin", "writing", "locked"} \cup Window
    PROVE  WindowAtBase' /\ PlacedPages' /\ StageContent'
  BY DEF WindowAtBase, PlacedPages, StageContent, Window, Writers

\* A free lock means nobody is inside.
LEMMA LockFree ==
    ASSUME TypeOK', lock' = NoWriter
    PROVE  \A v \in Writers :
             pc'[v] \notin {"begin", "writing", "locked"} \cup Window
  BY WriterAssumption DEF TypeOK, Holding

\* The holder restores what it wrote, or is killed, and the lock is free.
LEMMA LeaveInv ==
    ASSUME PublishInv, TypeOK', NEW w \in Writers,
           Kill(w) \/ Done(w) \/ (w \in Stages /\ (Rollback(w) \/ Refused(w)))
    PROVE  PublishInv'
  <1> USE DEF tree_vars, proposal_vars, Restore
  <1>1. UNCHANGED <<head, base, paths, want>> /\ lock' = NoWriter
    BY DEF Kill, Done, Rollback, Refused, Answer
  <1>2. PICK a \in {"killed", "committed", "failed"} : pc' = [pc EXCEPT ![w] = a]
    BY DEF Kill, Done, Rollback, Refused, Answer
  <1>3. pc[w] \in Holding
    BY DEF Kill, Done, Rollback, Refused, Holding, PublishInv, TypeOK
  <1>4. pc'[w] = a /\ \A v \in Writers : v # w => pc'[v] = pc[v]
    BY <1>2 DEF PublishInv, TypeOK
  <1>5. a \notin Before /\ pc[w] # "idle"
    BY <1>3 DEF Before, Window, Holding
  <1>6. BaseIsPast' /\ ActProposal' /\ WholeActs' /\ StagesOnce'
    BY <1>1, <1>4, <1>5, SameHead DEF Writers
  <1>7. WindowAtBase' /\ PlacedPages' /\ StageContent'
    BY <1>1, LockFree, NobodyInside
  <1> QED BY <1>6, <1>7 DEF PublishInv

\* The harness gave up on a stage.
LEMMA StageFailsInv ==
    ASSUME PublishInv, TypeOK', NEW s \in Stages, StageFails(s)
    PROVE  PublishInv'
  <1>1. s \in Writers /\ s \notin Operators
    BY WriterAssumption DEF Writers
  <1> QED BY <1>1, QuietStep DEF StageFails, tree_vars, proposal_vars, Window

\* A stage begins: its base is the HEAD its digest commit left.
LEMMA BeginInv ==
    ASSUME PublishInv, TypeOK', NEW s \in Stages, Begin(s)
    PROVE  PublishInv' /\ head'.tree = head.tree
  <1>1. s \in Writers /\ s \notin Operators /\ pc[s] = "begin"
    BY WriterAssumption DEF Writers, Begin
  <1>2. CASE Stray # {}
    <2>1. /\ UNCHANGED <<head, work, base, paths, want, todo>>
          /\ pc' = [pc EXCEPT ![s] = "dirty"]
      BY <1>2 DEF Begin, Answer
    <2> QED BY <1>1, <2>1, QuietStep DEF Window
  <1>3. CASE Stray = {}
    <2>1. PICK n \in {0, 1} : head' = [rev |-> head.rev + n, tree |-> head.tree]
      BY <1>3 DEF Begin
    <2>2. /\ base' = [base EXCEPT ![s] = head']
          /\ pc' = [pc EXCEPT ![s] = "writing"]
          /\ UNCHANGED <<work, index, paths, want, todo>>
      BY <1>3 DEF Begin
    <2>3. /\ pc'[s] = "writing" /\ base'[s] = head'
          /\ \A v \in Writers : v # s => pc'[v] = pc[v] /\ base'[v] = base[v]
      BY <1>1, <2>2 DEF PublishInv, TypeOK
    <2>4. lock = s
      BY <1>1, HolderIs DEF PublishInv, TypeOK, SingleFlight, Holding
    <2>5. \A v \in Writers : v # s =>
            pc'[v] \notin {"begin", "writing", "locked"} \cup Window
      BY <1>1, <2>3, <2>4, OthersAreOutside DEF PublishInv, TypeOK, SingleFlight
    <2>6. head.rev \in Nat /\ head'.tree = head.tree /\ head'.rev = head.rev + n
          /\ head = [rev |-> head.rev, tree |-> head.tree]
      BY <2>1 DEF PublishInv, TypeOK, Revision
    <2>7. BaseIsPast'
      <3> SUFFICES ASSUME NEW v \in Writers
                   PROVE  /\ base'[v].rev <= head'.rev
                          /\ base'[v].rev = head'.rev => base'[v] = head'
        BY DEF BaseIsPast
      <3>1. base[v].rev \in Nat
        BY RevisionType DEF PublishInv, TypeOK
      <3>2. CASE v = s
        BY <2>3, <2>6, <3>2
      <3>3. CASE v # s /\ n = 0
        BY <2>1, <2>3, <2>6, <3>3 DEF PublishInv, BaseIsPast
      <3>4. CASE v # s /\ n = 1
        BY <2>3, <2>6, <3>1, <3>4 DEF PublishInv, BaseIsPast
      <3> QED BY <3>2, <3>3, <3>4
    <2>8. ActProposal'
      BY <1>1, <2>2, <2>3 DEF PublishInv, ActProposal, Writers
    <2>9. WindowAtBase' /\ PlacedPages'
      BY <2>3, <2>5 DEF WindowAtBase, PlacedPages, Window
    <2>10. StageContent'
      <3>1. \A p \in Pages : work[p] = head.tree[p]
        BY <1>3 DEF Stray
      <3> QED BY <2>2, <2>3, <2>5, <2>6, <3>1
              DEF StageContent, RunContent, Writers, Window
    <2>11. WholeActs' /\ StagesOnce'
      BY <1>1, <2>3, <2>6
         DEF PublishInv, WholeActs, StagesOnce, Before, Writers
    <2> QED BY <2>6, <2>7, <2>8, <2>9, <2>10, <2>11 DEF PublishInv
  <1>4. head'.tree = head.tree
    BY DEF Begin
  <1> QED BY <1>2, <1>3, <1>4

\* The agent adds its mark to a page of the checkout it runs in.
LEMMA AgentWritesInv ==
    ASSUME PublishInv, TypeOK', NEW s \in Stages, AgentWrites(s)
    PROVE  PublishInv'
  <1>1. s \in Writers /\ pc[s] = "writing"
    BY DEF Writers, AgentWrites
  <1>2. UNCHANGED <<head, base, paths, want, todo, pc>>
    BY DEF AgentWrites
  <1>3. PICK p \in Pages : work' = [work EXCEPT ![p] = @ \cup {s}]
    BY DEF AgentWrites
  <1>4. lock = s
    BY <1>1, HolderIs DEF PublishInv, TypeOK, SingleFlight, Holding
  <1>5. \A v \in Writers : v # s =>
          pc[v] \notin {"begin", "writing", "locked"} \cup Window
    BY <1>1, <1>4, OthersAreOutside DEF PublishInv, TypeOK, SingleFlight
  <1>6. BaseIsPast' /\ ActProposal' /\ WholeActs' /\ StagesOnce'
    BY <1>2, SameHead
  <1>7. WindowAtBase' /\ PlacedPages'
    BY <1>1, <1>2, <1>5 DEF WindowAtBase, PlacedPages, Window
  <1>8. /\ work'[p] = work[p] \cup {s}
        /\ \A q \in Pages : q # p => work'[q] = work[q]
    BY <1>3 DEF PublishInv, TypeOK, Tree
  <1>9. StageContent'
    BY <1>1, <1>2, <1>5, <1>8
       DEF PublishInv, StageContent, RunContent, Writers, Window
  <1> QED BY <1>6, <1>7, <1>9 DEF PublishInv

\* What a stage captures is what the checkout holds.
LEMMA CaptureInv ==
    ASSUME PublishInv, TypeOK', NEW s \in Stages, Capture(s)
    PROVE  PublishInv'
  <1>1. s \in Writers /\ s \notin Operators /\ pc[s] = "writing"
    BY WriterAssumption DEF Writers, Capture
  <1>2. UNCHANGED <<head, work, base, todo>>
    BY DEF Capture, tree_vars
  <1>3. PICK a \in {"locked", "failing"} : pc' = [pc EXCEPT ![s] = a]
    BY DEF Capture
  <1>4. /\ pc'[s] = a
        /\ want'[s] = Overlay(base[s].tree, Stray, work)
        /\ \A v \in Writers : v # s => /\ pc'[v] = pc[v]
                                     /\ paths'[v] = paths[v]
                                     /\ want'[v] = want[v]
    BY <1>1, <1>3 DEF Capture, PublishInv, TypeOK
  <1>5. lock = s
    BY <1>1, HolderIs DEF PublishInv, TypeOK, SingleFlight, Holding
  <1>6. \A v \in Writers : v # s =>
          pc[v] \notin {"begin", "writing", "locked"} \cup Window
    BY <1>1, <1>5, OthersAreOutside DEF PublishInv, TypeOK, SingleFlight
  <1>7. BaseIsPast' /\ WholeActs'
    BY <1>2 DEF PublishInv, BaseIsPast, WholeActs
  <1>8. ActProposal'
    BY <1>1, <1>2, <1>4 DEF PublishInv, ActProposal, Writers
  <1>9. StagesOnce'
    BY <1>1, <1>2, <1>4 DEF PublishInv, StagesOnce, Before, Writers
  <1>10. WindowAtBase' /\ PlacedPages'
    BY <1>4, <1>6 DEF WindowAtBase, PlacedPages, Window
  <1>11. \A p \in Pages :
           /\ RunContent(s, p, work[p])
           /\ want'[s][p] = work[p] \/ want'[s][p] = base[s].tree[p]
    BY <1>1, <1>4 DEF PublishInv, StageContent, Overlay
  <1>12. StageContent'
    BY <1>2, <1>4, <1>6, <1>11 DEF StageContent, RunContent, Writers, Window
  <1> QED BY <1>7, <1>8, <1>9, <1>10, <1>12 DEF PublishInv

\* A hand edit never falls between commit()'s checks and its git commit, and
\* a stage's page may carry it.
LEMMA HandEditInv ==
    ASSUME HandsRace = FALSE, PublishInv, TypeOK', NEW m \in HandMarks, HandEdit(m)
    PROVE  PublishInv'
  <1>1. UNCHANGED <<head, base, paths, want, todo, pc>>
    BY DEF HandEdit, proposal_vars
  <1>2. \A w \in Writers : pc[w] \notin Window
    BY DEF HandEdit, HandsMayAct
  <1>3. PICK p \in Pages : work' = [work EXCEPT ![p] = @ \cup {m}]
    BY DEF HandEdit
  <1>4. BaseIsPast' /\ ActProposal' /\ WholeActs' /\ StagesOnce'
    BY <1>1, SameHead
  <1>5. WindowAtBase' /\ PlacedPages'
    BY <1>1, <1>2 DEF WindowAtBase, PlacedPages, Window
  <1>6. /\ work'[p] = work[p] \cup {m}
        /\ \A q \in Pages : q # p => work'[q] = work[q]
    BY <1>3 DEF PublishInv, TypeOK, Tree
  <1>7. StageContent'
    BY <1>1, <1>2, <1>6 DEF PublishInv, StageContent, RunContent, Writers
  <1> QED BY <1>4, <1>5, <1>7 DEF PublishInv

\* Staging moves the index only; cleaning up happens when nobody is inside.
LEMMA HandTidyInv ==
    ASSUME PublishInv, TypeOK', NEW p \in Pages, HandStage(p) \/ HandRestore(p)
    PROVE  PublishInv'
  <1>1. UNCHANGED <<head, base, paths, want, todo, pc>>
    BY DEF HandStage, HandRestore, Restore, proposal_vars
  <1>2. /\ BaseIsPast' /\ ActProposal' /\ WholeActs' /\ StagesOnce'
        /\ \A v \in Writers : Differing(v)' = Differing(v)
    BY <1>1, SameHead
  <1>3. CASE HandStage(p)
    <2>1. work' = work
      BY <1>3 DEF HandStage
    <2>2. WindowAtBase' /\ PlacedPages' /\ StageContent'
      BY <1>1, <1>2, <2>1
         DEF PublishInv, WindowAtBase, PlacedPages, StageContent, RunContent
    <2> QED BY <1>2, <2>2 DEF PublishInv
  <1>4. CASE HandRestore(p)
    <2>1. lock' = NoWriter
      BY <1>4 DEF HandRestore
    <2>2. WindowAtBase' /\ PlacedPages' /\ StageContent'
      BY <2>1, LockFree, NobodyInside
    <2> QED BY <1>2, <2>2 DEF PublishInv
  <1> QED BY <1>3, <1>4

\* A newer revision: every base is still in its past.
LEMMA HeadMoves ==
    ASSUME PublishInv, TypeOK', UNCHANGED base, head'.rev = head.rev + 1
    PROVE  BaseIsPast'
  <1> SUFFICES ASSUME NEW w \in Writers
               PROVE  base[w].rev < head'.rev
    BY DEF BaseIsPast, TypeOK, Revision
  <1>1. base[w].rev \in Nat /\ head.rev \in Nat
    BY RevisionType DEF PublishInv, TypeOK
  <1> QED BY <1>1 DEF PublishInv, BaseIsPast

\* A hand commit adds hand edits to one page of HEAD, outside every window.
LEMMA HandCommitInv ==
    ASSUME HandsRace = FALSE, PublishInv, TypeOK', NEW p \in Pages, HandCommit(p)
    PROVE  PublishInv' /\ Published!HandPublish
  <1>1. UNCHANGED <<work, base, paths, want, todo, pc>>
    BY DEF HandCommit, proposal_vars
  <1>2. \A w \in Writers : pc[w] \notin Window
    BY DEF HandCommit, HandsMayAct
  <1>3. /\ head'.rev = head.rev + 1
        /\ head'.tree = [head.tree EXCEPT ![p] = work[p]]
        /\ head.tree \in Tree
    BY RevisionType DEF HandCommit, PublishInv, TypeOK
  <1>4. /\ head'.tree[p] = work[p]
        /\ \A q \in Pages : q # p => head'.tree[q] = head.tree[q]
    BY <1>3 DEF Tree
  <1>5. \A q \in Pages : /\ head.tree[q] \subseteq head'.tree[q]
                         /\ head'.tree[q] \ head.tree[q] \subseteq HandMarks
    BY <1>4 DEF HandCommit, Uncommitted
  <1>6. Published!HandPublish
    <2> DEFINE t == [q \in Pages |-> head'.tree[q] \ head.tree[q]]
    <2>1. t \in [Pages -> SUBSET HandMarks]
      BY <1>5
    <2>2. head'.tree \in Tree
      BY RevisionType DEF TypeOK
    <2>3. \A q \in Pages : head'.tree[q] = head.tree[q] \cup t[q]
      BY <1>5
    <2>4. head'.tree = [q \in Pages |-> head.tree[q] \cup t[q]]
      BY <2>2, <2>3 DEF Tree
    <2> QED BY <2>1, <2>4 DEF Published!HandPublish, Published!Grows
  <1>7. \A w \in Writers, q \in Pages : w \in head'.tree[q] <=> w \in head.tree[q]
    BY <1>5, WriterAssumption
  <1>8. BaseIsPast'
    BY <1>1, <1>3, HeadMoves
  <1>9. ActProposal'
    BY <1>1 DEF PublishInv, ActProposal
  <1>10. WindowAtBase' /\ PlacedPages'
    BY <1>1, <1>2 DEF WindowAtBase, PlacedPages, Window
  <1>11. StageContent'
    BY <1>1 DEF PublishInv, StageContent, RunContent
  <1>12. WholeActs' /\ StagesOnce'
    BY <1>1, <1>7, PageAssumption
       DEF PublishInv, WholeActs, StagesOnce, Writers
  <1> QED BY <1>6, <1>8, <1>9, <1>10, <1>11, <1>12 DEF PublishInv

\* What lands at HEAD when w commits: the pages that change, as proposed, on
\* top of everything published so far.
LEMMA WhatLands ==
    ASSUME PublishInv, NEW w \in Writers, GitCommit(w)
    PROVE  /\ base[w] = head /\ Differing(w) # {} /\ lock = w
           /\ head'.rev = head.rev + 1
           /\ head'.tree = [p \in Pages |-> IF p \in Differing(w) THEN want[w][p]
                                            ELSE head.tree[p]]
  <1>1. pc[w] = "staged" /\ lock = w
    BY HolderIs DEF GitCommit, PublishInv, TypeOK, SingleFlight, Holding, Window
  <1>2. base[w] = head /\ Differing(w) # {}
    BY <1>1 DEF PublishInv, WindowAtBase, Window
  <1>3. \A p \in Differing(w) : work[p] = want[w][p]
    BY <1>1 DEF PublishInv, PlacedPages
  <1>4. head'.rev = head.rev + 1 /\ head'.tree = Overlay(head.tree, Differing(w), work)
    BY DEF GitCommit
  <1> QED BY <1>1, <1>2, <1>3, <1>4 DEF Overlay

\* An operator's commit publishes its act, whole and for the first time.
LEMMA ActLands ==
    ASSUME PublishInv, NEW a \in Operators, GitCommit(a)
    PROVE  /\ Published!PublishAct(a)
           /\ \A p \in Touches[a] : a \in head'.tree[p]
  <1>1. a \in Writers /\ pc[a] # "idle" /\ Touches[a] \in SUBSET Pages
    BY PageAssumption DEF Writers, GitCommit
  <1>2. /\ base[a] = head /\ Differing(a) # {}
        /\ head'.tree = [p \in Pages |-> IF p \in Differing(a) THEN want[a][p]
                                         ELSE head.tree[p]]
    BY <1>1, WhatLands
  <1>3. /\ paths[a] = Touches[a]
        /\ \A p \in Pages : want[a][p] = IF p \in Touches[a]
                                         THEN head.tree[p] \cup {a}
                                         ELSE head.tree[p]
    <2>1. /\ paths[a] = Touches[a]
          /\ want[a] = [p \in Pages |-> IF p \in Touches[a]
                                        THEN base[a].tree[p] \cup {a}
                                        ELSE base[a].tree[p]]
      BY <1>1 DEF PublishInv, ActProposal
    <2>2. base[a].tree = head.tree
      BY <1>2
    <2> QED BY <2>1, <2>2
  <1>4. \A p \in Differing(a) : p \in Touches[a] /\ a \notin head.tree[p]
    <2> SUFFICES ASSUME NEW p \in Touches[a], want[a][p] # head.tree[p]
                 PROVE  a \notin head.tree[p]
      BY <1>2, <1>3 DEF Differing
    <2>1. head.tree[p] \cup {a} # head.tree[p]
      BY <1>1, <1>3
    <2> QED BY <2>1
  <1>5. \A p \in Pages : a \notin head.tree[p]
    BY <1>2, <1>4 DEF PublishInv, WholeActs
  <1>6. Differing(a) = Touches[a]
    BY <1>1, <1>2, <1>3, <1>5 DEF Differing
  <1>7. head'.tree = [p \in Pages |-> IF p \in Touches[a]
                                      THEN head.tree[p] \cup {a}
                                      ELSE head.tree[p]]
    BY <1>2, <1>3, <1>6
  <1> QED BY <1>1, <1>5, <1>7 DEF Published!PublishAct, Published!Published

\* A stage's commit publishes its run, for the first time.
LEMMA RunLands ==
    ASSUME PublishInv, TypeOK', NEW s \in Stages, GitCommit(s)
    PROVE  /\ Published!PublishRun(s)
           /\ \A p \in Pages :
                /\ head.tree[p] \subseteq head'.tree[p]
                /\ head'.tree[p] \ head.tree[p] \subseteq {s} \cup HandMarks
  <1>1. s \in Writers /\ pc[s] \in Window /\ pc[s] \in Before
    BY DEF Writers, GitCommit, Window, Before
  <1>2. /\ base[s] = head
        /\ head'.tree = [p \in Pages |-> IF p \in Differing(s) THEN want[s][p]
                                         ELSE head.tree[p]]
    BY <1>1, WhatLands
  <1>3. \A p \in Pages : /\ head.tree[p] \subseteq head'.tree[p]
                         /\ head'.tree[p] \ head.tree[p] \subseteq {s} \cup HandMarks
    BY <1>1, <1>2 DEF PublishInv, StageContent, RunContent
  <1>4. ~Published!Published(s)
    BY <1>1 DEF PublishInv, StagesOnce, Published!Published
  <1>5. Published!Grows({s} \cup HandMarks)
    <2> DEFINE t == [p \in Pages |-> head'.tree[p] \ head.tree[p]]
    <2>1. t \in [Pages -> SUBSET ({s} \cup HandMarks)]
      BY <1>3
    <2>2. head'.tree = [p \in Pages |-> head.tree[p] \cup t[p]]
      BY <1>2, <1>3
    <2> QED BY <2>1, <2>2 DEF Published!Grows
  <1> QED BY <1>3, <1>4, <1>5 DEF Published!PublishRun

LEMMA GitCommitInv ==
    ASSUME PublishInv, TypeOK', NEW w \in Writers, GitCommit(w)
    PROVE  PublishInv' /\ (\/ w \in Operators /\ Published!PublishAct(w)
                           \/ w \in Stages /\ Published!PublishRun(w))
  <1>1. /\ pc'[w] = "landed" /\ pc[w] = "staged"
        /\ \A v \in Writers : v # w => pc'[v] = pc[v]
        /\ UNCHANGED <<work, base, paths, want, todo>>
    BY DEF GitCommit, proposal_vars, PublishInv, TypeOK
  <1>2. lock = w /\ head'.rev = head.rev + 1
    BY WhatLands
  <1>3. \A v \in Writers :
          pc'[v] \notin {"begin", "writing", "locked"} \cup Window
    BY <1>1, <1>2, OthersAreOutside
       DEF PublishInv, TypeOK, SingleFlight, Window
  <1>4. BaseIsPast'
    BY <1>1, <1>2, HeadMoves
  <1>5. ActProposal'
    BY <1>1 DEF PublishInv, ActProposal, Writers
  <1>6. WindowAtBase' /\ PlacedPages' /\ StageContent'
    BY <1>3, NobodyInside
  <1>7. CASE w \in Operators
    <2>1. /\ Published!PublishAct(w)
          /\ \A p \in Touches[w] : w \in head'.tree[p]
      BY <1>7, ActLands
    <2>2. \A v \in Writers, p \in Pages :
            v # w => (v \in head'.tree[p] <=> v \in head.tree[p])
      BY <2>1 DEF Published!PublishAct
    <2>3. WholeActs'
      BY <2>1, <2>2, PageAssumption DEF PublishInv, WholeActs, Writers
    <2>4. StagesOnce'
      BY <1>1, <1>7, <2>2, WriterAssumption
         DEF PublishInv, StagesOnce, Before, Window, Writers
    <2> QED BY <1>4, <1>5, <1>6, <1>7, <2>1, <2>3, <2>4 DEF PublishInv
  <1>8. CASE w \in Stages
    <2>1. /\ Published!PublishRun(w)
          /\ \A p \in Pages :
               /\ head.tree[p] \subseteq head'.tree[p]
               /\ head'.tree[p] \ head.tree[p] \subseteq {w} \cup HandMarks
      BY <1>8, RunLands
    <2>2. \A v \in Writers, p \in Pages :
            v # w => (v \in head'.tree[p] <=> v \in head.tree[p])
      BY <2>1, WriterAssumption
    <2>3. WholeActs'
      BY <1>8, <2>2, PageAssumption, WriterAssumption
         DEF PublishInv, WholeActs, Writers
    <2>4. StagesOnce'
      BY <1>1, <2>2 DEF PublishInv, StagesOnce, Before, Window, Writers
    <2> QED BY <1>4, <1>5, <1>6, <1>8, <2>1, <2>3, <2>4 DEF PublishInv
  <1> QED BY <1>7, <1>8 DEF Writers

-----------------------------------------------------------------------------
LEMMA PublishInit == Init => PublishInv /\ Published!Init
  <1> SUFFICES ASSUME Init PROVE PublishInv /\ Published!Init
    OBVIOUS
  <1>1. TypeOK
    BY TypeInit
  <1>2. BaseIsPast
    BY <1>1, RevisionType DEF Init, BaseIsPast, TypeOK
  <1>3. WindowAtBase /\ ActProposal /\ PlacedPages /\ StageContent
    BY DEF Init, WindowAtBase, ActProposal, PlacedPages, StageContent, Window,
           Writers
  <1>4. WholeActs /\ StagesOnce /\ Published!Init
    BY DEF Init, WholeActs, StagesOnce, Published!Init
  <1> QED BY <1>1, <1>2, <1>3, <1>4 DEF PublishInv

LEMMA PublishStep ==
    ASSUME HandsRace = FALSE, PublishInv, [Next]_vars
    PROVE  PublishInv' /\ [Published!Next]_(head.tree)
  <1>1. TypeOK'
    BY TypeStep DEF PublishInv
  <1>2. CASE UNCHANGED vars
    <2>1. UNCHANGED <<head, work, base, paths, want, todo, pc>>
      BY <1>2 DEF vars, tree_vars, proposal_vars
    <2>2. /\ BaseIsPast' /\ ActProposal' /\ WholeActs' /\ StagesOnce'
          /\ \A v \in Writers : Differing(v)' = Differing(v)
      BY <2>1, SameHead
    <2>3. WindowAtBase' /\ PlacedPages' /\ StageContent'
      BY <2>1, <2>2
         DEF PublishInv, WindowAtBase, PlacedPages, StageContent, RunContent
    <2> QED BY <1>1, <2>1, <2>2, <2>3 DEF PublishInv
  <1>3. ASSUME NEW w \in Writers, Acquire(w) \/ LockBusy(w) \/ Kill(w)
        PROVE  PublishInv' /\ head' = head
    BY <1>1, <1>3, EntryInv, LeaveInv DEF Acquire, LockBusy, Kill, tree_vars
  <1>4. ASSUME NEW w \in Writers, Check(w) \/ Lint(w) \/ Place(w) \/ GitAdd(w)
                                  \/ Done(w) \/ CommitFails(w)
        PROVE  PublishInv' /\ head' = head
    <2>1. PublishInv'
      BY <1>1, <1>4, CheckInv, LintInv, PlaceInv, GitAddInv, LeaveInv,
         CommitFailsInv
    <2> QED BY <1>4, <2>1 DEF Check, Lint, Place, GitAdd, Done, CommitFails,
                              Restore, tree_vars
  <1>5. ASSUME NEW w \in Writers, GitCommit(w)
        PROVE  PublishInv' /\ Published!Next
    BY <1>1, <1>5, GitCommitInv DEF Published!Next
  <1>6. ASSUME NEW a \in Operators, Act(a)
        PROVE  PublishInv' /\ head' = head
    <2>1. a \in Writers
      BY DEF Writers
    <2> QED BY <1>1, <1>6, <2>1, BuildInv, EntryInv
            DEF Act, Build, Retry, tree_vars
  <1>7. ASSUME NEW s \in Stages, Stage(s)
        PROVE  PublishInv' /\ head'.tree = head.tree
    <2>1. s \in Writers
      BY DEF Writers
    <2>2. CASE Begin(s)
      BY <1>1, <2>2, BeginInv
    <2>3. CASE AgentWrites(s) \/ Capture(s) \/ StageFails(s)
      BY <1>1, <2>3, AgentWritesInv, CaptureInv, StageFailsInv
         DEF AgentWrites, Capture, StageFails, tree_vars
    <2>4. CASE Rollback(s) \/ Refused(s)
      BY <1>1, <2>1, <2>4, LeaveInv DEF Rollback, Refused, Restore
    <2> QED BY <1>7, <2>2, <2>3, <2>4 DEF Stage
  <1>8. CASE Hands
    <2>1. ASSUME NEW m \in HandMarks, HandEdit(m)
          PROVE  PublishInv' /\ head' = head
      BY <1>1, <2>1, HandEditInv DEF HandEdit
    <2>2. ASSUME NEW p \in Pages, HandStage(p) \/ HandRestore(p)
          PROVE  PublishInv' /\ head' = head
      BY <1>1, <2>2, HandTidyInv DEF HandStage, HandRestore, Restore
    <2>3. ASSUME NEW p \in Pages, HandCommit(p)
          PROVE  PublishInv' /\ Published!Next
      BY <1>1, <2>3, HandCommitInv DEF Published!Next
    <2> QED BY <1>8, <2>1, <2>2, <2>3 DEF Hands
  <1> QED BY <1>2, <1>3, <1>4, <1>5, <1>6, <1>7, <1>8 DEF Next, Commit

\* With hands kept out of commit()'s check-to-commit window, every act and
\* every run reaches HEAD whole, once and on top of all that was published
\* (transaction.commit under single_flight), whatever is killed and wherever.
THEOREM CommitImplementsPublished ==
    ASSUME HandsRace = FALSE
    PROVE  Spec => Implements
  <1>1. Init => PublishInv /\ Published!Init
    BY PublishInit
  <1>2. PublishInv /\ [Next]_vars => PublishInv' /\ [Published!Next]_(head.tree)
    BY PublishStep
  <1> QED BY <1>1, <1>2, PTL DEF Spec, Implements, Published!Spec

\* No revision takes anything away from an earlier one, so a lost
\* update (HandsRace = TRUE) needs a hand commit inside the window
\* between commit()'s HEAD check and its git commit, and nothing else.
THEOREM NothingIsLost ==
    ASSUME HandsRace = FALSE
    PROVE  Spec => NoLostUpdate
  <1>1. Init => PublishInv
    BY PublishInit
  <1>2. PublishInv /\ [Next]_vars => PublishInv' /\ [Published!Next]_(head.tree)
    BY PublishStep
  <1>3. [Published!Next]_(head.tree)
          => \A p \in Pages : head.tree[p] \subseteq head'.tree[p]
    <2>1. ASSUME NEW M, Published!Grows(M)
          PROVE  \A p \in Pages : head.tree[p] \subseteq head'.tree[p]
      BY <2>1 DEF Published!Grows
    <2>2. ASSUME NEW a \in Operators, Published!PublishAct(a)
          PROVE  \A p \in Pages : head.tree[p] \subseteq head'.tree[p]
      BY <2>2 DEF Published!PublishAct
    <2> QED BY <2>1, <2>2
            DEF Published!Next, Published!PublishRun, Published!HandPublish
  <1> QED BY <1>1, <1>2, <1>3, PTL DEF Spec, NoLostUpdate

-----------------------------------------------------------------------------
(***************************************************************************)
(* What WikiTransaction leaves in the checkout: no writer's exit leaves    *)
(* debris, takes away hand edits or puts a page behind HEAD, for any set   *)
(* of pages, acts, stages and hand edits, when hands keep out of commit()'s*)
(* check-to-commit window and git commit fails before it lands, if it      *)
(* fails.                                                                  *)
(***************************************************************************)

\* A stage between its pre-flight check and the end of its run.
Busy == Holding \ {"begin"}

\* Page p holds a hand edit that no commit has.
Handed(p) == Uncommitted(p) \cap HandMarks # {}

\* A writer that was killed may have left something on page p.
Wrecked(p) == \E w \in crashed : p \in paths[w] \cup touched[w]

\* A torn page is in the working tree only.
NothingTornIsKept ==
    /\ \A p \in Pages : Torn \notin head.tree[p]
    /\ \A w \in Writers, p \in Pages :
         Torn \notin base[w].tree[p] /\ Torn \notin want[w][p]

\* Neither index nor working tree is behind HEAD, nor the working tree
\* behind the index.
HeadIsKept ==
    \A p \in Pages : Torn \notin work[p] =>
      head.tree[p] \subseteq index[p] /\ index[p] \subseteq work[p]

\* A hand edit that was not made yet is nowhere.
HandsAreNew ==
    \A m \in HandMarks : hand[m] = NoPage =>
      /\ \A p \in Pages : m \notin head.tree[p] \cup work[p] \cup index[p]
      /\ \A w \in Writers, p \in Pages : m \notin base[w].tree[p] \cup want[w][p]

\* What git status reports between a writer's checks and its commit is the
\* writer's own.
WindowIsOwn ==
    \A w \in Writers :
      /\ pc[w] \in Window => Unowned(w) = {}
      /\ pc[w] = "placing" => todo[w] \subseteq Differing(w)

\* The pages a stage still answers for.
Answerable(s) == IF pc[s] = "writing" THEN touched[s]
                 ELSE IF pc[s] = "failing" THEN paths[s] \cup touched[s]
                 ELSE paths[s]

\* While a stage runs no page is torn, what is stray is its own or a hand's,
\* and what is staged a hand's until its own git add.
RunIsTidy ==
    \A s \in Stages : pc[s] \in Busy =>
      /\ \A p \in Pages : Torn \notin work[p]
      /\ \A p \in Stray : Handed(p) \/ p \in Answerable(s)
      /\ \A p \in Staged : Handed(p) \/ (pc[s] = "staged" /\ p \in Differing(s))
      /\ pc[s] = "landed" => \A p \in Stray : Handed(p)

\* The pages an act is writing.
Writing(a) == IF pc[a] \in {"placing", "staged"} THEN Differing(a) ELSE {}

\* Without a stage at work, what is stray was left by a hand or a kill, or
\* is being written by an act.
DebrisIsKnown ==
    (\A s \in Stages : pc[s] \notin Busy) =>
      \A p \in Stray : \/ Handed(p)
                       \/ Wrecked(p)
                       \/ \E a \in Operators : p \in Writing(a)

\* What a page without hand edits holds beyond HEAD is the mark of a killed
\* writer, or of the one at work.
ContentIsKnown ==
    \A p \in Pages :
      \/ Torn \in work[p]
      \/ Handed(p)
      \/ work[p] \subseteq head.tree[p] \cup crashed
                  \cup {a \in Operators : p \in Writing(a)}
                  \cup {s \in Stages : pc[s] \in Busy}

\* Acts touch nothing but through their commit, a killed stage never runs
\* again, and a killed act has a proposal.
KilledStay ==
    /\ \A a \in Operators : touched[a] = {}
    /\ \A s \in Stages : s \in crashed => pc[s] = "killed"
    /\ \A a \in Operators : a \in crashed => pc[a] # "idle"

CheckoutInv == /\ PublishInv
               /\ NothingTornIsKept
               /\ HeadIsKept
               /\ HandsAreNew
               /\ WindowIsOwn
               /\ RunIsTidy
               /\ DebrisIsKnown
               /\ ContentIsKnown
               /\ KilledStay
-----------------------------------------------------------------------------
\* A page git status does not report is HEAD's, and a staged page is stray.
LEMMA StrayPage ==
    ASSUME NEW p \in Pages
    PROVE  /\ p \notin Stray => work[p] = head.tree[p] /\ index[p] = head.tree[p]
           /\ p \in Staged <=> index[p] # head.tree[p]
           /\ p \in Staged => p \in Stray
           /\ p \in Stray \/ index[p] = head.tree[p]
  BY DEF Stray, Staged

\* Only the holder of the lock is inside it.
LEMMA Alone ==
    ASSUME TypeOK, NEW w \in Writers, pc[w] \in Holding
    PROVE  /\ lock = w /\ lock # NoWriter
           /\ \A v \in Writers : v # w => pc[v] \notin Holding
           /\ \A v \in Writers : v # w =>
                pc[v] \notin Busy /\ pc[v] \notin Window
                /\ pc[v] \notin {"placing", "staged"}
  <1>1. lock = w /\ \A v \in Writers : v # w => pc[v] \notin Holding
    BY DEF TypeOK
  <1> QED BY <1>1, WriterAssumption DEF Busy, Holding, Window

\* Without strays but its own, what is stray a writer at HEAD changes.
LEMMA StrayDiffers ==
    ASSUME CheckoutInv, NEW w \in Writers, Unowned(w) = {}, base[w] = head
    PROVE  \A p \in Stray : /\ p \in paths[w] /\ p \in Differing(w)
                            /\ work[p] = want[w][p]
                            /\ p \in Pages
  <1> SUFFICES ASSUME NEW p \in Stray
               PROVE  /\ p \in paths[w] /\ p \in Differing(w)
                      /\ work[p] = want[w][p]
                      /\ p \in Pages
    OBVIOUS
  <1>1. p \in Pages /\ p \in paths[w] /\ work[p] = want[w][p]
    BY DEF Unowned, Stray
  <1>2. ASSUME want[w][p] = base[w].tree[p] PROVE FALSE
    <2>1. work[p] = head.tree[p] /\ Torn \notin work[p]
      BY <1>1, <1>2 DEF CheckoutInv, NothingTornIsKept
    <2>2. head.tree[p] \subseteq index[p] /\ index[p] \subseteq work[p]
      BY <1>1, <2>1 DEF CheckoutInv, HeadIsKept
    <2> QED BY <2>1, <2>2 DEF Stray
  <1> QED BY <1>1, <1>2 DEF Differing

\* In its window a writer is at HEAD, and what is stray it changes.
LEMMA WindowStray ==
    ASSUME CheckoutInv, NEW w \in Writers, pc[w] \in Window
    PROVE  /\ base[w] = head
           /\ \A p \in Stray : /\ p \in paths[w] /\ p \in Differing(w)
                               /\ work[p] = want[w][p]
           /\ \A p \in Differing(w) : p \in Pages /\ p \in paths[w]
  <1>1. base[w] = head
    BY DEF CheckoutInv, PublishInv, WindowAtBase
  <1>2. Unowned(w) = {}
    BY DEF CheckoutInv, WindowIsOwn
  <1>3. \A p \in Differing(w) : p \in Pages /\ p \in paths[w]
    BY DEF Differing, CheckoutInv, PublishInv, TypeOK
  <1> QED BY <1>1, <1>2, <1>3, StrayDiffers

\* Nothing in the checkout or the proposals moved.
LEMMA Still ==
    ASSUME CheckoutInv, UNCHANGED <<head, work, index, hand, base, want>>
    PROVE  /\ NothingTornIsKept' /\ HeadIsKept' /\ HandsAreNew'
           /\ Stray' = Stray /\ Staged' = Staged
           /\ \A p \in Pages : Handed(p)' <=> Handed(p)
  BY DEF CheckoutInv, NothingTornIsKept, HeadIsKept, HandsAreNew, Stray, Staged,
         Handed, Uncommitted

\* A step of a stage outside its run or of an act outside its writes.
LEMMA OutsideMoves ==
    ASSUME CheckoutInv, PublishInv',
           UNCHANGED <<head, work, index, hand, base, want, paths, todo, touched,
                       crashed>>,
           NEW w \in Writers, NEW a, pc' = [pc EXCEPT ![w] = a],
           a \notin {"placing", "staged"},
           a \in Window => Unowned(w) = {},
           w \in Stages => pc[w] \notin Busy /\ a \notin Busy /\ w \notin crashed,
           w \in Operators => pc[w] \notin {"placing", "staged"} /\ a # "idle"
    PROVE  CheckoutInv'
  <1> USE DEF CheckoutInv
  <1>1. /\ \A v \in Writers : v # w => pc'[v] = pc[v]
        /\ pc'[w] = a
    BY DEF PublishInv, TypeOK
  <1>2. /\ NothingTornIsKept' /\ HeadIsKept' /\ HandsAreNew'
        /\ Stray' = Stray /\ Staged' = Staged
        /\ \A p \in Pages : Handed(p)' <=> Handed(p)
    BY Still
  <1>3. WindowIsOwn'
    <2>1. ASSUME NEW v \in Writers, pc'[v] \in Window
          PROVE  Unowned(v)' = {}
      <3>1. Unowned(v) = {}
        BY <1>1, <2>1 DEF WindowIsOwn, Window
      <3> QED BY <1>2, <3>1 DEF Unowned
    <2>2. ASSUME NEW v \in Writers, pc'[v] = "placing"
          PROVE  (todo[v] \subseteq Differing(v))'
      <3>1. pc[v] = "placing" /\ v # w
        BY <1>1, <2>2 DEF Window
      <3>2. todo[v] \subseteq Differing(v)
        BY <3>1 DEF WindowIsOwn
      <3> QED BY <3>2 DEF Differing
    <2> QED BY <2>1, <2>2 DEF WindowIsOwn
  <1>4. \A s \in Stages : (pc'[s] \in Busy <=> pc[s] \in Busy)
    BY <1>1 DEF Writers
  <1>5. RunIsTidy'
    <2>1. ASSUME NEW s \in Stages, pc'[s] \in Busy
          PROVE  s # w /\ pc'[s] = pc[s] /\ pc[s] \in Busy
      BY <1>1, <2>1 DEF Writers
    <2>2. ASSUME NEW s \in Stages, pc'[s] \in Busy
          PROVE  Answerable(s)' = Answerable(s) /\ Differing(s)' = Differing(s)
      BY <2>1, <2>2 DEF Answerable, Differing
    <2>3. \A p \in Staged : p \in Pages
      BY DEF Staged
    <2>4. \A p \in Stray : p \in Pages
      BY DEF Stray
    <2> QED BY <1>2, <2>1, <2>2, <2>3, <2>4 DEF RunIsTidy
  <1>6. \A b \in Operators : Writing(b)' = Writing(b)
    <2> SUFFICES ASSUME NEW b \in Operators PROVE Writing(b)' = Writing(b)
      OBVIOUS
    <2>1. Differing(b)' = Differing(b)
      BY DEF Differing
    <2>2. pc'[b] \in {"placing", "staged"} <=> pc[b] \in {"placing", "staged"}
      BY <1>1 DEF Writers
    <2> QED BY <2>1, <2>2 DEF Writing
  <1>7. DebrisIsKnown'
    <2>1. \A p \in Pages : Wrecked(p)' <=> Wrecked(p)
      BY DEF Wrecked
    <2>2. \A p \in Stray : p \in Pages
      BY DEF Stray
    <2> QED BY <1>2, <1>4, <1>6, <2>1, <2>2 DEF DebrisIsKnown
  <1>8. ContentIsKnown'
    BY <1>2, <1>4, <1>6 DEF ContentIsKnown
  <1>9. KilledStay'
    BY <1>1 DEF KilledStay, Writers
  <1> QED BY <1>2, <1>3, <1>5, <1>7, <1>8, <1>9

\* A running stage moves on, answering for at least the same pages.
LEMMA RunMoves ==
    ASSUME CheckoutInv, PublishInv',
           UNCHANGED <<head, work, index, hand, base, want, paths, todo, touched,
                       crashed>>,
           NEW s \in Stages, NEW a \in {"checked", "refused", "failing"},
           pc' = [pc EXCEPT ![s] = a],
           pc[s] \in {"writing", "locked", "checked"},
           a = "checked" => Unowned(s) = {},
           pc[s] = "writing" => a = "failing"
    PROVE  CheckoutInv'
  <1> USE DEF CheckoutInv
  <1>0. s \in Writers /\ s \notin Operators
    BY WriterAssumption DEF Writers
  <1>1. /\ \A v \in Writers : v # s => pc'[v] = pc[v]
        /\ pc'[s] = a
        /\ pc[s] \in Busy /\ a \in Busy /\ a \notin {"placing", "staged", "landed"}
    BY <1>0 DEF PublishInv, TypeOK, Busy, Holding, Window
  <1>2. /\ NothingTornIsKept' /\ HeadIsKept' /\ HandsAreNew'
        /\ Stray' = Stray /\ Staged' = Staged
        /\ \A p \in Pages : Handed(p)' <=> Handed(p)
    BY Still
  <1>3. \A v \in Writers : Unowned(v)' = Unowned(v) /\ Differing(v)' = Differing(v)
    BY <1>2 DEF Unowned, Differing
  <1>4. WindowIsOwn'
    BY <1>1, <1>3 DEF WindowIsOwn, Window
  <1>5. \A t \in Stages : (pc'[t] \in Busy <=> pc[t] \in Busy)
    BY <1>1 DEF Writers
  <1>6. /\ \A p \in Staged : p \in Pages
        /\ \A p \in Stray : p \in Pages
    BY DEF Stray, Staged
  <1>7. RunIsTidy'
    <2>1. ASSUME NEW t \in Stages, t # s
          PROVE  pc'[t] = pc[t] /\ Answerable(t)' = Answerable(t)
                 /\ Differing(t)' = Differing(t)
      BY <1>1, <1>3, <2>1 DEF Writers, Answerable
    <2>2. Answerable(s) \subseteq Answerable(s)'
      BY <1>1 DEF Answerable
    <2>3. ASSUME NEW p \in Staged PROVE Handed(p)
      BY <1>1, <2>3 DEF RunIsTidy
    <2> QED BY <1>1, <1>2, <1>5, <1>6, <2>1, <2>2, <2>3 DEF RunIsTidy
  <1>8. DebrisIsKnown'
    BY <1>1, <1>5 DEF DebrisIsKnown
  <1>9. ContentIsKnown'
    <2>1. \A b \in Operators : Writing(b)' = Writing(b)
      BY <1>0, <1>1, <1>3 DEF Writing, Writers
    <2> QED BY <1>2, <1>5, <2>1 DEF ContentIsKnown
  <1>10. KilledStay'
    BY <1>0, <1>1 DEF KilledStay, Writers
  <1> QED BY <1>2, <1>4, <1>7, <1>8, <1>9, <1>10

\* A stage that leaves nothing stray but what a hand edited may leave.
LEMMA RunEnds ==
    ASSUME CheckoutInv, PublishInv',
           UNCHANGED <<head, hand, base, want, paths, todo, touched, crashed>>,
           NothingTornIsKept', HeadIsKept', HandsAreNew',
           NEW s \in Stages, NEW a, pc' = [pc EXCEPT ![s] = a],
           a \in Answered \ {"killed"}, pc[s] \in Busy,
           \A p \in Stray' : Handed(p)'
    PROVE  CheckoutInv'
  <1> USE DEF CheckoutInv
  <1>0. s \in Writers /\ s \notin Operators
    BY WriterAssumption DEF Writers
  <1>1. /\ \A v \in Writers : v # s => pc'[v] = pc[v]
        /\ pc'[s] = a
        /\ a \notin Busy /\ a \notin Window
    BY <1>0 DEF PublishInv, TypeOK, Busy, Holding, Window, Answered
  <1>2. pc[s] \in Holding
    BY DEF Busy
  <1>3. \A v \in Writers : v # s => pc[v] \notin Busy /\ pc[v] \notin Window
                                    /\ pc[v] \notin {"placing", "staged"}
    BY <1>0, <1>2, Alone DEF PublishInv
  <1>4. WindowIsOwn'
    BY <1>1, <1>3 DEF WindowIsOwn, Window
  <1>5. \A t \in Stages : pc'[t] \notin Busy
    BY <1>1, <1>3 DEF Writers
  <1>6. RunIsTidy' /\ DebrisIsKnown'
    BY <1>5 DEF RunIsTidy, DebrisIsKnown
  <1>7. ContentIsKnown'
    <2> SUFFICES ASSUME NEW p \in Pages, ~ Handed(p)'
                 PROVE  work'[p] \subseteq head'.tree[p]
      BY DEF ContentIsKnown
    <2>1. p \notin Stray'
      OBVIOUS
    <2> QED BY <2>1 DEF Stray
  <1>8. KilledStay'
    <2>1. s \notin crashed
      BY DEF KilledStay, Busy, Holding, Window
    <2> QED BY <1>0, <1>1, <2>1 DEF KilledStay, Writers
  <1> QED BY <1>4, <1>6, <1>7, <1>8

\* The lock, and an act's identical retry.
LEMMA EntryCheckout ==
    ASSUME CheckoutInv, PublishInv', NEW w \in Writers,
           Acquire(w) \/ LockBusy(w) \/ (w \in Operators /\ Retry(w))
    PROVE  CheckoutInv'
  <1> USE DEF tree_vars, proposal_vars
  <1>0. w \in Stages => w \notin Operators
    BY WriterAssumption
  <1>1. CASE Acquire(w)
    <2> DEFINE a == IF w \in Operators THEN "locked" ELSE "begin"
    <2>1. /\ pc' = [pc EXCEPT ![w] = a]
          /\ a \notin Window /\ a \notin {"placing", "staged", "idle"}
      BY <1>1 DEF Acquire, Window
    <2>2. ASSUME w \in Stages PROVE pc[w] = "idle" /\ a = "begin" /\ w \notin crashed
      BY <1>0, <1>1, <2>2 DEF Acquire, Asks, CheckoutInv, KilledStay
    <2>3. w \in Operators => pc[w] = "ready"
      BY <1>1 DEF Acquire, Asks
    <2>4. "idle" \notin Busy /\ "begin" \notin Busy
      BY DEF Busy, Holding, Window
    <2> QED BY <1>1, <2>1, <2>2, <2>3, <2>4, OutsideMoves DEF Acquire
  <1>2. CASE LockBusy(w)
    <2>1. "busy" \notin Window /\ "idle" \notin Busy /\ "busy" \notin Busy
      BY DEF Busy, Holding, Window
    <2>2. ASSUME w \in Stages PROVE pc[w] = "idle" /\ w \notin crashed
      BY <1>0, <1>2, <2>2 DEF LockBusy, Asks, CheckoutInv, KilledStay
    <2>3. w \in Operators => pc[w] = "ready"
      BY <1>2 DEF LockBusy, Asks
    <2> QED BY <1>2, <2>1, <2>2, <2>3, OutsideMoves DEF LockBusy
  <1>3. CASE w \in Operators /\ Retry(w)
    <2>1. /\ "ready" \notin Window /\ w \notin Stages
          /\ pc[w] \notin {"placing", "staged"}
      BY <1>3, WriterAssumption DEF Window, Retry
    <2> QED BY <1>3, <2>1, OutsideMoves DEF Retry
  <1> QED BY <1>1, <1>2, <1>3

\* A step of the stage in the lock that leaves it running.
LEMMA RunGoesOn ==
    ASSUME CheckoutInv, PublishInv',
           NothingTornIsKept', HeadIsKept', HandsAreNew',
           NEW s \in Stages, pc[s] \in Busy, pc'[s] \in Busy,
           \A v \in Writers : v # s => pc'[v] = pc[v] /\ touched'[v] = touched[v],
           crashed' = crashed,
           pc'[s] \in Window => Unowned(s)' = {},
           pc'[s] = "placing" => (todo[s] \subseteq Differing(s))',
           \A p \in Pages :
             /\ Torn \notin work'[p]
             /\ p \in Stray' => Handed(p)' \/ p \in Answerable(s)'
             /\ p \in Staged' => \/ Handed(p)'
                                 \/ pc'[s] = "staged" /\ p \in Differing(s)'
             /\ p \in Stray' => Handed(p)' \/ pc'[s] # "landed"
             /\ Handed(p)' \/ work'[p] \subseteq head'.tree[p] \cup {s} \cup crashed
    PROVE  CheckoutInv'
  <1> USE DEF CheckoutInv
  <1>0. s \in Writers /\ s \notin Operators
    BY WriterAssumption DEF Writers
  <1>1. pc[s] \in Holding
    BY DEF Busy
  <1>2. \A v \in Writers : v # s => pc'[v] \notin Busy /\ pc'[v] \notin Window
                                    /\ pc'[v] \notin {"placing", "staged"}
    BY <1>0, <1>1, Alone DEF PublishInv
  <1>3. WindowIsOwn'
    BY <1>2 DEF WindowIsOwn, Window
  <1>4. \A t \in Stages : pc'[t] \in Busy <=> t = s
    BY <1>2 DEF Writers
  <1>5. RunIsTidy'
    <2>1. (\A p \in Staged : p \in Pages)' /\ (\A p \in Stray : p \in Pages)'
      BY DEF Stray, Staged
    <2> QED BY <1>4, <2>1 DEF RunIsTidy
  <1>6. DebrisIsKnown'
    BY DEF DebrisIsKnown
  <1>7. ContentIsKnown'
    BY <1>4 DEF ContentIsKnown
  <1>8. KilledStay'
    <2>1. s \notin crashed
      BY DEF KilledStay, Busy, Holding, Window
    <2> QED BY <1>0, <2>1 DEF KilledStay, Writers
  <1> QED BY <1>3, <1>5, <1>6, <1>7, <1>8

\* A step of the act in the lock that touches none but its own pages.
LEMMA ActGoesOn ==
    ASSUME CheckoutInv, PublishInv',
           NothingTornIsKept', HeadIsKept', HandsAreNew',
           NEW a \in Operators, pc[a] \in Holding, pc'[a] # "idle",
           \A v \in Writers : v # a => pc'[v] = pc[v],
           touched' = touched, crashed' = crashed, paths' = paths,
           pc'[a] \in Window => Unowned(a)' = {},
           pc'[a] = "placing" => (todo[a] \subseteq Differing(a))',
           \A p \in Pages :
             /\ p \in Stray' => \/ Handed(p)'
                                \/ Wrecked(p)
                                \/ p \in Writing(a)'
             /\ \/ Torn \in work'[p]
                \/ Handed(p)'
                \/ p \in Writing(a)' /\ work'[p] \subseteq head'.tree[p] \cup {a} \cup crashed
                \/ work'[p] \subseteq head'.tree[p] \cup crashed
    PROVE  CheckoutInv'
  <1> USE DEF CheckoutInv
  <1>0. a \in Writers /\ a \notin Stages
    BY WriterAssumption DEF Writers
  <1>1. \A v \in Writers : v # a => pc'[v] \notin Busy /\ pc'[v] \notin Window
                                    /\ pc'[v] \notin {"placing", "staged"}
    BY <1>0, Alone DEF PublishInv
  <1>2. WindowIsOwn'
    BY <1>1 DEF WindowIsOwn, Window
  <1>3. \A t \in Stages : pc'[t] \notin Busy
    BY <1>0, <1>1 DEF Writers
  <1>4. RunIsTidy'
    BY <1>3 DEF RunIsTidy
  <1>5. DebrisIsKnown'
    <2>1. \A p \in Pages : Wrecked(p)' <=> Wrecked(p)
      BY DEF Wrecked
    <2>2. (\A p \in Stray : p \in Pages)'
      BY DEF Stray
    <2> QED BY <2>1, <2>2 DEF DebrisIsKnown
  <1>6. ContentIsKnown'
    BY DEF ContentIsKnown
  <1>7. KilledStay'
    BY <1>0 DEF KilledStay, Writers
  <1> QED BY <1>2, <1>4, <1>5, <1>6, <1>7

\* The writer in the lock leaves index and working tree at HEAD.
LEMMA TreeIsClean ==
    ASSUME CheckoutInv, PublishInv', NothingTornIsKept', HandsAreNew',
           NEW w \in Writers, pc[w] \in Holding,
           pc'[w] \notin Window \cup {"idle"},
           \A v \in Writers : v # w => pc'[v] = pc[v],
           \A v \in Operators : touched'[v] = touched[v],
           crashed' = crashed,
           \A p \in Pages : work'[p] = head'.tree[p] /\ index'[p] = head'.tree[p]
    PROVE  CheckoutInv'
  <1> USE DEF CheckoutInv
  <1>1. \A v \in Writers : v # w => pc'[v] \notin Busy /\ pc'[v] \notin Window
                                    /\ pc'[v] \notin {"placing", "staged"}
    BY Alone DEF PublishInv
  <1>2. Stray' = {} /\ Staged' = {}
    BY DEF Stray, Staged
  <1>3. HeadIsKept' /\ WindowIsOwn'
    BY <1>1 DEF HeadIsKept, WindowIsOwn, Window
  <1>4. RunIsTidy' /\ DebrisIsKnown' /\ ContentIsKnown'
    BY <1>2 DEF RunIsTidy, DebrisIsKnown, ContentIsKnown, NothingTornIsKept
  <1>5. KilledStay'
    <2>1. w \in Stages => w \notin crashed
      BY DEF KilledStay, Holding, Window
    <2> QED BY <2>1 DEF KilledStay, Writers
  <1> QED BY <1>3, <1>4, <1>5

-----------------------------------------------------------------------------
LEMMA CheckCheckout ==
    ASSUME CheckoutInv, PublishInv', NEW w \in Writers, Check(w)
    PROVE  CheckoutInv'
  <1> USE DEF CheckoutInv, tree_vars, proposal_vars
  <1>0. /\ UNCHANGED <<head, work, index, hand, base, want, paths, todo, touched,
                       crashed>>
        /\ pc[w] = "locked" /\ pc[w] \in Busy /\ pc[w] \notin {"placing", "staged"}
    BY DEF Check, Busy, Holding
  <1>1. ASSUME NEW a \in {"moved", "dirty"}, Refuse(w, a)
        PROVE  CheckoutInv'
    <2>1. CASE w \in Operators
      <3>1. /\ pc' = [pc EXCEPT ![w] = a] /\ w \notin Stages
            /\ a \notin Window /\ a \notin {"placing", "staged", "idle"}
        BY <1>1, <2>1, WriterAssumption DEF Refuse, Answer, Window
      <3> QED BY <1>0, <3>1, OutsideMoves
    <2>2. CASE w \notin Operators
      <3>1. w \in Stages /\ pc' = [pc EXCEPT ![w] = "refused"]
        BY <1>1, <2>2 DEF Refuse, Writers
      <3> QED BY <1>0, <3>1, RunMoves
    <2> QED BY <2>1, <2>2
  <1>2. ASSUME AtBase(w), Unowned(w) = {}, Differing(w) = {}, Answer(w, "nothing")
        PROVE  CheckoutInv'
    <2>0. pc' = [pc EXCEPT ![w] = "nothing"]
      BY <1>2 DEF Answer
    <2>1. CASE w \in Operators
      <3>1. /\ w \notin Stages /\ "nothing" \notin Window
        BY <2>1, WriterAssumption DEF Window
      <3> QED BY <1>0, <2>0, <2>1, <3>1, OutsideMoves
    <2>2. CASE w \notin Operators
      <3>1. w \in Stages
        BY <2>2 DEF Writers
      <3>2. base[w] = head
        BY <1>2 DEF PublishInv, BaseIsPast, AtBase
      <3>3. Stray = {}
        BY <1>2, <3>2, StrayDiffers
      <3>4. NothingTornIsKept' /\ HeadIsKept' /\ HandsAreNew' /\ Stray' = Stray
        BY <1>0, Still
      <3> QED BY <1>0, <2>0, <3>1, <3>3, <3>4, RunEnds DEF Answered
    <2> QED BY <2>1, <2>2
  <1>3. ASSUME Unowned(w) = {}, pc' = [pc EXCEPT ![w] = "checked"]
        PROVE  CheckoutInv'
    <2>1. CASE w \in Operators
      <3>1. w \notin Stages
        BY <2>1, WriterAssumption
      <3> QED BY <1>0, <1>3, <3>1, OutsideMoves
    <2>2. CASE w \notin Operators
      <3>1. w \in Stages
        BY <2>2 DEF Writers
      <3> QED BY <1>0, <1>3, <3>1, RunMoves
    <2> QED BY <2>1, <2>2
  <1> QED BY <1>1, <1>2, <1>3 DEF Check

LEMMA LintCheckout ==
    ASSUME CheckoutInv, PublishInv', NEW w \in Writers, Lint(w)
    PROVE  CheckoutInv'
  <1> USE DEF CheckoutInv, tree_vars, proposal_vars
  <1>0. /\ UNCHANGED <<head, work, index, hand, base, want, paths, touched, crashed>>
        /\ pc[w] = "checked" /\ pc[w] \in Busy /\ pc[w] \in Window
        /\ pc[w] \in Holding
    BY DEF Lint, Busy, Holding, Window
  <1>1. ASSUME NEW a \in {"blocked", "failed"}, Refuse(w, a), todo' = todo
        PROVE  CheckoutInv'
    <2>1. CASE w \in Operators
      <3>1. /\ pc' = [pc EXCEPT ![w] = a] /\ w \notin Stages
            /\ a \notin Window /\ a \notin {"placing", "staged", "idle"}
        BY <1>1, <2>1, WriterAssumption DEF Refuse, Answer, Window
      <3> QED BY <1>0, <1>1, <3>1, OutsideMoves
    <2>2. CASE w \notin Operators
      <3>1. w \in Stages /\ pc' = [pc EXCEPT ![w] = "failing"]
        BY <1>1, <2>2 DEF Refuse, Writers
      <3> QED BY <1>0, <1>1, <3>1, RunMoves
    <2> QED BY <2>1, <2>2
  <1>2. ASSUME pc' = [pc EXCEPT ![w] = "placing"],
               todo' = [todo EXCEPT ![w] = Differing(w)]
        PROVE  CheckoutInv'
    <2>1. /\ \A v \in Writers : v # w => pc'[v] = pc[v]
          /\ pc'[w] = "placing" /\ todo'[w] = Differing(w)
      BY <1>2 DEF PublishInv, TypeOK
    <2>2. /\ NothingTornIsKept' /\ HeadIsKept' /\ HandsAreNew'
          /\ Stray' = Stray /\ Staged' = Staged
          /\ \A p \in Pages : Handed(p)' <=> Handed(p)
      BY <1>0, Still
    <2>3. Unowned(w)' = {}
      <3>1. Unowned(w) = {}
        BY <1>0 DEF WindowIsOwn
      <3> QED BY <1>0, <2>2, <3>1 DEF Unowned
    <2>4. Differing(w)' = Differing(w)
      BY <1>0 DEF Differing
    <2>5. \A v \in Writers : v # w => pc[v] \notin Busy
                                      /\ pc[v] \notin {"placing", "staged"}
      BY <1>0, Alone DEF PublishInv
    <2>6. CASE w \in Operators
      <3>1. w \notin Stages
        BY <2>6, WriterAssumption
      <3>2. \A s \in Stages : pc[s] \notin Busy
        BY <2>5, <3>1 DEF Writers
      <3>3. \A b \in Operators : Writing(b) = {}
        BY <1>0, <2>5 DEF Writing, Writers
      <3>4. \A p \in Stray : Handed(p) \/ Wrecked(p)
        BY <3>2, <3>3 DEF DebrisIsKnown
      <3>5. \A p \in Pages : \/ Torn \in work[p]
                             \/ Handed(p)
                             \/ work[p] \subseteq head.tree[p] \cup crashed
        BY <3>2, <3>3 DEF ContentIsKnown
      <3> QED BY <1>0, <2>1, <2>2, <2>3, <2>4, <2>6, <3>4, <3>5, ActGoesOn
    <2>7. CASE w \notin Operators
      <3>1. w \in Stages /\ "placing" \in Busy
        BY <2>7 DEF Writers, Busy, Holding, Window
      <3>2. \A b \in Operators : Writing(b) = {}
        BY <2>5, <2>7 DEF Writing, Writers
      <3>3. \A s \in Stages : pc[s] \in Busy <=> s = w
        BY <1>0, <2>5, <3>1 DEF Writers
      <3>4. \A p \in Pages : /\ Torn \notin work[p]
                             /\ p \in Stray => Handed(p) \/ p \in paths[w]
                             /\ p \in Staged => Handed(p)
        BY <1>0, <3>1 DEF RunIsTidy, Answerable
      <3>5. \A p \in Pages : \/ Handed(p)
                             \/ work[p] \subseteq head.tree[p] \cup {w} \cup crashed
        BY <3>2, <3>3, <3>4 DEF ContentIsKnown
      <3>6. Answerable(w)' = paths[w]
        BY <1>0, <2>1 DEF Answerable
      <3> QED BY <1>0, <2>1, <2>2, <2>3, <2>4, <3>1, <3>4, <3>5, <3>6, RunGoesOn
    <2> QED BY <2>6, <2>7
  <1> QED BY <1>1, <1>2 DEF Lint

\* In its window a writer wants HEAD's content with its own mark, a stage
\* perhaps with a hand's.
LEMMA WindowWants ==
    ASSUME CheckoutInv, NEW w \in Writers, pc[w] \in Window, NEW p \in Pages
    PROVE  /\ head.tree[p] \subseteq want[w][p]
           /\ Torn \notin want[w][p]
           /\ w \in Operators => want[w][p] \subseteq head.tree[p] \cup {w}
           /\ w \in Stages => want[w][p] \subseteq head.tree[p] \cup {w} \cup HandMarks
  <1>1. base[w].tree = head.tree
    BY WindowStray
  <1>2. Torn \notin want[w][p]
    BY DEF CheckoutInv, NothingTornIsKept
  <1>3. CASE w \in Operators
    <2>1. w \notin Stages /\ pc[w] # "idle"
      BY <1>3, WriterAssumption DEF Window
    <2>2. want[w] = [q \in Pages |-> IF q \in Touches[w] THEN base[w].tree[q] \cup {w}
                                     ELSE base[w].tree[q]]
      BY <1>3, <2>1 DEF CheckoutInv, PublishInv, ActProposal
    <2>3. want[w][p] = IF p \in Touches[w] THEN base[w].tree[p] \cup {w}
                       ELSE base[w].tree[p]
      BY <2>2
    <2> QED BY <1>1, <1>2, <2>1, <2>3
  <1>4. CASE w \in Stages
    <2>1. w \notin Operators
      BY <1>4, WriterAssumption
    <2>2. RunContent(w, p, want[w][p])
      BY <1>4 DEF CheckoutInv, PublishInv, StageContent
    <2> QED BY <1>1, <1>2, <2>1, <2>2 DEF RunContent
  <1> QED BY <1>3, <1>4 DEF Writers

LEMMA PlaceCheckout ==
    ASSUME CheckoutInv, PublishInv', NEW w \in Writers, Place(w)
    PROVE  CheckoutInv'
  <1> USE DEF CheckoutInv
  <1>0. /\ UNCHANGED <<head, index, hand, base, want, paths, touched, pc, crashed>>
        /\ pc[w] = "placing" /\ pc[w] \in Busy /\ pc[w] \in Window
        /\ pc[w] \in Holding
    BY DEF Place, Busy, Holding, Window
  <1>1. PICK p \in todo[w] : /\ work' = [work EXCEPT ![p] = want[w][p]]
                             /\ todo' = [todo EXCEPT ![w] = @ \ {p}]
    BY DEF Place
  <1>2. /\ base[w] = head
        /\ \A q \in Stray : /\ q \in paths[w] /\ q \in Differing(w)
                            /\ work[q] = want[w][q]
        /\ \A q \in Differing(w) : q \in Pages /\ q \in paths[w]
    BY <1>0, WindowStray
  <1>3. todo[w] \subseteq Differing(w) /\ p \in Differing(w) /\ p \in Pages
    BY <1>0, <1>1, <1>2 DEF WindowIsOwn
  <1>4. /\ work'[p] = want[w][p]
        /\ \A q \in Pages : q # p => work'[q] = work[q]
        /\ todo'[w] \subseteq todo[w]
        /\ p \in Stray => work' = work
    <2>1. work \in [Pages -> SUBSET Marks] /\ todo \in [Writers -> SUBSET Pages]
      BY DEF PublishInv, TypeOK, Tree
    <2>2. p \in Stray => work[p] = want[w][p]
      BY <1>2
    <2> QED BY <1>1, <1>3, <2>1, <2>2
  <1>5. NothingTornIsKept'
    BY <1>0 DEF NothingTornIsKept
  <1>6. /\ head.tree[p] \subseteq want[w][p]
        /\ Torn \notin want[w][p]
        /\ w \in Operators => want[w][p] \subseteq head.tree[p] \cup {w}
        /\ w \in Stages => want[w][p] \subseteq head.tree[p] \cup {w} \cup HandMarks
    BY <1>0, <1>3, WindowWants
  <1>7. HeadIsKept'
    <2> SUFFICES ASSUME NEW q \in Pages, Torn \notin work'[q]
                 PROVE  head.tree[q] \subseteq index[q] /\ index[q] \subseteq work'[q]
      BY <1>0 DEF HeadIsKept
    <2>1. CASE q # p \/ p \in Stray
      BY <1>4, <2>1 DEF HeadIsKept
    <2>2. CASE q = p /\ p \notin Stray
      BY <1>3, <1>4, <1>6, <2>2, StrayPage
    <2> QED BY <2>1, <2>2
  <1>8. HandsAreNew'
    <2> SUFFICES ASSUME NEW m \in HandMarks, hand[m] = NoPage, NEW q \in Pages
                 PROVE  m \notin work'[q]
      BY <1>0 DEF HandsAreNew
    <2> QED BY <1>3, <1>4 DEF HandsAreNew
  <1>9. /\ \A q \in Stray' : q \in Stray \/ q = p
        /\ Staged' = Staged
    BY <1>0, <1>4 DEF Stray, Staged
  <1>10. \A q \in Pages : q # p \/ p \in Stray => (Handed(q)' <=> Handed(q))
    BY <1>0, <1>4 DEF Handed, Uncommitted
  <1>11. Unowned(w)' = {}
    <2> SUFFICES ASSUME NEW q \in Stray'
                 PROVE  q \in paths[w] /\ work'[q] = want[w][q]
      BY <1>0 DEF Unowned
    <2> QED BY <1>2, <1>3, <1>4, <1>9 DEF Stray
  <1>12. Differing(w)' = Differing(w) /\ todo'[w] \subseteq Differing(w)
    BY <1>0, <1>3, <1>4 DEF Differing
  <1>13. \A v \in Writers : v # w => pc[v] \notin Busy
                                     /\ pc[v] \notin {"placing", "staged"}
    BY <1>0, Alone DEF PublishInv
  <1>14. CASE w \in Operators
    <2>1. \A s \in Stages : pc[s] \notin Busy
      BY <1>13, <1>14, WriterAssumption DEF Writers
    <2>2. /\ \A b \in Operators : b # w => Writing(b) = {}
          /\ Writing(w) = Differing(w) /\ Writing(w)' = Differing(w)
      BY <1>0, <1>12, <1>13 DEF Writing, Writers
    <2>3. \A q \in Pages : q \in Stray => Handed(q) \/ Wrecked(q) \/ q \in Writing(w)
      BY <2>1, <2>2 DEF DebrisIsKnown
    <2>4. \A q \in Pages : \/ Torn \in work[q]
                           \/ Handed(q)
                           \/ q \in Writing(w) /\ work[q] \subseteq head.tree[q] \cup {w} \cup crashed
                           \/ work[q] \subseteq head.tree[q] \cup crashed
      BY <2>1, <2>2 DEF ContentIsKnown
    <2>5. work'[p] \subseteq head.tree[p] \cup {w}
      BY <1>4, <1>6, <1>14
    <2>6. \A q \in Pages :
             /\ q \in Stray' => Handed(q)' \/ Wrecked(q) \/ q \in Writing(w)'
             /\ \/ Torn \in work'[q]
                \/ Handed(q)'
                \/ q \in Writing(w)' /\ work'[q] \subseteq head.tree[q] \cup {w} \cup crashed
                \/ work'[q] \subseteq head.tree[q] \cup crashed
      <3> SUFFICES ASSUME NEW q \in Pages
                   PROVE /\ q \in Stray' => Handed(q)' \/ Wrecked(q) \/ q \in Writing(w)'
                         /\ \/ Torn \in work'[q]
                            \/ Handed(q)'
                            \/ q \in Writing(w)' /\ work'[q] \subseteq head.tree[q] \cup {w} \cup crashed
                            \/ work'[q] \subseteq head.tree[q] \cup crashed
        OBVIOUS
      <3>1. CASE q = p
        BY <1>3, <2>2, <2>5, <3>1
      <3>2. CASE q # p
        BY <1>4, <1>9, <1>10, <2>2, <2>3, <2>4, <3>2
      <3> QED BY <3>1, <3>2
    <2> QED BY <1>0, <1>5, <1>7, <1>8, <1>11, <1>12, <1>14, <2>6, ActGoesOn
  <1>15. CASE w \in Stages
    <2>1. /\ \A s \in Stages : pc[s] \in Busy <=> s = w
          /\ \A b \in Operators : Writing(b) = {}
      BY <1>0, <1>13, <1>15, WriterAssumption DEF Writing, Writers
    <2>2. \A q \in Pages : /\ Torn \notin work[q]
                           /\ q \in Staged => Handed(q)
      BY <1>0, <1>15 DEF RunIsTidy
    <2>3. \A q \in Pages : Handed(q) \/ work[q] \subseteq head.tree[q] \cup {w} \cup crashed
      BY <2>1, <2>2 DEF ContentIsKnown
    <2>4. work'[p] \subseteq head.tree[p] \cup {w} \cup HandMarks
      BY <1>4, <1>6, <1>15
    <2>5. Handed(p)' \/ work'[p] \subseteq head.tree[p] \cup {w} \cup crashed
      BY <1>0, <2>4 DEF Handed, Uncommitted
    <2>6. Answerable(w)' = paths[w]
      BY <1>0 DEF Answerable
    <2>7. \A q \in Pages :
             /\ Torn \notin work'[q]
             /\ q \in Stray' => q \in Answerable(w)'
             /\ q \in Staged' => Handed(q)'
             /\ Handed(q)' \/ work'[q] \subseteq head.tree[q] \cup {w} \cup crashed
      <3> SUFFICES ASSUME NEW q \in Pages
                   PROVE /\ Torn \notin work'[q]
                         /\ q \in Stray' => q \in Answerable(w)'
                         /\ q \in Staged' => Handed(q)'
                         /\ Handed(q)' \/ work'[q] \subseteq head.tree[q] \cup {w} \cup crashed
        OBVIOUS
      <3>1. CASE q = p
        <4>1. p \in Staged => p \in Stray
          BY <1>3, StrayPage
        <4> QED BY <1>2, <1>3, <1>4, <1>6, <1>9, <1>10, <2>2, <2>5, <2>6, <3>1, <4>1
      <3>2. CASE q # p
        BY <1>2, <1>4, <1>9, <1>10, <2>2, <2>3, <2>6, <3>2
      <3> QED BY <3>1, <3>2
    <2> QED BY <1>0, <1>5, <1>7, <1>8, <1>11, <1>12, <1>15, <2>7, RunGoesOn
  <1> QED BY <1>14, <1>15 DEF Writers

LEMMA GitAddCheckout ==
    ASSUME CheckoutInv, PublishInv', NEW w \in Writers, GitAdd(w)
    PROVE  CheckoutInv'
  <1> USE DEF CheckoutInv
  <1>0. /\ UNCHANGED <<head, work, hand, base, want, paths, todo, touched, crashed>>
        /\ pc[w] = "placing" /\ pc[w] \in Busy /\ pc[w] \in Window
        /\ pc[w] \in Holding
        /\ pc' = [pc EXCEPT ![w] = "staged"]
        /\ "staged" \in Busy
    BY DEF GitAdd, Busy, Holding, Window, proposal_vars
  <1>1. /\ pc'[w] = "staged"
        /\ \A v \in Writers : v # w => pc'[v] = pc[v]
    BY <1>0 DEF PublishInv, TypeOK
  <1>2. \A q \in Pages : index'[q] = IF q \in Differing(w) THEN work[q] ELSE index[q]
    BY DEF GitAdd, Overlay
  <1>3. NothingTornIsKept'
    BY <1>0 DEF NothingTornIsKept
  <1>4. HeadIsKept'
    BY <1>0, <1>2 DEF HeadIsKept
  <1>5. HandsAreNew'
    BY <1>0, <1>2 DEF HandsAreNew
  <1>6. \A q \in Stray' : q \in Stray
    BY <1>0, <1>2 DEF Stray
  <1>7. \A q \in Staged' : q \in Staged \/ q \in Differing(w)
    BY <1>0, <1>2 DEF Staged
  <1>8. \A q \in Pages : Handed(q)' <=> Handed(q)
    BY <1>0 DEF Handed, Uncommitted
  <1>9. Unowned(w)' = {}
    <2>1. Unowned(w) = {}
      BY <1>0 DEF WindowIsOwn
    <2> QED BY <1>0, <1>6, <2>1 DEF Unowned
  <1>10. Differing(w)' = Differing(w)
    BY <1>0 DEF Differing
  <1>11. \A v \in Writers : v # w => pc[v] \notin Busy
                                     /\ pc[v] \notin {"placing", "staged"}
    BY <1>0, Alone DEF PublishInv
  <1>12. CASE w \in Operators
    <2>1. \A s \in Stages : pc[s] \notin Busy
      BY <1>11, <1>12, WriterAssumption DEF Writers
    <2>2. /\ \A b \in Operators : b # w => Writing(b) = {}
          /\ Writing(w)' = Writing(w)
      BY <1>0, <1>1, <1>10, <1>11 DEF Writing, Writers
    <2>3. \A q \in Pages : q \in Stray => Handed(q) \/ Wrecked(q) \/ q \in Writing(w)
      BY <2>1, <2>2 DEF DebrisIsKnown
    <2>4. \A q \in Pages : \/ Torn \in work[q]
                           \/ Handed(q)
                           \/ q \in Writing(w) /\ work[q] \subseteq head.tree[q] \cup {w} \cup crashed
                           \/ work[q] \subseteq head.tree[q] \cup crashed
      BY <2>1, <2>2 DEF ContentIsKnown
    <2> QED BY <1>0, <1>1, <1>3, <1>4, <1>5, <1>6, <1>8, <1>9, <1>12, <2>2, <2>3,
               <2>4, ActGoesOn
  <1>13. CASE w \in Stages
    <2>1. /\ \A s \in Stages : pc[s] \in Busy <=> s = w
          /\ \A b \in Operators : Writing(b) = {}
      BY <1>0, <1>11, <1>13, WriterAssumption DEF Writing, Writers
    <2>2. \A q \in Pages : /\ Torn \notin work[q]
                           /\ q \in Stray => Handed(q) \/ q \in paths[w]
                           /\ q \in Staged => Handed(q)
      BY <1>0, <1>13 DEF RunIsTidy, Answerable
    <2>3. \A q \in Pages : Handed(q) \/ work[q] \subseteq head.tree[q] \cup {w} \cup crashed
      BY <2>1, <2>2 DEF ContentIsKnown
    <2>4. Answerable(w)' = paths[w]
      BY <1>0, <1>1 DEF Answerable
    <2> QED BY <1>0, <1>1, <1>3, <1>4, <1>5, <1>6, <1>7, <1>8, <1>9, <1>10, <1>13,
               <2>2, <2>3, <2>4, RunGoesOn
  <1> QED BY <1>12, <1>13 DEF Writers

LEMMA GitCommitCheckout ==
    ASSUME CheckoutInv, PublishInv', NEW w \in Writers, GitCommit(w)
    PROVE  CheckoutInv'
  <1> USE DEF CheckoutInv
  <1>0. /\ UNCHANGED <<work, hand, base, want, paths, todo, touched, crashed>>
        /\ pc[w] \in Window /\ pc[w] \in Holding /\ pc[w] = "staged"
        /\ pc' = [pc EXCEPT ![w] = "landed"]
        /\ "landed" \notin Window \cup {"idle"}
    BY DEF GitCommit, Holding, Window, proposal_vars
  <1>1. /\ pc'[w] = "landed"
        /\ \A v \in Writers : v # w => pc'[v] = pc[v]
    BY <1>0 DEF PublishInv, TypeOK
  <1>2. /\ \A q \in Stray : q \in Differing(w)
        /\ \A q \in Differing(w) : q \in Pages
    BY <1>0, WindowStray
  <1>3. /\ head'.tree = Overlay(head.tree, Differing(w), work)
        /\ index' = Overlay(index, Differing(w), work)
    BY DEF GitCommit
  <1>4. \A q \in Pages : work'[q] = head'.tree[q] /\ index'[q] = head'.tree[q]
    <2> SUFFICES ASSUME NEW q \in Pages
                 PROVE  work[q] = head'.tree[q] /\ index'[q] = head'.tree[q]
      BY <1>0
    <2>1. CASE q \in Differing(w)
      BY <1>3, <2>1 DEF Overlay
    <2>2. CASE q \notin Differing(w)
      BY <1>2, <1>3, <2>2, StrayPage DEF Overlay
    <2> QED BY <2>1, <2>2
  <1>5. NothingTornIsKept'
    <2> SUFFICES ASSUME NEW q \in Pages PROVE Torn \notin work[q]
      BY <1>0, <1>4 DEF NothingTornIsKept
    <2>1. CASE q \in Differing(w)
      BY <1>0, <2>1 DEF PublishInv, PlacedPages, NothingTornIsKept
    <2>2. CASE q \notin Differing(w)
      BY <1>2, <2>2, StrayPage DEF NothingTornIsKept
    <2> QED BY <2>1, <2>2
  <1>6. HandsAreNew'
    BY <1>0, <1>4 DEF HandsAreNew
  <1> QED BY <1>0, <1>1, <1>4, <1>5, <1>6, TreeIsClean

LEMMA DoneCheckout ==
    ASSUME CheckoutInv, PublishInv', NEW w \in Writers, Done(w)
    PROVE  CheckoutInv'
  <1> USE DEF CheckoutInv
  <1>0. /\ UNCHANGED <<head, work, index, hand, base, want, paths, todo, touched,
                       crashed>>
        /\ pc[w] = "landed" /\ pc[w] \in Busy
        /\ pc' = [pc EXCEPT ![w] = "committed"]
        /\ "committed" \notin Window
    BY DEF Done, Answer, Busy, Holding, Window, tree_vars, proposal_vars
  <1>1. CASE w \in Operators
    <2>1. w \notin Stages
      BY <1>1, WriterAssumption
    <2> QED BY <1>0, <1>1, <2>1, OutsideMoves
  <1>2. CASE w \in Stages
    <2>1. \A p \in Stray : Handed(p) /\ p \in Pages
      BY <1>0, <1>2 DEF RunIsTidy, Stray
    <2>2. /\ NothingTornIsKept' /\ HeadIsKept' /\ HandsAreNew' /\ Stray' = Stray
          /\ \A p \in Pages : Handed(p)' <=> Handed(p)
      BY <1>0, Still
    <2> QED BY <1>0, <1>2, <2>1, <2>2, RunEnds DEF Answered
  <1> QED BY <1>1, <1>2 DEF Writers

LEMMA CommitFailsCheckout ==
    ASSUME LateFailure = FALSE, CheckoutInv, PublishInv',
           NEW w \in Writers, CommitFails(w)
    PROVE  CheckoutInv'
  <1> USE DEF CheckoutInv
  <1>0. /\ UNCHANGED <<head, hand, base, want, paths, todo, touched, crashed>>
        /\ pc[w] \in Window /\ pc[w] \in Holding
        /\ Restore(paths[w], base[w].tree)
        /\ \E a \in {"failed", "failing"} : pc' = [pc EXCEPT ![w] = a]
    BY DEF CommitFails, Restore, Answer, Holding, Window, proposal_vars
  <1>1. /\ pc'[w] \in {"failed", "failing"}
        /\ \A v \in Writers : v # w => pc'[v] = pc[v]
    BY <1>0 DEF PublishInv, TypeOK
  <1>2. base[w] = head /\ \A q \in Stray : q \in paths[w]
    BY <1>0, WindowStray
  <1>3. \A q \in Pages : work'[q] = head'.tree[q] /\ index'[q] = head'.tree[q]
    <2> SUFFICES ASSUME NEW q \in Pages
                 PROVE  work'[q] = head.tree[q] /\ index'[q] = head.tree[q]
      BY <1>0
    <2>1. CASE q \in paths[w]
      BY <1>0, <1>2, <2>1 DEF Restore, Overlay
    <2>2. CASE q \notin paths[w]
      BY <1>0, <1>2, <2>2, StrayPage DEF Restore, Overlay
    <2> QED BY <2>1, <2>2
  <1>4. NothingTornIsKept' /\ HandsAreNew'
    BY <1>0, <1>3 DEF NothingTornIsKept, HandsAreNew
  <1>5. pc'[w] \notin Window \cup {"idle"}
    BY <1>1 DEF Window
  <1> QED BY <1>0, <1>1, <1>3, <1>4, <1>5, TreeIsClean

-----------------------------------------------------------------------------
LEMMA BuildCheckout ==
    ASSUME CheckoutInv, PublishInv', NEW a \in Operators, Build(a)
    PROVE  CheckoutInv'
  <1> USE DEF CheckoutInv
  <1>0. /\ a \in Writers /\ a \notin Stages /\ a # Torn /\ a \notin HandMarks
        /\ UNCHANGED <<head, work, index, hand, todo, touched, crashed>>
        /\ pc' = [pc EXCEPT ![a] = "ready"]
        /\ pc[a] \notin {"placing", "staged"}
    BY WriterAssumption DEF Build, Writers, tree_vars
  <1>1. /\ pc'[a] = "ready"
        /\ \A v \in Writers : v # a => /\ pc'[v] = pc[v]
                                       /\ base'[v] = base[v]
                                       /\ paths'[v] = paths[v]
                                       /\ want'[v] = want[v]
    BY <1>0 DEF PublishInv, TypeOK, Build
  <1>2. /\ base'[a] = head
        /\ paths'[a] = Touches[a]
        /\ \A p \in Pages : want'[a][p] \subseteq head.tree[p] \cup {a}
    BY <1>0 DEF PublishInv, TypeOK, Build
  <1>3. NothingTornIsKept'
    <2> SUFFICES ASSUME NEW v \in Writers, NEW p \in Pages
                 PROVE  Torn \notin base'[v].tree[p] /\ Torn \notin want'[v][p]
      BY <1>0 DEF NothingTornIsKept
    <2>1. CASE v = a
      BY <1>0, <1>2, <2>1 DEF NothingTornIsKept
    <2>2. CASE v # a
      BY <1>1, <2>2 DEF NothingTornIsKept
    <2> QED BY <2>1, <2>2
  <1>4. HandsAreNew'
    <2> SUFFICES ASSUME NEW m \in HandMarks, hand[m] = NoPage,
                        NEW v \in Writers, NEW p \in Pages
                 PROVE  m \notin base'[v].tree[p] \cup want'[v][p]
      BY <1>0 DEF HandsAreNew
    <2>1. CASE v = a
      BY <1>0, <1>2, <2>1 DEF HandsAreNew
    <2>2. CASE v # a
      BY <1>1, <2>2 DEF HandsAreNew
    <2> QED BY <2>1, <2>2
  <1>5. /\ HeadIsKept' /\ Stray' = Stray /\ Staged' = Staged
        /\ \A p \in Pages : Handed(p)' <=> Handed(p)
        /\ \A p \in Stray : p \in Pages
        /\ \A p \in Staged : p \in Pages
    BY <1>0 DEF HeadIsKept, Stray, Staged, Handed, Uncommitted
  <1>6. \A v \in Writers : v # a => /\ Unowned(v)' = Unowned(v)
                                    /\ Differing(v)' = Differing(v)
    BY <1>0, <1>1, <1>5 DEF Unowned, Differing
  <1>7. WindowIsOwn'
    BY <1>0, <1>1, <1>6 DEF WindowIsOwn, Window
  <1>8. \A s \in Stages : s # a /\ s \in Writers
    BY <1>0 DEF Writers
  <1>9. RunIsTidy'
    <2>1. \A s \in Stages : Answerable(s)' = Answerable(s)
      BY <1>0, <1>1, <1>8 DEF Answerable
    <2>2. \A s \in Stages : pc'[s] = pc[s] /\ Differing(s)' = Differing(s)
      BY <1>1, <1>6, <1>8
    <2> QED BY <1>0, <1>5, <2>1, <2>2 DEF RunIsTidy
  <1>10. \A b \in Operators : Writing(b)' = Writing(b)
    <2> SUFFICES ASSUME NEW b \in Operators PROVE Writing(b)' = Writing(b)
      OBVIOUS
    <2>1. CASE b = a
      BY <1>0, <1>1, <2>1 DEF Writing
    <2>2. CASE b # a
      BY <1>1, <1>6, <2>2 DEF Writing, Writers
    <2> QED BY <2>1, <2>2
  <1>11. \A p \in Pages : Wrecked(p)' <=> Wrecked(p)
    <2>1. a \in crashed => paths[a] = Touches[a]
      BY DEF KilledStay, PublishInv, ActProposal
    <2>2. \A v \in crashed : v \in Writers
      BY DEF PublishInv, TypeOK
    <2>3. \A v \in crashed : paths'[v] = paths[v]
      BY <1>1, <1>2, <2>1, <2>2
    <2> QED BY <1>0, <2>3 DEF Wrecked
  <1>12. DebrisIsKnown'
    BY <1>1, <1>5, <1>8, <1>10, <1>11 DEF DebrisIsKnown
  <1>13. ContentIsKnown'
    BY <1>0, <1>1, <1>5, <1>8, <1>10 DEF ContentIsKnown
  <1>14. KilledStay'
    BY <1>0, <1>1, <1>8 DEF KilledStay, Writers
  <1> QED BY <1>3, <1>4, <1>5, <1>7, <1>9, <1>12, <1>13, <1>14

LEMMA BeginCheckout ==
    ASSUME CheckoutInv, PublishInv', NEW s \in Stages, Begin(s)
    PROVE  CheckoutInv'
  <1> USE DEF CheckoutInv
  <1>0. /\ s \in Writers /\ s \notin Operators
        /\ UNCHANGED <<work, index, hand, want, paths, todo, crashed>>
        /\ pc[s] = "begin" /\ pc[s] \in Holding /\ pc[s] \notin Busy
    BY WriterAssumption DEF Begin, Writers, Holding, Busy
  <1>1. CASE Stray # {}
    <2>1. /\ pc' = [pc EXCEPT ![s] = "dirty"]
          /\ UNCHANGED <<head, base, touched>>
      BY <1>1 DEF Begin, Answer
    <2>2. "dirty" \notin Window \cup Busy /\ s \notin crashed
      BY <1>0 DEF Window, Busy, Holding, KilledStay
    <2> QED BY <1>0, <2>1, <2>2, OutsideMoves
  <1>2. CASE Stray = {}
    <2>1. /\ head'.tree = head.tree
          /\ base' = [base EXCEPT ![s] = head']
          /\ touched' = [touched EXCEPT ![s] = {}]
          /\ pc' = [pc EXCEPT ![s] = "writing"]
      BY <1>2 DEF Begin
    <2>2. /\ pc'[s] = "writing" /\ base'[s].tree = head.tree
          /\ \A v \in Writers : v # s => pc'[v] = pc[v] /\ base'[v] = base[v]
          /\ \A v \in Operators : touched'[v] = touched[v]
      BY <1>0, <2>1 DEF PublishInv, TypeOK, Writers
    <2>3. NothingTornIsKept'
      BY <1>0, <2>1, <2>2 DEF NothingTornIsKept
    <2>4. HandsAreNew'
      BY <1>0, <2>1, <2>2 DEF HandsAreNew
    <2>5. \A p \in Pages : work'[p] = head'.tree[p] /\ index'[p] = head'.tree[p]
      BY <1>0, <1>2, <2>1, StrayPage
    <2>6. pc'[s] \notin Window \cup {"idle"}
      BY <2>2 DEF Window
    <2> QED BY <1>0, <2>2, <2>3, <2>4, <2>5, <2>6, TreeIsClean
  <1> QED BY <1>1, <1>2

\* While a stage runs, a page without hand edits holds HEAD, the stage's
\* mark and marks of killed writers.
LEMMA RunContentIs ==
    ASSUME CheckoutInv, NEW s \in Stages, pc[s] \in Busy
    PROVE  \A p \in Pages :
             /\ Torn \notin work[p]
             /\ Handed(p) \/ work[p] \subseteq head.tree[p] \cup {s} \cup crashed
  <1>1. s \in Writers /\ pc[s] \in Holding /\ TypeOK
    BY DEF Writers, Busy, CheckoutInv, PublishInv
  <1>2. \A v \in Writers : v # s => pc[v] \notin Busy
                                    /\ pc[v] \notin {"placing", "staged"}
    BY <1>1, Alone
  <1>3. /\ \A t \in Stages : pc[t] \in Busy <=> t = s
        /\ \A b \in Operators : Writing(b) = {}
    BY <1>2, WriterAssumption DEF Writing, Writers
  <1>4. \A p \in Pages : Torn \notin work[p]
    BY DEF CheckoutInv, RunIsTidy
  <1> QED BY <1>3, <1>4 DEF CheckoutInv, ContentIsKnown

LEMMA AgentWritesCheckout ==
    ASSUME CheckoutInv, PublishInv', NEW s \in Stages, AgentWrites(s)
    PROVE  CheckoutInv'
  <1> USE DEF CheckoutInv
  <1>0. /\ s \in Writers /\ s \notin Operators /\ s # Torn /\ s \notin HandMarks
        /\ UNCHANGED <<head, index, hand, base, want, paths, todo, pc, crashed>>
        /\ pc[s] = "writing" /\ pc[s] \in Busy /\ pc[s] \notin Window
    BY WriterAssumption DEF AgentWrites, Writers, Busy, Holding, Window
  <1>1. PICK p \in Pages : /\ work' = [work EXCEPT ![p] = @ \cup {s}]
                           /\ touched' = [touched EXCEPT ![s] = @ \cup {p}]
    BY DEF AgentWrites
  <1>2. /\ work'[p] = work[p] \cup {s}
        /\ \A q \in Pages : q # p => work'[q] = work[q]
        /\ touched'[s] = touched[s] \cup {p}
        /\ \A v \in Writers : v # s => touched'[v] = touched[v]
    BY <1>0, <1>1 DEF PublishInv, TypeOK, Tree
  <1>3. NothingTornIsKept'
    BY <1>0 DEF NothingTornIsKept
  <1>4. HeadIsKept'
    BY <1>0, <1>2 DEF HeadIsKept
  <1>5. HandsAreNew'
    BY <1>0, <1>2 DEF HandsAreNew
  <1>6. /\ Staged' = Staged
        /\ \A q \in Pages : q \in Stray' => q \in Stray \/ q = p
        /\ \A q \in Pages : Handed(q) => Handed(q)'
    BY <1>0, <1>2 DEF Staged, Stray, Handed, Uncommitted
  <1>7. \A q \in Pages : /\ Torn \notin work[q]
                         /\ q \in Stray => Handed(q) \/ q \in touched[s]
                         /\ q \in Staged => Handed(q)
    BY <1>0 DEF RunIsTidy, Answerable
  <1>8. \A q \in Pages : Handed(q) \/ work[q] \subseteq head.tree[q] \cup {s} \cup crashed
    BY <1>0, RunContentIs
  <1>9. Answerable(s)' = touched'[s]
    BY <1>0 DEF Answerable
  <1>10. \A q \in Pages :
            /\ Torn \notin work'[q]
            /\ q \in Stray' => Handed(q)' \/ q \in Answerable(s)'
            /\ q \in Staged' => Handed(q)'
            /\ Handed(q)' \/ work'[q] \subseteq head.tree[q] \cup {s} \cup crashed
    BY <1>0, <1>2, <1>6, <1>7, <1>8, <1>9
  <1> QED BY <1>0, <1>2, <1>3, <1>4, <1>5, <1>10, RunGoesOn DEF Window

LEMMA CaptureCheckout ==
    ASSUME CheckoutInv, PublishInv', NEW s \in Stages, Capture(s)
    PROVE  CheckoutInv'
  <1> USE DEF CheckoutInv
  <1>0. /\ s \in Writers /\ s \notin Operators
        /\ UNCHANGED <<head, work, index, hand, base, todo, touched, crashed>>
        /\ pc[s] = "writing" /\ pc[s] \in Busy
    BY WriterAssumption DEF Capture, Writers, Busy, Holding, tree_vars
  <1>1. /\ pc'[s] \in {"locked", "failing"}
        /\ paths'[s] = Stray
        /\ want'[s] = Overlay(base[s].tree, Stray, work)
        /\ \A v \in Writers : v # s => /\ pc'[v] = pc[v]
                                       /\ want'[v] = want[v]
    BY <1>0 DEF PublishInv, TypeOK, Capture
  <1>2. \A q \in Pages : want'[s][q] = IF q \in Stray THEN work[q] ELSE base[s].tree[q]
    BY <1>1 DEF Overlay
  <1>3. \A q \in Pages : /\ Torn \notin work[q]
                         /\ q \in Staged => Handed(q)
    BY <1>0 DEF RunIsTidy
  <1>4. NothingTornIsKept'
    <2> SUFFICES ASSUME NEW v \in Writers, NEW q \in Pages PROVE Torn \notin want'[v][q]
      BY <1>0 DEF NothingTornIsKept
    <2> QED BY <1>1, <1>2, <1>3 DEF NothingTornIsKept
  <1>5. HeadIsKept'
    BY <1>0 DEF HeadIsKept
  <1>6. HandsAreNew'
    <2> SUFFICES ASSUME NEW m \in HandMarks, hand[m] = NoPage,
                        NEW v \in Writers, NEW q \in Pages
                 PROVE  m \notin want'[v][q]
      BY <1>0 DEF HandsAreNew
    <2> QED BY <1>1, <1>2 DEF HandsAreNew
  <1>7. /\ Stray' = Stray /\ Staged' = Staged
        /\ \A q \in Pages : Handed(q)' <=> Handed(q)
    BY <1>0 DEF Stray, Staged, Handed, Uncommitted
  <1>8. Stray \subseteq Answerable(s)'
    BY <1>1 DEF Answerable
  <1>9. \A q \in Pages : Handed(q) \/ work[q] \subseteq head.tree[q] \cup {s} \cup crashed
    BY <1>0, RunContentIs
  <1>10. \A q \in Pages :
            /\ Torn \notin work'[q]
            /\ q \in Stray' => q \in Answerable(s)'
            /\ q \in Staged' => Handed(q)'
            /\ Handed(q)' \/ work'[q] \subseteq head'.tree[q] \cup {s} \cup crashed
    BY <1>0, <1>3, <1>7, <1>8, <1>9
  <1>11. /\ pc'[s] \in Busy /\ pc'[s] \notin Window
         /\ pc'[s] # "landed" /\ pc'[s] # "placing"
    BY <1>1 DEF Busy, Holding, Window
  <1> QED BY <1>0, <1>1, <1>4, <1>5, <1>6, <1>10, <1>11, RunGoesOn

LEMMA StageFailsCheckout ==
    ASSUME CheckoutInv, PublishInv', NEW s \in Stages, StageFails(s)
    PROVE  CheckoutInv'
  BY RunMoves DEF StageFails, tree_vars, proposal_vars

\* The two rollbacks of a stage: what they leave stray a hand staged.
LEMMA RestoreCheckout ==
    ASSUME CheckoutInv, PublishInv', NEW s \in Stages, Rollback(s) \/ Refused(s)
    PROVE  CheckoutInv'
  <1> USE DEF CheckoutInv
  <1>0. /\ UNCHANGED <<head, hand, base, want, paths, todo, touched, crashed>>
        /\ pc[s] \in {"failing", "refused"} /\ pc[s] \in Busy
        /\ pc' = [pc EXCEPT ![s] = "failed"]
    BY DEF Rollback, Refused, Restore, Answer, Busy, Holding, proposal_vars
  <1> DEFINE S == IF pc[s] = "failing" THEN Stray \ Staged ELSE paths[s] \ Staged
  <1>1. work' = Overlay(work, S, head.tree) /\ index' = Overlay(index, S, head.tree)
    BY DEF Rollback, Refused, Restore
  <1>2. \A q \in Pages : /\ work'[q] = IF q \in S THEN head.tree[q] ELSE work[q]
                         /\ index'[q] = IF q \in S THEN head.tree[q] ELSE index[q]
    BY <1>1 DEF Overlay
  <1>3. NothingTornIsKept'
    BY <1>0 DEF NothingTornIsKept
  <1>4. HeadIsKept'
    BY <1>0, <1>2 DEF HeadIsKept
  <1>5. HandsAreNew'
    BY <1>0, <1>2 DEF HandsAreNew
  <1>6. ASSUME NEW q \in Stray' PROVE Handed(q)'
    <2>1. q \in Pages /\ q \in Stray /\ q \notin S
      BY <1>0, <1>2, <1>6 DEF Stray
    <2>2. CASE q \in Staged
      <3>1. Handed(q)
        BY <1>0, <2>2 DEF RunIsTidy
      <3> QED BY <1>0, <1>2, <2>1, <3>1 DEF Handed, Uncommitted
    <2>3. CASE q \notin Staged
      <3>1. pc[s] = "refused" /\ q \notin paths[s]
        BY <1>0, <2>1, <2>3
      <3>2. q \notin Answerable(s)
        BY <3>1 DEF Answerable
      <3>3. Handed(q)
        BY <1>0, <2>1, <3>2 DEF RunIsTidy
      <3> QED BY <1>0, <1>2, <2>1, <3>3 DEF Handed, Uncommitted
    <2> QED BY <2>2, <2>3
  <1> QED BY <1>0, <1>3, <1>4, <1>5, <1>6, RunEnds DEF Answered

\* A kill: what it leaves is on pages the writer named or touched.
LEMMA KillCheckout ==
    ASSUME CheckoutInv, PublishInv', NEW w \in Writers, Kill(w)
    PROVE  CheckoutInv'
  <1> USE DEF CheckoutInv
  <1>0. /\ UNCHANGED <<head, index, hand, base, want, paths, todo, touched>>
        /\ pc' = [pc EXCEPT ![w] = "killed"]
        /\ crashed' = crashed \cup {w}
        /\ pc[w] \in Holding
    BY DEF Kill, Answer, proposal_vars, PublishInv, TypeOK
  <1>1. /\ pc'[w] = "killed"
        /\ \A v \in Writers : v # w => pc'[v] = pc[v]
    BY <1>0 DEF PublishInv, TypeOK
  <1>2. /\ Torn \notin HandMarks
        /\ work \in [Pages -> SUBSET Marks]
        /\ todo \in [Writers -> SUBSET Pages]
        /\ paths \in [Writers -> SUBSET Pages]
    BY WriterAssumption DEF PublishInv, TypeOK, Tree
  <1>3. \A v \in Writers : v # w => pc[v] \notin Busy /\ pc[v] \notin Window
                                    /\ pc[v] \notin {"placing", "staged"}
    BY <1>0, Alone DEF PublishInv
  <1>4. \A v \in Writers : pc'[v] \notin Busy /\ pc'[v] \notin Window
                           /\ pc'[v] \notin {"placing", "staged"}
    BY <1>1, <1>3 DEF Busy, Holding, Window
  \* A page moves only when it is torn, and then the writer named it.
  <1>5. \A q \in Pages : \/ work'[q] = work[q]
                         \/ work'[q] = {Torn} /\ q \in paths[w]
    <2>1. CASE UNCHANGED work
      BY <2>1
    <2>2. CASE ~ UNCHANGED work
      <3>1. PICK p \in todo[w] : work' = [work EXCEPT ![p] = {Torn}]
        BY <2>2 DEF Kill
      <3>2. pc[w] = "placing"
        BY <2>2 DEF Kill
      <3>3. p \in paths[w]
        BY <3>1, <3>2 DEF WindowIsOwn, Differing
      <3> QED BY <1>2, <3>1, <3>3
    <2> QED BY <2>1, <2>2
  <1>6. NothingTornIsKept' /\ HeadIsKept'
    BY <1>0, <1>5 DEF NothingTornIsKept, HeadIsKept
  <1>7. HandsAreNew'
    <2> SUFFICES ASSUME NEW m \in HandMarks, hand[m] = NoPage, NEW q \in Pages
                 PROVE  m \notin work'[q]
      BY <1>0 DEF HandsAreNew
    <2> QED BY <1>2, <1>5 DEF HandsAreNew
  <1>8. WindowIsOwn' /\ RunIsTidy'
    <2>1. \A s \in Stages : s \in Writers
      BY DEF Writers
    <2> QED BY <1>4, <2>1 DEF WindowIsOwn, RunIsTidy, Window
  <1>9. \A q \in Pages : /\ Wrecked(q) => Wrecked(q)'
                         /\ q \in paths[w] \cup touched[w] => Wrecked(q)'
    BY <1>0 DEF Wrecked
  <1>10. DebrisIsKnown'
    <2> SUFFICES ASSUME NEW q \in Stray' PROVE Handed(q)' \/ Wrecked(q)'
      BY DEF DebrisIsKnown
    <2>0. q \in Pages
      BY DEF Stray
    <2>1. CASE work'[q] # work[q]
      BY <1>5, <1>9, <2>0, <2>1
    <2>2. CASE work'[q] = work[q]
      <3>1. q \in Stray /\ (Handed(q)' <=> Handed(q))
        BY <1>0, <2>0, <2>2 DEF Stray, Handed, Uncommitted
      <3>2. CASE w \in Stages /\ pc[w] \in Busy
        <4>1. Handed(q) \/ q \in Answerable(w)
          BY <3>1, <3>2 DEF RunIsTidy
        <4>2. Answerable(w) \subseteq paths[w] \cup touched[w]
          BY DEF Answerable
        <4> QED BY <1>9, <2>0, <3>1, <4>1, <4>2
      <3>3. CASE ~ (w \in Stages /\ pc[w] \in Busy)
        <4>1. \A s \in Stages : pc[s] \notin Busy
          BY <1>3, <3>3 DEF Writers
        <4>2. \/ Handed(q) \/ Wrecked(q)
              \/ \E a \in Operators : q \in Writing(a)
          BY <3>1, <4>1 DEF DebrisIsKnown
        <4>3. \A a \in Operators : q \in Writing(a) => q \in paths[w]
          BY <1>3 DEF Writing, Differing, Writers
        <4> QED BY <1>9, <2>0, <3>1, <4>2, <4>3
      <3> QED BY <3>2, <3>3
    <2> QED BY <2>1, <2>2
  <1>11. ContentIsKnown'
    <2> SUFFICES ASSUME NEW q \in Pages, Torn \notin work'[q], ~ Handed(q)'
                 PROVE  work'[q] \subseteq head'.tree[q] \cup crashed'
      BY DEF ContentIsKnown
    <2>1. work'[q] = work[q]
      BY <1>5
    <2>2. ~ Handed(q)
      BY <1>0, <2>1 DEF Handed, Uncommitted
    <2>3. work[q] \subseteq head.tree[q] \cup crashed
                            \cup {a \in Operators : q \in Writing(a)}
                            \cup {s \in Stages : pc[s] \in Busy}
      BY <2>1, <2>2 DEF ContentIsKnown
    <2>4. \A s \in Stages : pc[s] \in Busy => s = w
      BY <1>3 DEF Writers
    <2>5. \A a \in Operators : q \in Writing(a) => a = w
      BY <1>3 DEF Writing, Writers
    <2> QED BY <1>0, <2>1, <2>3, <2>4, <2>5
  <1>12. KilledStay'
    BY <1>0, <1>1 DEF KilledStay, Writers
  <1> QED BY <1>6, <1>7, <1>8, <1>10, <1>11, <1>12

\* A hand moves one page while nobody is in commit()'s window, and what it
\* leaves stray there holds a hand edit.
LEMMA HandMoves ==
    ASSUME CheckoutInv, PublishInv',
           UNCHANGED <<base, want, paths, todo, touched, pc, crashed>>,
           NothingTornIsKept', HeadIsKept', HandsAreNew',
           \A v \in Writers : pc[v] \notin Window,
           NEW p \in Pages,
           \A q \in Pages : q # p => /\ work'[q] = work[q]
                                     /\ index'[q] = index[q]
                                     /\ head'.tree[q] = head.tree[q],
           p \in Stray' => Handed(p)',
           Torn \in work'[p] => Torn \in work[p]
    PROVE  CheckoutInv'
  <1> USE DEF CheckoutInv
  <1>1. WindowIsOwn'
    BY DEF WindowIsOwn, Window
  <1>2. /\ \A q \in Stray' : q \in Pages /\ (q \in Stray \/ Handed(q)')
        /\ \A q \in Staged' : q \in Pages /\ (q \in Staged \/ Handed(q)')
        /\ \A q \in Pages : q # p => (Handed(q)' <=> Handed(q))
        /\ \A q \in Staged' : q \in Stray'
    BY DEF Stray, Staged, Handed, Uncommitted
  <1>3. \A s \in Stages : Answerable(s)' = Answerable(s)
    BY DEF Answerable
  <1>4. RunIsTidy'
    <2> SUFFICES ASSUME NEW s \in Stages, pc[s] \in Busy
                 PROVE  /\ \A q \in Pages : Torn \notin work'[q]
                        /\ \A q \in Stray' : Handed(q)' \/ q \in Answerable(s)
                        /\ \A q \in Staged' : Handed(q)'
                        /\ pc[s] = "landed" => \A q \in Stray' : Handed(q)'
      BY <1>3 DEF RunIsTidy
    <2>1. pc[s] # "staged"
      BY DEF Writers, Window
    <2>2. /\ \A q \in Pages : Torn \notin work[q]
          /\ \A q \in Stray : Handed(q) \/ q \in Answerable(s)
          /\ \A q \in Staged : Handed(q)
          /\ pc[s] = "landed" => \A q \in Stray : Handed(q)
      BY <2>1 DEF RunIsTidy
    <2> QED BY <1>2, <2>2
  <1>5. \A b \in Operators : Writing(b) = {} /\ Writing(b)' = {}
    BY DEF Writing, Window, Writers
  <1>6. DebrisIsKnown'
    <2> SUFFICES ASSUME \A s \in Stages : pc[s] \notin Busy, NEW q \in Stray'
                 PROVE  Handed(q)' \/ Wrecked(q)'
      BY DEF DebrisIsKnown
    <2>1. q = p \/ q \in Stray
      BY <1>2 DEF Stray
    <2>2. q \in Stray => Handed(q) \/ Wrecked(q)
      BY <1>5 DEF DebrisIsKnown
    <2> QED BY <1>2, <2>1, <2>2 DEF Wrecked
  <1>7. ContentIsKnown'
    <2> SUFFICES ASSUME NEW q \in Pages, Torn \notin work'[q], ~ Handed(q)'
                 PROVE  work'[q] \subseteq head'.tree[q] \cup crashed
                                           \cup {s \in Stages : pc[s] \in Busy}
      BY DEF ContentIsKnown
    <2>1. CASE q = p
      <3>1. p \notin Stray'
        BY <2>1
      <3> QED BY <2>1, <3>1 DEF Stray
    <2>2. CASE q # p
      BY <1>2, <1>5, <2>2 DEF ContentIsKnown
    <2> QED BY <2>1, <2>2
  <1>8. KilledStay'
    BY DEF KilledStay
  <1> QED BY <1>1, <1>4, <1>6, <1>7, <1>8

LEMMA HandEditCheckout ==
    ASSUME HandsRace = FALSE, CheckoutInv, PublishInv', NEW m \in HandMarks,
           HandEdit(m)
    PROVE  CheckoutInv'
  <1> USE DEF CheckoutInv
  <1>0. /\ UNCHANGED <<head, index, base, want, paths, todo, touched, pc, crashed>>
        /\ \A v \in Writers : pc[v] \notin Window
        /\ hand[m] = NoPage /\ m # Torn
    BY WriterAssumption DEF HandEdit, HandsMayAct, proposal_vars
  <1>1. PICK p \in Pages : /\ hand' = [hand EXCEPT ![m] = p]
                           /\ work' = [work EXCEPT ![p] = @ \cup {m}]
    BY DEF HandEdit
  <1>2. /\ work'[p] = work[p] \cup {m}
        /\ \A q \in Pages : q # p => work'[q] = work[q]
        /\ hand'[m] # NoPage
        /\ \A n \in HandMarks : n # m => hand'[n] = hand[n]
    BY <1>1, WriterAssumption DEF PublishInv, TypeOK, Tree
  <1>3. NothingTornIsKept'
    BY <1>0 DEF NothingTornIsKept
  <1>4. HeadIsKept'
    BY <1>0, <1>2 DEF HeadIsKept
  <1>5. HandsAreNew'
    BY <1>0, <1>2 DEF HandsAreNew
  <1>6. Handed(p)'
    BY <1>0, <1>2 DEF HandsAreNew, Handed, Uncommitted
  <1> QED BY <1>0, <1>2, <1>3, <1>4, <1>5, <1>6, HandMoves

LEMMA HandStageCheckout ==
    ASSUME HandsRace = FALSE, CheckoutInv, PublishInv', NEW p \in Pages, HandStage(p)
    PROVE  CheckoutInv'
  <1> USE DEF CheckoutInv
  <1>0. /\ UNCHANGED <<head, work, hand, base, want, paths, todo, touched, pc, crashed>>
        /\ \A v \in Writers : pc[v] \notin Window
    BY DEF HandStage, HandsMayAct, proposal_vars
  <1>1. /\ index'[p] = work[p]
        /\ \A q \in Pages : q # p => index'[q] = index[q]
    BY DEF HandStage, PublishInv, TypeOK, Tree
  <1>2. NothingTornIsKept' /\ HeadIsKept' /\ HandsAreNew'
    BY <1>0, <1>1 DEF NothingTornIsKept, HeadIsKept, HandsAreNew
  <1>3. Handed(p)'
    BY <1>0 DEF HandStage, Handed, Uncommitted
  <1> QED BY <1>0, <1>1, <1>2, <1>3, HandMoves

LEMMA HandCommitCheckout ==
    ASSUME HandsRace = FALSE, CheckoutInv, PublishInv', NEW p \in Pages, HandCommit(p)
    PROVE  CheckoutInv'
  <1> USE DEF CheckoutInv
  <1>0. /\ UNCHANGED <<work, hand, base, want, paths, todo, touched, pc, crashed>>
        /\ \A v \in Writers : pc[v] \notin Window
    BY DEF HandCommit, HandsMayAct, proposal_vars
  <1>1. /\ index'[p] = work[p] /\ head'.tree[p] = work[p]
        /\ \A q \in Pages : q # p => /\ index'[q] = index[q]
                                     /\ head'.tree[q] = head.tree[q]
    BY DEF HandCommit, PublishInv, TypeOK, Tree, Revision
  <1>2. Torn \notin work[p]
    BY WriterAssumption DEF HandCommit, Uncommitted, NothingTornIsKept
  <1>3. NothingTornIsKept' /\ HeadIsKept' /\ HandsAreNew'
    BY <1>0, <1>1, <1>2 DEF NothingTornIsKept, HeadIsKept, HandsAreNew
  <1>4. p \notin Stray'
    BY <1>0, <1>1 DEF Stray
  <1> QED BY <1>0, <1>1, <1>3, <1>4, HandMoves

LEMMA HandRestoreCheckout ==
    ASSUME CheckoutInv, PublishInv', NEW p \in Pages, HandRestore(p)
    PROVE  CheckoutInv'
  <1> USE DEF CheckoutInv
  <1>0. /\ UNCHANGED <<head, hand, base, want, paths, todo, touched, pc, crashed>>
        /\ lock = NoWriter
        /\ Restore({p}, head.tree)
    BY DEF HandRestore, Restore, proposal_vars
  <1>1. \A v \in Writers : pc[v] \notin Window
    BY <1>0, WriterAssumption DEF PublishInv, TypeOK, Holding
  <1>2. /\ work'[p] = head.tree[p] /\ index'[p] = head.tree[p]
        /\ \A q \in Pages : q # p => work'[q] = work[q] /\ index'[q] = index[q]
    BY <1>0 DEF Restore, Overlay
  <1>3. NothingTornIsKept' /\ HeadIsKept' /\ HandsAreNew'
    BY <1>0, <1>2 DEF NothingTornIsKept, HeadIsKept, HandsAreNew
  <1>4. p \notin Stray' /\ Torn \notin work'[p]
    BY <1>0, <1>2 DEF Stray, NothingTornIsKept
  <1> QED BY <1>0, <1>1, <1>2, <1>3, <1>4, HandMoves

-----------------------------------------------------------------------------
LEMMA CheckoutInit == Init => CheckoutInv
  <1> SUFFICES ASSUME Init PROVE CheckoutInv
    OBVIOUS
  <1>1. PublishInv
    BY PublishInit
  <1>2. /\ \A p \in Pages : head.tree[p] = {} /\ work[p] = {} /\ index[p] = {}
        /\ \A w \in Writers : base[w].tree = head.tree /\ want[w] = head.tree
        /\ \A w \in Writers : pc[w] = "idle" /\ touched[w] = {}
        /\ crashed = {}
    BY DEF Init
  <1>3. Stray = {} /\ Staged = {}
    BY <1>2 DEF Stray, Staged
  <1>4. NothingTornIsKept /\ HeadIsKept /\ HandsAreNew
    BY <1>2 DEF NothingTornIsKept, HeadIsKept, HandsAreNew
  <1>5. WindowIsOwn /\ RunIsTidy /\ DebrisIsKnown
    BY <1>2, <1>3 DEF WindowIsOwn, RunIsTidy, DebrisIsKnown, Window, Busy, Holding,
                      Writers
  <1>6. ContentIsKnown /\ KilledStay
    BY <1>2 DEF ContentIsKnown, KilledStay, Writers
  <1> QED BY <1>1, <1>4, <1>5, <1>6 DEF CheckoutInv

LEMMA CheckoutStep ==
    ASSUME HandsRace = FALSE, LateFailure = FALSE, CheckoutInv, [Next]_vars
    PROVE  CheckoutInv'
  <1>1. PublishInv'
    BY PublishStep DEF CheckoutInv
  <1>2. CASE UNCHANGED vars
    <2>1. UNCHANGED <<head, work, index, pc, base, paths, want, todo, touched,
                      hand, crashed>>
      BY <1>2 DEF vars, tree_vars, proposal_vars
    <2>2. NothingTornIsKept' /\ HeadIsKept' /\ HandsAreNew'
      BY <2>1, Still
    <2>3. WindowIsOwn'
      BY <2>1 DEF CheckoutInv, WindowIsOwn, Unowned, Differing, Stray
    <2>4. RunIsTidy'
      BY <2>1 DEF CheckoutInv, RunIsTidy, Stray, Staged, Handed, Uncommitted,
                  Answerable, Differing
    <2>5. DebrisIsKnown' /\ ContentIsKnown'
      BY <2>1 DEF CheckoutInv, DebrisIsKnown, ContentIsKnown, Stray, Handed,
                  Uncommitted, Wrecked, Writing, Differing
    <2>6. KilledStay'
      BY <2>1 DEF CheckoutInv, KilledStay
    <2> QED BY <1>1, <2>2, <2>3, <2>4, <2>5, <2>6 DEF CheckoutInv
  <1>3. ASSUME NEW w \in Writers, Acquire(w) \/ LockBusy(w) \/ Kill(w)
        PROVE  CheckoutInv'
    BY <1>1, <1>3, EntryCheckout, KillCheckout
  <1>4. ASSUME NEW w \in Writers, Commit(w)
        PROVE  CheckoutInv'
    BY <1>1, <1>4, CheckCheckout, LintCheckout, PlaceCheckout, GitAddCheckout,
       GitCommitCheckout, DoneCheckout, CommitFailsCheckout DEF Commit
  <1>5. ASSUME NEW a \in Operators, Act(a)
        PROVE  CheckoutInv'
    <2>1. a \in Writers
      BY DEF Writers
    <2> QED BY <1>1, <1>5, <2>1, BuildCheckout, EntryCheckout DEF Act
  <1>6. ASSUME NEW s \in Stages, Stage(s)
        PROVE  CheckoutInv'
    BY <1>1, <1>6, BeginCheckout, AgentWritesCheckout, CaptureCheckout,
       StageFailsCheckout, RestoreCheckout DEF Stage
  <1>7. CASE Hands
    BY <1>1, <1>7, HandEditCheckout, HandStageCheckout, HandCommitCheckout,
       HandRestoreCheckout DEF Hands
  <1> QED BY <1>2, <1>3, <1>4, <1>5, <1>6, <1>7 DEF Next

-----------------------------------------------------------------------------
LEMMA CheckoutInvariant ==
    ASSUME HandsRace = FALSE, LateFailure = FALSE
    PROVE  Spec => []CheckoutInv
  <1>1. Init => CheckoutInv
    BY CheckoutInit
  <1>2. CheckoutInv /\ [Next]_vars => CheckoutInv'
    BY CheckoutStep
  <1> QED BY <1>1, <1>2, PTL DEF Spec

\* Every rollback and restore of every writer (commit's _restore, a stage's
\* _rollback and _refused) leaves no page behind HEAD, in the index or in the
\* working tree: none of them stages the revert of a newer commit.
THEOREM NoRollbackReverts ==
    ASSUME HandsRace = FALSE, LateFailure = FALSE
    PROVE  Spec => []NoStaleRevert
  <1>1. CheckoutInv => NoStaleRevert
    BY DEF CheckoutInv, HeadIsKept, NoStaleRevert
  <1> QED BY <1>1, CheckoutInvariant, PTL

\* With the lock free nobody is inside a run or a write.
LEMMA NobodyAtWork ==
    ASSUME TypeOK, lock = NoWriter
    PROVE  /\ \A s \in Stages : pc[s] \notin Busy
           /\ \A a \in Operators : Writing(a) = {}
  <1>1. \A w \in Writers : pc[w] \notin Holding
    BY WriterAssumption DEF TypeOK
  <1> QED BY <1>1 DEF Busy, Holding, Window, Writing, Writers

\* Every exit from the lock but a kill cleans up: with nobody at work, what
\* git status reports was left by a hand, or lies on a page that a killed
\* writer named or touched (transaction.commit, orchestrate._stage).
THEOREM EveryExitCleansUp ==
    ASSUME HandsRace = FALSE, LateFailure = FALSE
    PROVE  Spec => []NoOrphanDebris
  <1>1. ASSUME CheckoutInv PROVE NoOrphanDebris
    <2> SUFFICES ASSUME lock = NoWriter, NEW p \in Stray
                 PROVE  \/ ((work[p] \cup index[p]) \cap HandMarks) \ head.tree[p] # {}
                        \/ \E w \in crashed : p \in paths[w] \cup touched[w]
      BY DEF NoOrphanDebris
    <2>1. Handed(p) \/ Wrecked(p)
      BY <1>1, NobodyAtWork DEF CheckoutInv, PublishInv, DebrisIsKnown
    <2> QED BY <2>1 DEF Handed, Uncommitted, Wrecked
  <1> QED BY <1>1, CheckoutInvariant, PTL

\* The retry of a killed act finds its own debris and nothing else, so
\* commit() adopts it instead of raising TreeDirty, for any number of pages
\* that were written, added to the index or not written yet.
THEOREM DebrisIsAdopted ==
    ASSUME HandsRace = FALSE, LateFailure = FALSE
    PROVE  Spec => []InterruptedRunIsAdopted
  <1>1. ASSUME CheckoutInv PROVE InterruptedRunIsAdopted
    <2> USE <1>1 DEF CheckoutInv
    <2> SUFFICES ASSUME NEW a \in Operators,
                        pc[a] = "killed",
                        lock = NoWriter,
                        head.rev = base[a].rev,
                        crashed = {a},
                        \A p \in Pages : /\ Torn \notin work[p]
                                         /\ Uncommitted(p) \cap HandMarks = {},
                        NEW p \in Stray
                 PROVE  p \in paths[a] /\ work[p] = want[a][p]
      BY DEF InterruptedRunIsAdopted, Unowned
    <2>1. p \in Pages /\ a \in Writers
      BY DEF Stray, Writers
    <2>2. /\ \A s \in Stages : pc[s] \notin Busy
          /\ \A b \in Operators : Writing(b) = {}
      BY NobodyAtWork DEF PublishInv
    <2>3. Torn \notin work[p] /\ ~ Handed(p)
      BY <2>1 DEF Handed
    <2>4. p \in paths[a]
      <3>1. Wrecked(p)
        BY <2>2, <2>3 DEF DebrisIsKnown
      <3> QED BY <3>1 DEF Wrecked, KilledStay
    <2>5. base[a] = head
      BY <2>1 DEF PublishInv, BaseIsPast
    <2>6. want[a][p] = head.tree[p] \cup {a}
      BY <2>1, <2>4, <2>5 DEF PublishInv, ActProposal
    <2>7. work[p] \subseteq head.tree[p] \cup {a}
      BY <2>1, <2>2, <2>3 DEF ContentIsKnown
    <2>8. head.tree[p] \subseteq index[p] /\ index[p] \subseteq work[p]
      BY <2>1, <2>3 DEF HeadIsKept
    <2>9. work[p] # head.tree[p]
      BY <2>8 DEF Stray
    <2> QED BY <2>4, <2>6, <2>7, <2>8, <2>9
  <1> QED BY <1>1, CheckoutInvariant, PTL

\* Who may take something from the working tree: the holder of the lock, or
\* a hand while it is free.
LEMMA WorkShrinks ==
    ASSUME CheckoutInv, [Next]_vars, NEW p \in Pages, ~ (work[p] \subseteq work'[p])
    PROVE  \/ \E w \in Writers : lock = w /\ (Place(w) \/ CommitFails(w) \/ Kill(w))
           \/ \E s \in Stages : lock = s /\ (Rollback(s) \/ Refused(s))
           \/ lock = NoWriter
  <1>0. /\ work \in [Pages -> SUBSET Marks]
        /\ \A w \in Writers : pc[w] \in Holding => lock = w
    BY DEF CheckoutInv, PublishInv, TypeOK, Tree
  <1>1. work' # work
    OBVIOUS
  <1>2. CASE UNCHANGED vars
    BY <1>1, <1>2 DEF vars, tree_vars
  <1>3. ASSUME NEW w \in Writers, Acquire(w) \/ LockBusy(w) \/ Kill(w)
        PROVE  lock = w /\ Kill(w)
    BY <1>1, <1>3 DEF Acquire, LockBusy, Kill, tree_vars
  <1>4. ASSUME NEW w \in Writers, Commit(w)
        PROVE  lock = w /\ (Place(w) \/ CommitFails(w))
    <2>1. Place(w) \/ CommitFails(w)
      BY <1>1, <1>4 DEF Commit, Check, Lint, GitAdd, GitCommit, Done, tree_vars
    <2>2. pc[w] \in Holding
      BY <2>1 DEF Place, CommitFails, Holding, Window
    <2> QED BY <1>0, <2>1, <2>2
  <1>5. ASSUME NEW a \in Operators, Act(a) PROVE FALSE
    BY <1>1, <1>5 DEF Act, Build, Retry, tree_vars
  <1>6. ASSUME NEW s \in Stages, Stage(s)
        PROVE  lock = s /\ (Rollback(s) \/ Refused(s))
    <2>1. CASE AgentWrites(s)
      <3>1. PICK q \in Pages : work' = [work EXCEPT ![q] = @ \cup {s}]
        BY <2>1 DEF AgentWrites
      <3> QED BY <1>0, <3>1
    <2>2. CASE Rollback(s) \/ Refused(s)
      <3>1. pc[s] \in Holding /\ s \in Writers
        BY <2>2 DEF Rollback, Refused, Holding, Writers
      <3> QED BY <1>0, <2>2, <3>1
    <2>3. CASE Begin(s) \/ Capture(s) \/ StageFails(s)
      BY <1>1, <2>3 DEF Begin, Capture, StageFails, tree_vars
    <2> QED BY <1>6, <2>1, <2>2, <2>3 DEF Stage
  <1>7. CASE Hands
    <2>1. ASSUME NEW m \in HandMarks, HandEdit(m) PROVE FALSE
      <3>1. PICK q \in Pages : work' = [work EXCEPT ![q] = @ \cup {m}]
        BY <2>1 DEF HandEdit
      <3> QED BY <1>0, <3>1
    <2>2. ASSUME NEW q \in Pages, HandStage(q) \/ HandCommit(q) PROVE FALSE
      BY <1>1, <2>2 DEF HandStage, HandCommit
    <2>3. ASSUME NEW q \in Pages, HandRestore(q) PROVE lock = NoWriter
      BY <2>3 DEF HandRestore
    <2> QED BY <1>7, <2>1, <2>2, <2>3 DEF Hands
  <1> QED BY <1>2, <1>3, <1>4, <1>5, <1>6, <1>7 DEF Next

\* In the window of an act no page holds a hand edit.
LEMMA ActWindowHasNoHands ==
    ASSUME CheckoutInv, NEW a \in Operators, pc[a] \in Window, NEW p \in Pages
    PROVE  Uncommitted(p) \cap HandMarks = {}
  <1>0. a \in Writers /\ a \notin HandMarks
    BY WriterAssumption DEF Writers
  <1>1. CASE p \in Stray
    <2>1. work[p] = want[a][p]
      BY <1>0, <1>1, WindowStray
    <2>2. want[a][p] \subseteq head.tree[p] \cup {a}
      BY <1>0, WindowWants
    <2> QED BY <1>0, <2>1, <2>2 DEF Uncommitted
  <1>2. CASE p \notin Stray
    BY <1>2, StrayPage DEF Uncommitted
  <1> QED BY <1>1, <1>2

\* While an act holds the lock no step of it, a restore after a failed commit
\* and a kill included, takes an uncommitted hand edit from the checkout:
\* commit() refuses on strays it cannot adopt before it writes anything.
THEOREM ActsSpareHands ==
    ASSUME HandsRace = FALSE, LateFailure = FALSE
    PROVE  Spec => OperatorsSpareHands
  <1>1. ASSUME CheckoutInv, [Next]_vars, lock \in Operators, NEW p \in Pages
        PROVE  Uncommitted(p) \cap HandMarks \subseteq work'[p]
    <2>1. CASE work[p] \subseteq work'[p]
      BY <2>1 DEF Uncommitted
    <2>2. CASE ~ (work[p] \subseteq work'[p])
      <3>0. lock \in Writers /\ lock \notin Stages /\ lock # NoWriter
        BY <1>1, WriterAssumption DEF Writers
      <3>1. Place(lock) \/ CommitFails(lock) \/ Kill(lock)
        BY <1>1, <2>2, <3>0, WorkShrinks
      <3>2. Kill(lock) => pc[lock] = "placing"
        BY <2>2 DEF Kill
      <3>3. pc[lock] \in Window
        BY <3>1, <3>2 DEF Place, CommitFails, Window
      <3> QED BY <1>1, <3>3, ActWindowHasNoHands
    <2> QED BY <2>1, <2>2
  <1>2. CheckoutInv /\ [Next]_vars =>
          (lock \in Operators =>
             \A p \in Pages : Uncommitted(p) \cap HandMarks \subseteq work'[p])
    BY <1>1
  <1> QED BY <1>2, CheckoutInvariant, PTL DEF Spec, OperatorsSpareHands

\* While a failed or refused stage cleans up, what a hand staged during the
\* run stays in the working tree (_rollback and _refused subtract
\* staged_paths), in every interleaving with hands.
THEOREM CleaningSparesStaged ==
    ASSUME HandsRace = FALSE, LateFailure = FALSE
    PROVE  Spec => RollbackSparesStaged
  <1>1. ASSUME CheckoutInv, [Next]_vars, NEW s \in Stages,
               pc[s] \in {"failing", "refused"}, NEW p \in Staged
        PROVE  index[p] \cap HandMarks \subseteq work'[p]
    <2>0. /\ s \in Writers /\ p \in Pages
          /\ pc[s] \in Holding /\ pc[s] \in Busy
      BY <1>1 DEF Writers, Staged, Busy, Holding
    <2>1. index[p] \subseteq work[p]
      BY <1>1, <2>0 DEF CheckoutInv, RunIsTidy, HeadIsKept
    <2>2. work[p] \subseteq work'[p]
      <3> SUFFICES ASSUME ~ (work[p] \subseteq work'[p]) PROVE FALSE
        OBVIOUS
      <3>0. lock = s /\ lock # NoWriter
        BY <1>1, <2>0, Alone DEF CheckoutInv, PublishInv
      <3>1. Place(s) \/ CommitFails(s) \/ Kill(s) \/ Rollback(s) \/ Refused(s)
        BY <1>1, <2>0, <3>0, WorkShrinks
      <3>2. ~ Place(s) /\ ~ CommitFails(s)
        BY <1>1 DEF Place, CommitFails
      <3>3. Kill(s) => UNCHANGED work
        BY <1>1 DEF Kill
      <3>4. Rollback(s) \/ Refused(s) => work'[p] = work[p]
        BY <1>1, <2>0 DEF Rollback, Refused, Restore, Overlay
      <3> QED BY <3>1, <3>2, <3>3, <3>4
    <2> QED BY <2>1, <2>2
  <1>2. CheckoutInv /\ [Next]_vars =>
          \A s \in Stages : pc[s] \in {"failing", "refused"} =>
            \A p \in Staged : index[p] \cap HandMarks \subseteq work'[p]
    BY <1>1
  <1> QED BY <1>2, CheckoutInvariant, PTL DEF Spec, RollbackSparesStaged
=============================================================================
