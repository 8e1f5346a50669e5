--------------------------- MODULE LandingProofs ---------------------------
(***************************************************************************)
(* What lands in the wiki from a research pass is whole, what lands from   *)
(* the portal was reviewed, and what an offloaded question brings back was *)
(* asked, checked and counted: for any pages, limits, browsers, texts,     *)
(* answers, sources, runs, requests, lost answers, kills, failures, hands  *)
(* and commits of others.                                                  *)
(*                                                                         *)
(* Research.  Hands may edit and commit whatever they like meanwhile, and  *)
(* a page that fails may be put back to a HEAD that is no longer the       *)
(* newest, so what the checkout, HEAD and the base of a page have in       *)
(* common is only what the machine wrote: its marks.  Between the pages of *)
(* a run they agree on those, within a page the checkout is ahead by what  *)
(* this page wrote (CheckoutOK), and on the way out of a page that failed  *)
(* they agree again whichever of the two ways back is taken.               *)
(*                                                                         *)
(* Portal.  A page that shows a preview shows one that says what its form  *)
(* says now (Shows), whatever the wiki became since; what a patient        *)
(* operator awaits is about the form on the screen (WaitsOK); a commit on  *)
(* the wire carries what was shown, and one that was answered "published"  *)
(* is on HEAD (CommitOK).  A form has one timestamp (MomentsOK), so of two *)
(* commits of a form the second finds the record of the first.             *)
(*                                                                         *)
(* Result contract.  What the researcher let through fits the request it   *)
(* answers, which never changes what it asks (ResultFits); so while the    *)
(* sources are those of the request, every host cited is one of an         *)
(* approved source, and rails and lint find nothing (FindingsAgree).       *)
(***************************************************************************)
EXTENDS ResearchPasses, Workbench, ResultContract, FiniteSetTheorems, TLAPS

(***************************************************************************)
(* The research passes.                                                    *)
(***************************************************************************)

Marks == [by : Passes, on : Pages \cup {"page"}, at : Nat]
         \cup [by : {"hand"}, on : {"page"}, at : Nat]
Contents == [Files -> SUBSET Marks]

\* Where a run is with a page in hand, and where it has asked for it.
WithPage == {"page", "ask", "write", "log", "publish"}
InPage == {"ask", "write", "log", "publish"}
Steps == {"idle", "done"} \cup WithPage

TypeOK ==
    /\ head \in Contents /\ tree \in Contents
    /\ rev \in Nat
    /\ epoch \in [Passes -> Nat]
    /\ pass \in Passes /\ pc \in Steps
    /\ work \in Seq(Pages)
    /\ stamp \in Nat
    /\ base.content \in Contents
    /\ published \subseteq Pages /\ flagged \subseteq Pages
    /\ began \subseteq Marks
    /\ spent.hands \in Nat

\* What the passes wrote into a file.
Machine(content, f) == {mk \in content[f] : mk.by # "hand"}
Agree(content) == \A f \in Files : Machine(content, f) = Machine(head, f)

\* A run does a page once, and the pages to do have not been told yet.
WorkOK ==
    /\ pc \in WithPage => work # <<>>
    /\ pc # "idle" => /\ IsInjective(work)
                      /\ \A i \in DOMAIN work : work[i] \notin published \cup flagged

\* The checkout is ahead of HEAD by what the page in hand wrote.
CheckoutOK ==
    /\ pc \in {"page", "ask", "write", "done"} => Agree(tree)
    /\ pc \in {"log", "publish"} =>
         /\ \A f \in Files \ {Page, Log} : Machine(tree, f) = Machine(head, f)
         /\ Machine(tree, Page) = {mk \in Machine(head, Page) : mk.by # pass}
                                    \cup {Section(pass, stamp)}
         /\ Machine(tree, Log) = Machine(head, Log)
                \cup (IF pc = "publish" THEN {Line(pass, Page, stamp)} ELSE {})

BaseOK == pc \in InPage => Agree(base.content)

\* Lines are about pages, of epochs that have been; sections say no page.
LinesOK ==
    /\ \A mk \in head[Log] : mk.by # "hand" => mk.on \in Pages /\ mk.at <= epoch[mk.by]
    /\ \A p \in Pages : \A mk \in head[p] : mk.on = "page"

\* No line of the pass that runs is younger than the run.
StampOK ==
    pc # "idle" =>
        /\ stamp <= epoch[pass]
        /\ \A mk \in head[Log] : mk.by = pass => mk.at <= stamp

\* What the run found on log.md is there, and the line it will write was not.
BeganOK ==
    /\ {mk \in began : mk.by # "hand"} \subseteq head[Log]
    /\ pc # "idle" /\ pass # "history" =>
         \A i \in DOMAIN work : Line(pass, work[i], stamp) \notin began
    /\ pc \in {"log", "publish"} => Line(pass, Page, stamp) \notin began

ResearchInv ==
    /\ TypeOK /\ WorkOK
    /\ CheckoutOK /\ BaseOK
    /\ LinesOK /\ StampOK /\ BeganOK
    /\ PagesMatchTheLog /\ RunsTellWhatLanded

-----------------------------------------------------------------------------
(* Marks, and what only depends on them.                                   *)

LEMMA SomeMarks ==
    /\ \A s \in Passes, e \in Nat : Section(s, e) \in Marks /\ Section(s, e).by = s
                                    /\ Section(s, e).on = "page" /\ Section(s, e).at = e
    /\ \A s \in Passes, p \in Pages, e \in Nat :
         Line(s, p, e) \in Marks /\ Line(s, p, e).by = s
         /\ Line(s, p, e).on = p /\ Line(s, p, e).at = e
    /\ \A n \in Nat : Note(n) \in Marks /\ Note(n).by = "hand" /\ Note(n).on = "page"
    /\ \A s \in Passes : s # "hand"
  BY DEF Section, Line, Note, Marks, Passes

LEMMA MarkParts ==
    ASSUME NEW mk \in Marks
    PROVE  /\ mk.at \in Nat
           /\ mk.by = "hand" => mk.on = "page"
           /\ mk.by # "hand" => mk.by \in Passes
           /\ mk.on \in Pages \cup {"page"}
           /\ mk.by \in Passes /\ mk.on = "page" => mk = Section(mk.by, mk.at)
  BY DEF Marks, Passes, Section

LEMMA FileNames ==
    Log \in Files /\ Pages \subseteq Files /\ Log \notin Pages /\ "page" \notin Pages
  BY ResearchAssumption DEF Files

LEMMA PageInHand ==
    ASSUME TypeOK, WorkOK, pc \in WithPage
    PROVE  Page \in Pages /\ Page \in Files /\ Page # Log /\ Len(work) >= 1 /\ 1 \in DOMAIN work
           /\ work \in Seq(Pages) /\ Page = work[1]
  BY FileNames DEF TypeOK, WorkOK, Page

\* The marks of a pass on a page and its lines about it decide what it shows.
LEMMA SameMarks ==
    ASSUME NEW c, NEW d, NEW p \in Pages, NEW s \in Passes,
           \A mk : mk.by = s => (mk \in c[p] <=> mk \in d[p]),
           \A mk : mk.by = s /\ mk.on = p => (mk \in c[Log] <=> mk \in d[Log])
    PROVE  Sections(p, s, c) = Sections(p, s, d) /\ Newest(p, s, c) = Newest(p, s, d)
  <1>1. Sections(p, s, c) = Sections(p, s, d)
    BY DEF Sections
  <1>2. \A mk : mk \in Newest(p, s, c) <=> mk \in Newest(p, s, d)
    BY DEF Newest
  <1> QED BY <1>1, <1>2

\* A line no younger one of its kind stands beside is shown on its page.
LEMMA NewestIsShown ==
    ASSUME TypeOK, LinesOK, PagesMatchTheLog,
           NEW s \in Passes, NEW p \in Pages, NEW e \in Nat,
           \A mk \in head[Log] : mk.by = s => mk.at <= e,
           Line(s, p, e) \in head[Log]
    PROVE  Section(s, e) \in head[p]
  <1>1. Line(s, p, e) \in Newest(p, s, head)
    BY SomeMarks DEF Newest
  <1>2. Line(s, p, e).at = e
    BY SomeMarks
  <1>3. {mk.at : mk \in Sections(p, s, head)} = {mk.at : mk \in Newest(p, s, head)}
    BY DEF PagesMatchTheLog
  <1>4. PICK mk \in Sections(p, s, head) : mk.at = e
    BY <1>1, <1>2, <1>3
  <1>5. mk \in head[p] /\ mk.by = s
    BY <1>4 DEF Sections
  <1>6. mk \in Marks /\ mk.on = "page"
    BY <1>5, FileNames DEF TypeOK, Contents, LinesOK
  <1>7. mk = Section(s, e)
    BY <1>4, <1>5, <1>6, MarkParts
  <1> QED BY <1>5, <1>7

\* What hangs on the machine's marks at HEAD alone.
LEMMA HeadMarksKeep ==
    ASSUME TypeOK, LinesOK, PagesMatchTheLog, RunsTellWhatLanded, BeganOK,
           head' \in Contents, \A f \in Files : Machine(head', f) = Machine(head, f),
           UNCHANGED <<epoch, began, published, flagged>>
    PROVE  /\ PagesMatchTheLog' /\ RunsTellWhatLanded' /\ LinesOK'
           /\ {mk \in began' : mk.by # "hand"} \subseteq head'[Log]
           /\ \A mk : mk.by # "hand" => (mk \in head'[Log] <=> mk \in head[Log])
  <1>1. \A f \in Files : \A mk : mk.by # "hand" => (mk \in head'[f] <=> mk \in head[f])
    BY DEF Machine
  <1>2. PagesMatchTheLog'
    <2> SUFFICES ASSUME NEW p \in Pages, NEW s \in Passes
                 PROVE  {mk.at : mk \in Sections(p, s, head')} = {mk.at : mk \in Newest(p, s, head')}
      BY DEF PagesMatchTheLog
    <2>1. /\ \A mk : mk.by = s => (mk \in head'[p] <=> mk \in head[p])
          /\ \A mk : mk.by = s /\ mk.on = p => (mk \in head'[Log] <=> mk \in head[Log])
      BY <1>1, SomeMarks, FileNames
    <2>2. Sections(p, s, head') = Sections(p, s, head) /\ Newest(p, s, head') = Newest(p, s, head)
      BY ONLY <2>1, SameMarks
    <2> QED BY <2>2 DEF PagesMatchTheLog
  <1>3. \A f \in Files : \A mk \in head'[f] : mk \in Marks
    BY DEF Contents
  <1>4. \A mk \in head'[Log] \cup head[Log] : mk.by = "hand" => mk.on = "page"
    BY <1>3, FileNames, MarkParts DEF TypeOK, Contents
  <1>5. Landed' = Landed
    <2> SUFFICES ASSUME NEW x PROVE x \in Landed' <=> x \in Landed
      OBVIOUS
    <2> QED BY <1>1, <1>4, FileNames DEF Landed
  <1>6. RunsTellWhatLanded'
    BY <1>5 DEF RunsTellWhatLanded
  <1>7. LinesOK'
    <2>1. \A mk \in head'[Log] : mk.by # "hand" => mk.on \in Pages /\ mk.at <= epoch'[mk.by]
      BY <1>1, FileNames DEF LinesOK
    <2>2. ASSUME NEW p \in Pages, NEW mk \in head'[p] PROVE mk.on = "page"
      <3>1. p \in Files /\ mk \in Marks
        BY <1>3, FileNames
      <3>2. CASE mk.by = "hand"
        BY <3>1, <3>2, MarkParts
      <3>3. CASE mk.by # "hand"
        BY <1>1, <3>1, <3>3 DEF LinesOK
      <3> QED BY <3>2, <3>3
    <2> QED BY <2>1, <2>2 DEF LinesOK
  <1>8. {mk \in began' : mk.by # "hand"} \subseteq head'[Log]
    BY <1>1, FileNames DEF BeganOK
  <1> QED BY <1>1, <1>2, <1>6, <1>7, <1>8, FileNames

-----------------------------------------------------------------------------
(* Going back, and on to the next page.                                    *)

LEMMA WaysBack ==
    ASSUME ResearchInv, pc \in InPage
    PROVE  /\ Rollback \in Contents /\ Agree(Rollback)
           /\ RestorePage \in Contents /\ Agree(RestorePage)
  <1>1. head \in Contents /\ tree \in Contents /\ base.content \in Contents
    BY DEF ResearchInv, TypeOK
  <1>2. \A f \in Files : Rollback[f] = head[f]
    BY DEF Rollback, Restored, Stray
  <1>3. Rollback \in Contents /\ RestorePage \in Contents
    BY <1>1 DEF Rollback, RestorePage, Restored, Contents
  <1>4. Agree(Rollback)
    BY <1>2 DEF Agree, Machine
  <1>5. \A f \in Files : RestorePage[f] = IF f \in {Page, Log} THEN base.content[f] ELSE tree[f]
    BY DEF RestorePage, Restored
  <1>6. \A f \in Files : Machine(base.content, f) = Machine(head, f)
    BY DEF ResearchInv, BaseOK, Agree
  <1>7. \A f \in Files \ {Page, Log} : Machine(tree, f) = Machine(head, f)
    BY DEF ResearchInv, CheckoutOK, Agree, InPage
  <1>8. Agree(RestorePage)
    BY <1>5, <1>6, <1>7 DEF Agree, Machine
  <1> QED BY <1>3, <1>4, <1>8

LEMMA NextPageKeeps ==
    ASSUME TypeOK, WorkOK, BeganOK, pc \in WithPage, NextPage,
           published' \cup flagged' \subseteq published \cup flagged \cup {Page},
           UNCHANGED <<pass, stamp, began>>
    PROVE  /\ work' \in Seq(Pages) /\ pc' \in {"page", "done"}
           /\ WorkOK'
           /\ pass' # "history" => \A i \in DOMAIN work' : Line(pass', work'[i], stamp') \notin began'
  <1>1. work \in Seq(Pages) /\ Len(work) \in Nat /\ Len(work) >= 1 /\ Page = work[1]
        /\ work # <<>> /\ DOMAIN work = 1 .. Len(work)
    BY PageInHand DEF TypeOK
  <1>2. work' = Tail(work) /\ pc' = IF Len(work) > 1 THEN "page" ELSE "done"
    BY DEF NextPage, Take
  <1>3. /\ work' \in Seq(Pages) /\ Len(work') = Len(work) - 1
        /\ DOMAIN work' = 1 .. (Len(work) - 1)
        /\ \A i \in DOMAIN work' : i + 1 \in DOMAIN work /\ i + 1 # 1 /\ work'[i] = work[i + 1]
    BY <1>1, <1>2
  <1>4. pc # "idle"
    BY DEF WithPage
  <1>5. IsInjective(work) /\ \A i \in DOMAIN work : work[i] \notin published \cup flagged
    BY <1>4 DEF WorkOK
  <1>6. IsInjective(work')
    BY <1>1, <1>3, <1>5 DEF IsInjective
  <1>7. \A i \in DOMAIN work' : work'[i] \notin published' \cup flagged'
    BY <1>1, <1>3, <1>5 DEF IsInjective
  <1>8. pc' = "page" => work' # <<>>
    <2>1. ASSUME pc' = "page" PROVE Len(work') >= 1
      BY <1>1, <1>2, <1>3, <2>1
    <2>2. Len(<<>>) = 0
      OBVIOUS
    <2> QED BY <2>1, <2>2
  <1>9. WorkOK'
    BY <1>2, <1>6, <1>7, <1>8 DEF WorkOK, WithPage
  <1>10. pass' # "history" => \A i \in DOMAIN work' : Line(pass', work'[i], stamp') \notin began'
    BY <1>3, <1>4 DEF BeganOK
  <1> QED BY <1>2, <1>3, <1>9, <1>10

\* A page left behind with a flag.
LEMMA FlagKeeps ==
    ASSUME ResearchInv, pc \in WithPage, NEW restored, Flag(restored),
           restored \in Contents, Agree(restored), spent' = spent
    PROVE  ResearchInv'
  <1>1. /\ tree' = restored /\ flagged' = flagged \cup {Page} /\ NextPage
        /\ UNCHANGED <<head, rev, epoch, pass, stamp, base, published, rolledBack, began>>
    BY DEF Flag
  <1>2. TypeOK /\ WorkOK /\ LinesOK /\ StampOK /\ BeganOK /\ PagesMatchTheLog /\ RunsTellWhatLanded
    BY DEF ResearchInv
  <1>3. Page \in Pages /\ 1 \in DOMAIN work /\ Page = work[1]
    BY <1>2, PageInHand
  <1>4. /\ work' \in Seq(Pages) /\ pc' \in {"page", "done"}
        /\ WorkOK'
        /\ pass' # "history" => \A i \in DOMAIN work' : Line(pass', work'[i], stamp') \notin began'
    BY <1>1, <1>2, NextPageKeeps
  <1>5. TypeOK'
    BY <1>1, <1>2, <1>3, <1>4 DEF TypeOK, Steps, WithPage
  <1>6. CheckoutOK' /\ BaseOK'
    BY <1>1, <1>4 DEF CheckoutOK, BaseOK, Agree, Machine, InPage
  <1>7. Page \notin published
    BY <1>2, <1>3 DEF WorkOK, WithPage
  <1>8. RunsTellWhatLanded'
    BY <1>1, <1>2, <1>7 DEF RunsTellWhatLanded, Landed
  <1>9. LinesOK' /\ StampOK' /\ PagesMatchTheLog'
    BY <1>1, <1>2, <1>4
       DEF LinesOK, StampOK, PagesMatchTheLog, Sections, Newest, WithPage
  <1>10. BeganOK'
    BY <1>1, <1>2, <1>4 DEF BeganOK
  <1> QED BY <1>4, <1>5, <1>6, <1>8, <1>9, <1>10 DEF ResearchInv

\* No run: only HEAD and what was told of it matter.
LEMMA NoRunKeeps ==
    ASSUME ResearchInv, pc' = "idle", work' \in Seq(Pages), tree' \in Contents,
           UNCHANGED <<head, rev, epoch, pass, stamp, base, published, flagged, began>>,
           spent'.hands \in Nat
    PROVE  ResearchInv'
  <1>1. TypeOK /\ LinesOK /\ BeganOK /\ PagesMatchTheLog /\ RunsTellWhatLanded
    BY DEF ResearchInv
  <1>2. TypeOK'
    BY <1>1 DEF TypeOK, Steps
  <1>3. WorkOK' /\ CheckoutOK' /\ BaseOK' /\ StampOK'
    BY DEF WorkOK, CheckoutOK, BaseOK, StampOK, WithPage, InPage
  <1>4. LinesOK' /\ PagesMatchTheLog' /\ RunsTellWhatLanded'
    <2>1. LinesOK'
      BY <1>1 DEF LinesOK
    <2>2. PagesMatchTheLog'
      BY <1>1 DEF PagesMatchTheLog, Sections, Newest
    <2>3. RunsTellWhatLanded'
      BY <1>1 DEF RunsTellWhatLanded, Landed
    <2> QED BY <2>1, <2>2, <2>3
  <1>5. BeganOK'
    BY <1>1 DEF BeganOK
  <1> QED BY <1>2, <1>3, <1>4, <1>5 DEF ResearchInv

LEMMA SpendKeeps ==
    ASSUME spent.hands \in Nat, NEW what \in {"runs", "kills", "faults", "hands"}, Spend(what)
    PROVE  spent'.hands \in Nat
  BY DEF Spend

-----------------------------------------------------------------------------
(* One step at a time.                                                     *)

\* A run of a pass begins on a clean checkout, with a worklist of its own.
LEMMA BeginKeeps ==
    ASSUME ResearchInv, NEW s \in Passes, NEW q \in Seq(Pages), Begin(s, q),
           IsInjective(q),
           s # "history" => \A i \in DOMAIN q : ~Current(q[i], s, epoch[s])
    PROVE  ResearchInv'
  <1>1. TypeOK /\ LinesOK /\ BeganOK /\ PagesMatchTheLog
    BY DEF ResearchInv
  <1>2. /\ pass' = s /\ work' = q /\ q # <<>> /\ pc' = "page" /\ stamp' = epoch[s]
        /\ published' = {} /\ flagged' = {} /\ began' = head[Log]
        /\ UNCHANGED <<head, rev, tree, epoch, base>>
        /\ \A f \in Files : tree[f] = head[f]
    BY DEF Begin, wiki, Stray
  <1>3. spent'.hands \in Nat
    BY <1>1, SpendKeeps DEF TypeOK, Begin
  <1>4. head[Log] \subseteq Marks
    BY <1>1, FileNames DEF TypeOK, Contents
  <1>5. TypeOK'
    BY <1>1, <1>2, <1>3, <1>4 DEF TypeOK, Steps, WithPage
  <1>6. WorkOK'
    BY <1>2 DEF WorkOK
  <1>7. CheckoutOK' /\ BaseOK'
    BY <1>2 DEF CheckoutOK, BaseOK, InPage, Agree, Machine
  <1>8. LinesOK' /\ PagesMatchTheLog'
    <2>1. LinesOK'
      BY <1>1, <1>2 DEF LinesOK
    <2>2. PagesMatchTheLog'
      BY <1>1, <1>2 DEF PagesMatchTheLog, Sections, Newest
    <2> QED BY <2>1, <2>2
  <1>9. \A mk \in head[Log] : mk.by = s => mk.at <= epoch[s]
    BY <1>1, SomeMarks DEF LinesOK
  <1>10. StampOK'
    <2>1. epoch[s] \in Nat
      BY <1>1 DEF TypeOK
    <2> QED BY <1>2, <1>9, <2>1 DEF StampOK
  <1>11. RunsTellWhatLanded'
    BY <1>2 DEF RunsTellWhatLanded, Landed
  <1>12. ASSUME s # "history", NEW i \in DOMAIN q PROVE Line(s, q[i], epoch[s]) \notin head[Log]
    <2>1. q[i] \in Pages /\ epoch[s] \in Nat
      BY <1>1 DEF TypeOK
    <2>2. Section(s, epoch[s]) \notin head[q[i]]
      BY <1>2, <1>12, <2>1, FileNames DEF Current
    <2> QED BY <1>1, <1>9, <2>1, <2>2, NewestIsShown
  <1>13. BeganOK'
    BY <1>2, <1>12 DEF BeganOK
  <1> QED BY <1>5, <1>6, <1>7, <1>8, <1>10, <1>11, <1>13 DEF ResearchInv

\* Every candidate is taken up once at most.
LEMMA WorklistsOfPages ==
    ASSUME NEW due \in SUBSET Pages, NEW q \in Worklists(due)
    PROVE  q \in Seq(Pages) /\ IsInjective(q) /\ \A i \in DOMAIN q : q[i] \in due
  <1>1. Cardinality(due) \in Nat
    BY FS_Subset, FS_CardinalityType, ResearchAssumption
  <1> DEFINE n == IF Cardinality(due) <= Limit THEN Cardinality(due) ELSE Limit
  <1>2. n \in Nat
    BY <1>1, ResearchAssumption
  <1>3. q \in [1 .. n -> due] /\ IsInjective(q)
    BY DEF Worklists
  <1> HIDE DEF n
  <1> QED BY <1>2, <1>3

\* The history pass takes up every page once.
LEMMA EveryPageIsAList == EveryPage \in Seq(Pages) /\ IsInjective(EveryPage)
  <1> DEFINE n == Cardinality(Pages)
  <1>1. n \in Nat /\ ExistsBijection(1 .. n, Pages)
    BY FS_CardinalityType, ResearchAssumption
  <1>2. PICK q \in [1 .. n -> Pages] : IsInjective(q)
    BY <1>1 DEF ExistsBijection, Bijection, Injection, IsInjective
  <1>3. EveryPage \in [1 .. n -> Pages] /\ IsInjective(EveryPage)
    BY <1>2 DEF EveryPage
  <1> HIDE DEF n
  <1> QED BY <1>1, <1>3

LEMMA StartKeeps ==
    ASSUME ResearchInv, StartResearch \/ StartCaveats \/ StartHistory
    PROVE  ResearchInv'
  <1>1. CASE StartResearch
    <2>1. PICK q \in Worklists(ErrorCandidates) : Begin("structured", q)
      BY <1>1 DEF StartResearch
    <2>2. ErrorCandidates \in SUBSET Pages
      BY DEF ErrorCandidates
    <2>3. q \in Seq(Pages) /\ IsInjective(q) /\ \A i \in DOMAIN q : q[i] \in ErrorCandidates
      BY <2>2, WorklistsOfPages
    <2>4. \A i \in DOMAIN q : ~Current(q[i], "structured", epoch["structured"])
      BY <2>3 DEF ErrorCandidates
    <2> QED BY <2>1, <2>3, <2>4, BeginKeeps DEF Passes
  <1>2. CASE StartCaveats
    <2>1. PICK q \in Worklists(CaveatCandidates) : Begin("caveats", q)
      BY <1>2 DEF StartCaveats
    <2>2. CaveatCandidates \in SUBSET Pages
      BY DEF CaveatCandidates
    <2>3. q \in Seq(Pages) /\ IsInjective(q) /\ \A i \in DOMAIN q : q[i] \in CaveatCandidates
      BY <2>2, WorklistsOfPages
    <2>4. \A i \in DOMAIN q : ~Current(q[i], "caveats", epoch["caveats"])
      BY <2>3 DEF CaveatCandidates
    <2> QED BY <2>1, <2>3, <2>4, BeginKeeps DEF Passes
  <1>3. CASE StartHistory
    BY <1>3, EveryPageIsAList, BeginKeeps DEF StartHistory, Passes
  <1> QED BY <1>1, <1>2, <1>3

\* A page that ends with a flag, whatever of the ways back it takes.
LEMMA LeftBehind ==
    ASSUME ResearchInv,
           \/ Unfetchable \/ Leaks \/ LintBlocked
           \/ Unusable /\ pass = "caveats"
           \/ Rejected /\ pass # "structured"
    PROVE  ResearchInv'
  <1>1. CASE Unfetchable \/ Leaks
    <2>1. pc \in {"page", "ask"} /\ Flag(tree)
      BY <1>1 DEF Unfetchable, Leaks
    <2>2. tree \in Contents /\ Agree(tree) /\ spent' = spent
      BY <2>1 DEF ResearchInv, TypeOK, CheckoutOK, Flag
    <2> QED BY <2>1, <2>2, FlagKeeps DEF WithPage
  <1>2. CASE LintBlocked
    <2>1. pc = "publish" /\ Flag(Rollback) /\ spent' = spent
      BY <1>2 DEF LintBlocked, Flag
    <2>2. pc \in InPage /\ pc \in WithPage
      BY <2>1 DEF InPage, WithPage
    <2> QED BY <2>1, <2>2, WaysBack, FlagKeeps
  <1>3. CASE (Unusable /\ pass = "caveats") \/ (Rejected /\ pass # "structured")
    <2>1. pc \in {"ask", "publish"} /\ Flag(RestorePage) /\ spent' = spent
      BY <1>3 DEF Unusable, Rejected, Flag
    <2>2. pc \in InPage /\ pc \in WithPage
      BY <2>1 DEF InPage, WithPage
    <2> QED BY <2>1, <2>2, WaysBack, FlagKeeps
  <1> QED BY <1>1, <1>2, <1>3

\* A run that ends with an error, or is killed.
LEMMA CutShort ==
    ASSUME ResearchInv,
           \/ Unusable /\ pass = "structured"
           \/ Rejected /\ pass = "structured"
           \/ Moved \/ Interrupt \/ Kill
    PROVE  ResearchInv'
  <1>1. spent.hands \in Nat /\ tree \in Contents
    BY DEF ResearchInv, TypeOK
  <1>2. <<>> \in Seq(Pages)
    OBVIOUS
  <1>3. CASE Kill
    <2>1. spent'.hands \in Nat
      BY <1>1, <1>3, SpendKeeps DEF Kill
    <2> QED BY <1>1, <1>2, <1>3, <2>1, NoRunKeeps DEF Kill, wiki
  <1>4. CASE ~Kill
    <2>1. /\ pc \in InPage
          /\ Fail(Rollback) \/ Fail(RestorePage)
          /\ spent' = spent \/ Spend("faults")
      BY <1>4 DEF Unusable, Rejected, Moved, Interrupt, Cleaned, InPage
    <2>2. spent'.hands \in Nat
      BY <1>1, <2>1, SpendKeeps
    <2>3. Rollback \in Contents /\ RestorePage \in Contents
      BY <2>1, WaysBack
    <2> QED BY <1>2, <2>1, <2>2, <2>3, NoRunKeeps DEF Fail
  <1> QED BY <1>3, <1>4

\* The page becomes its own transaction, and is asked about.
LEMMA TakeUpKeeps ==
    ASSUME ResearchInv, TakeUp \/ Answered
    PROVE  ResearchInv'
  <1>1. /\ TypeOK /\ WorkOK /\ LinesOK /\ StampOK /\ BeganOK /\ PagesMatchTheLog
        /\ RunsTellWhatLanded /\ CheckoutOK /\ BaseOK
    BY DEF ResearchInv
  <1>2. /\ pc \in {"page", "ask"} /\ pc' \in {"ask", "write"}
        /\ UNCHANGED <<head, rev, tree, epoch, pass, work, stamp, published, flagged, began, spent>>
        /\ base'.content = head \/ (pc = "ask" /\ base' = base)
    BY DEF TakeUp, Answered, wiki
  <1>3. TypeOK'
    BY <1>1, <1>2 DEF TypeOK, Steps, WithPage
  <1>4. WorkOK' /\ StampOK'
    BY <1>1, <1>2 DEF WorkOK, StampOK, WithPage
  <1>5. CheckoutOK' /\ BaseOK'
    BY <1>1, <1>2 DEF CheckoutOK, BaseOK, InPage, Agree, Machine
  <1>6. LinesOK'
    BY <1>1, <1>2 DEF LinesOK
  <1>7. PagesMatchTheLog'
    BY <1>1, <1>2 DEF PagesMatchTheLog, Sections, Newest
  <1>8. RunsTellWhatLanded' /\ BeganOK'
    BY <1>1, <1>2 DEF RunsTellWhatLanded, Landed, BeganOK
  <1> QED BY <1>3, <1>4, <1>5, <1>6, <1>7, <1>8 DEF ResearchInv

\* The section goes into the checkout.  A history pass leaves a page alone
\* that says the same already, and so no line of it is written twice.
LEMMA WritePageKeeps ==
    ASSUME ResearchInv, WritePage, pass = "history" => ~Current(Page, pass, stamp)
    PROVE  ResearchInv'
  <1>1. /\ TypeOK /\ WorkOK /\ LinesOK /\ StampOK /\ BeganOK /\ PagesMatchTheLog
        /\ RunsTellWhatLanded /\ CheckoutOK /\ BaseOK
    BY DEF ResearchInv
  <1>2. /\ pc = "write" /\ pc' = "log" /\ Replace
        /\ UNCHANGED <<head, rev, epoch, pass, work, stamp, base, published, flagged, began, spent>>
    BY DEF WritePage
  <1>3. Page \in Pages /\ Page \in Files /\ Page # Log /\ 1 \in DOMAIN work /\ Page = work[1]
        /\ Page' = Page
    BY <1>1, <1>2, PageInHand DEF WithPage, Page
  <1>4. pass \in Passes /\ stamp \in Nat /\ tree \in Contents
    BY <1>1 DEF TypeOK
  <1>5. \A f \in Files : tree'[f] = IF f = Page THEN (tree[f] \ Sections(Page, pass, tree))
                                                     \cup {Section(pass, stamp)}
                                                ELSE tree[f]
    BY <1>2, <1>3, <1>4 DEF Replace, Contents
  <1>6. Section(pass, stamp) \in Marks /\ Section(pass, stamp).by = pass /\ pass # "hand"
    BY <1>4, SomeMarks
  <1>7. tree' \in Contents
    BY <1>2, <1>3, <1>4, <1>6 DEF Replace, Contents
  <1>8. TypeOK'
    BY <1>1, <1>2, <1>7 DEF TypeOK, Steps, WithPage
  <1>9. \A f \in Files : Machine(tree, f) = Machine(head, f)
    BY <1>1, <1>2 DEF CheckoutOK, Agree
  <1>10. CheckoutOK'
    <2>1. \A f \in Files \ {Page, Log} : Machine(tree', f) = Machine(head', f)
      BY <1>2, <1>5, <1>9 DEF Machine
    <2>2. Machine(tree', Log) = Machine(head', Log)
      BY <1>2, <1>3, <1>5, <1>9, FileNames DEF Machine
    <2>3. Machine(tree', Page) = {mk \in Machine(tree, Page) : mk.by # pass}
                                   \cup {Section(pass, stamp)}
      BY <1>3, <1>5, <1>6 DEF Machine, Sections
    <2>4. Machine(tree', Page) = {mk \in Machine(head', Page) : mk.by # pass}
                                   \cup {Section(pass, stamp)}
      BY <1>2, <1>3, <1>9, <2>3 DEF Machine
    <2> QED BY <1>2, <1>3, <2>1, <2>2, <2>4 DEF CheckoutOK
  <1>11. Line(pass, Page, stamp) \notin began
    <2>1. CASE pass # "history"
      BY <1>1, <1>2, <1>3, <2>1 DEF BeganOK
    <2>2. CASE pass = "history"
      <3>1. Section(pass, stamp) \notin tree[Page]
        BY <2>2 DEF Current
      <3>2. Section(pass, stamp) \notin head[Page]
        BY <1>3, <1>6, <1>9, <3>1 DEF Machine
      <3>3. \A mk \in head[Log] : mk.by = pass => mk.at <= stamp
        BY <1>1, <1>2 DEF StampOK
      <3>4. Line(pass, Page, stamp) \notin head[Log]
        BY <1>1, <1>3, <1>4, <3>2, <3>3, NewestIsShown
      <3>5. Line(pass, Page, stamp).by # "hand"
        BY <1>3, <1>4, SomeMarks
      <3> QED BY <1>1, <3>4, <3>5 DEF BeganOK
    <2> QED BY <2>1, <2>2
  <1>12. BeganOK'
    BY <1>1, <1>2, <1>3, <1>11 DEF BeganOK
  <1>13. WorkOK' /\ StampOK' /\ BaseOK'
    BY <1>1, <1>2 DEF WorkOK, StampOK, BaseOK, WithPage, InPage, Agree, Machine
  <1>14. LinesOK'
    BY <1>1, <1>2 DEF LinesOK
  <1>15. PagesMatchTheLog'
    BY <1>1, <1>2 DEF PagesMatchTheLog, Sections, Newest
  <1>16. RunsTellWhatLanded'
    BY <1>1, <1>2 DEF RunsTellWhatLanded, Landed
  <1> QED BY <1>8, <1>10, <1>12, <1>13, <1>14, <1>15, <1>16 DEF ResearchInv

LEMMA WriteLogKeeps ==
    ASSUME ResearchInv, WriteLog
    PROVE  ResearchInv'
  <1>1. /\ TypeOK /\ WorkOK /\ LinesOK /\ StampOK /\ BeganOK /\ PagesMatchTheLog
        /\ RunsTellWhatLanded /\ CheckoutOK /\ BaseOK
    BY DEF ResearchInv
  <1>2. /\ pc = "log" /\ pc' = "publish"
        /\ tree' = [tree EXCEPT ![Log] = @ \cup {Line(pass, Page, stamp)}]
        /\ UNCHANGED <<head, rev, epoch, pass, work, stamp, base, published, flagged, began, spent>>
    BY DEF WriteLog
  <1>3. Page \in Pages /\ Page # Log /\ Page' = Page
    BY <1>1, <1>2, PageInHand DEF WithPage, Page
  <1>4. pass \in Passes /\ stamp \in Nat /\ tree \in Contents
    BY <1>1 DEF TypeOK
  <1>5. Line(pass, Page, stamp) \in Marks /\ Line(pass, Page, stamp).by # "hand"
    BY <1>3, <1>4, SomeMarks
  <1>6. tree' \in Contents
    BY <1>2, <1>4, <1>5, FileNames DEF Contents
  <1>7. TypeOK'
    BY <1>1, <1>2, <1>6 DEF TypeOK, Steps, WithPage
  <1>8. \A f \in Files : tree'[f] = IF f = Log THEN tree[f] \cup {Line(pass, Page, stamp)}
                                               ELSE tree[f]
    BY <1>2, <1>4 DEF Contents
  <1>9. CheckoutOK'
    <2>1. \A f \in Files \ {Log} : Machine(tree', f) = Machine(tree, f)
      BY <1>8 DEF Machine
    <2>2. Machine(tree', Log) = Machine(tree, Log) \cup {Line(pass, Page, stamp)}
      BY <1>5, <1>8, FileNames DEF Machine
    <2>3. /\ \A f \in Files \ {Page, Log} : Machine(tree, f) = Machine(head, f)
          /\ Machine(tree, Page) = {mk \in Machine(head, Page) : mk.by # pass}
                                     \cup {Section(pass, stamp)}
          /\ Machine(tree, Log) = Machine(head, Log)
      BY <1>1, <1>2 DEF CheckoutOK
    <2>4. /\ \A f \in Files \ {Page, Log} : Machine(tree', f) = Machine(head', f)
          /\ Machine(tree', Page) = {mk \in Machine(head', Page) : mk.by # pass}
                                     \cup {Section(pass, stamp)}
          /\ Machine(tree', Log) = Machine(head', Log) \cup {Line(pass, Page, stamp)}
      BY <1>2, <1>3, <2>1, <2>2, <2>3, FileNames DEF Machine
    <2> QED BY <1>2, <1>3, <2>4 DEF CheckoutOK
  <1>10. WorkOK' /\ StampOK' /\ BaseOK'
    BY <1>1, <1>2 DEF WorkOK, StampOK, BaseOK, WithPage, InPage, Agree, Machine
  <1>11. BeganOK'
    BY <1>1, <1>2, <1>3 DEF BeganOK
  <1>12. LinesOK'
    BY <1>1, <1>2 DEF LinesOK
  <1>13. PagesMatchTheLog'
    BY <1>1, <1>2 DEF PagesMatchTheLog, Sections, Newest
  <1>14. RunsTellWhatLanded'
    BY <1>1, <1>2 DEF RunsTellWhatLanded, Landed
  <1> QED BY <1>7, <1>9, <1>10, <1>11, <1>12, <1>13, <1>14 DEF ResearchInv

\* The page lands with its line.
LEMMA PublishKeeps ==
    ASSUME ResearchInv, Publish
    PROVE  ResearchInv'
  <1>1. /\ TypeOK /\ WorkOK /\ LinesOK /\ StampOK /\ BeganOK /\ PagesMatchTheLog
        /\ RunsTellWhatLanded /\ CheckoutOK /\ BaseOK
    BY DEF ResearchInv
  <1>2. /\ pc = "publish" /\ head' = tree /\ rev' = rev + 1
        /\ published' = published \cup {Page} /\ NextPage
        /\ UNCHANGED <<tree, epoch, pass, stamp, base, flagged, rolledBack, began, spent>>
    BY DEF Publish
  <1>3. Page \in Pages /\ Page \in Files /\ Page # Log /\ 1 \in DOMAIN work /\ Page = work[1]
    BY <1>1, <1>2, PageInHand DEF WithPage
  <1>4. /\ work' \in Seq(Pages) /\ pc' \in {"page", "done"}
        /\ WorkOK'
        /\ pass' # "history" => \A i \in DOMAIN work' : Line(pass', work'[i], stamp') \notin began'
    BY <1>1, <1>2, NextPageKeeps DEF WithPage
  <1>5. TypeOK'
    BY <1>1, <1>2, <1>3, <1>4 DEF TypeOK, Steps, WithPage
  <1>6. CheckoutOK' /\ BaseOK'
    BY <1>2, <1>4 DEF CheckoutOK, BaseOK, InPage, Agree, Machine
  <1>7. pass \in Passes /\ stamp \in Nat /\ head \in Contents /\ tree \in Contents
    BY <1>1 DEF TypeOK
  <1> DEFINE section == Section(pass, stamp)
             line == Line(pass, Page, stamp)
  <1>8. /\ section \in Marks /\ section.by = pass /\ section.on = "page" /\ section.at = stamp
        /\ line \in Marks /\ line.by = pass /\ line.on = Page /\ line.at = stamp
        /\ pass # "hand"
    BY <1>3, <1>7, SomeMarks
  <1>9. /\ \A f \in Files \ {Page, Log} : Machine(head', f) = Machine(head, f)
        /\ Machine(head', Page) = {mk \in Machine(head, Page) : mk.by # pass} \cup {section}
        /\ Machine(head', Log) = Machine(head, Log) \cup {line}
    BY <1>1, <1>2 DEF CheckoutOK, Machine
  <1> HIDE DEF section, line
  <1>10. /\ \A f \in Files \ {Page, Log} : \A mk : mk.by # "hand" =>
                (mk \in head'[f] <=> mk \in head[f])
         /\ \A mk : mk.by # "hand" =>
                (mk \in head'[Page] <=> (mk \in head[Page] /\ mk.by # pass) \/ mk = section)
         /\ \A mk : mk.by # "hand" => (mk \in head'[Log] <=> mk \in head[Log] \/ mk = line)
    BY <1>8, <1>9 DEF Machine
  <1>11. \A f \in Files : \A mk \in head'[f] : mk \in Marks
    BY <1>2, <1>7 DEF Contents
  <1>12. \A mk \in head'[Log] \cup head[Log] : mk.by = "hand" => mk.on = "page"
    BY <1>7, <1>11, FileNames, MarkParts DEF Contents
  <1>13. stamp <= epoch[pass] /\ \A mk \in head[Log] : mk.by = pass => mk.at <= stamp
    BY <1>1, <1>2 DEF StampOK
  <1>14. LinesOK'
    <2>1. \A mk \in head'[Log] : mk.by # "hand" => mk.on \in Pages /\ mk.at <= epoch'[mk.by]
      BY <1>1, <1>2, <1>3, <1>8, <1>10, <1>13 DEF LinesOK
    <2>2. ASSUME NEW p \in Pages, NEW mk \in head'[p] PROVE mk.on = "page"
      <3>1. p \in Files /\ p # Log /\ mk \in Marks
        BY <1>11, FileNames
      <3>2. CASE mk.by = "hand"
        BY <3>1, <3>2, MarkParts
      <3>3. CASE mk.by # "hand"
        BY <1>1, <1>8, <1>10, <3>1, <3>3 DEF LinesOK
      <3> QED BY <3>2, <3>3
    <2> QED BY <2>1, <2>2 DEF LinesOK
  <1>15. StampOK'
    <2>1. \A mk \in head'[Log] : mk.by = pass => mk.at <= stamp
      BY <1>7, <1>8, <1>10, <1>13
    <2> QED BY <1>2, <1>13, <2>1 DEF StampOK
  <1>16. BeganOK'
    <2>1. {mk \in began' : mk.by # "hand"} \subseteq head'[Log]
      BY <1>1, <1>2, <1>10 DEF BeganOK
    <2> QED BY <1>4, <2>1 DEF BeganOK
  <1>17. PagesMatchTheLog'
    <2> SUFFICES ASSUME NEW p \in Pages, NEW s \in Passes
                 PROVE  {mk.at : mk \in Sections(p, s, head')} = {mk.at : mk \in Newest(p, s, head')}
      BY DEF PagesMatchTheLog
    <2>1. p \in Files /\ p # Log /\ s # "hand"
      BY FileNames, SomeMarks
    <2>2. CASE p = Page /\ s = pass
      <3>1. Sections(p, s, head') = {section}
        BY <1>8, <1>10, <2>1, <2>2 DEF Sections
      <3>2. line \in Newest(p, s, head')
        BY <1>7, <1>8, <1>10, <1>13, <2>1, <2>2 DEF Newest
      <3>3. ASSUME NEW mk \in Newest(p, s, head') PROVE mk.at = stamp
        <4>1. mk \in head'[Log] /\ mk.by = s /\ line.at <= mk.at
          BY <1>8, <3>2, <2>2 DEF Newest
        <4>2. mk.at \in Nat
          BY <1>11, <4>1, FileNames, MarkParts
        <4>3. mk.at <= stamp
          BY <1>7, <1>8, <1>10, <1>13, <2>1, <2>2, <4>1
        <4> QED BY <1>7, <1>8, <4>1, <4>2, <4>3
      <3>4. {mk.at : mk \in Newest(p, s, head')} = {stamp}
        BY <1>8, <3>2, <3>3
      <3>5. {mk.at : mk \in Sections(p, s, head')} = {stamp}
        BY <1>8, <3>1
      <3> QED BY <3>4, <3>5
    <2>3. CASE ~(p = Page /\ s = pass)
      <3>1. /\ \A mk : mk.by = s => (mk \in head'[p] <=> mk \in head[p])
            /\ \A mk : mk.by = s /\ mk.on = p => (mk \in head'[Log] <=> mk \in head[Log])
        BY <1>8, <1>10, <2>1, <2>3
      <3>2. Sections(p, s, head') = Sections(p, s, head) /\ Newest(p, s, head') = Newest(p, s, head)
        BY ONLY <3>1, SameMarks
      <3> QED BY <1>1, <3>2 DEF PagesMatchTheLog
    <2> QED BY <2>2, <2>3
  <1>18. RunsTellWhatLanded'
    <2>1. line \notin began
      BY <1>1, <1>2 DEF BeganOK, line
    <2>2. ASSUME NEW x PROVE x \in Landed' <=> x \in Landed \cup {Page}
      BY <1>2, <1>3, <1>8, <1>10, <1>12, <2>1, FileNames DEF Landed
    <2>3. published = Landed /\ published \cap flagged = {}
      BY <1>1 DEF RunsTellWhatLanded
    <2>4. Page \notin flagged
      BY <1>1, <1>2, <1>3 DEF WorkOK
    <2>5. published' = Landed'
      BY <1>2, <2>2, <2>3
    <2> QED BY <1>2, <2>3, <2>4, <2>5 DEF RunsTellWhatLanded
  <1> QED BY <1>4, <1>5, <1>6, <1>14, <1>15, <1>16, <1>17, <1>18 DEF ResearchInv

\* A page that says the same already, and the end of the run.
LEMMA PassedBy ==
    ASSUME ResearchInv, SaysTheSame \/ Finish
    PROVE  ResearchInv'
  <1>1. /\ TypeOK /\ WorkOK /\ LinesOK /\ StampOK /\ BeganOK /\ PagesMatchTheLog
        /\ RunsTellWhatLanded /\ CheckoutOK
    BY DEF ResearchInv
  <1>2. CASE SaysTheSame
    <2>1. /\ pc = "write" /\ NextPage
          /\ UNCHANGED <<head, rev, tree, epoch, pass, stamp, base, published, flagged, began, spent>>
      BY <1>2 DEF SaysTheSame, wiki
    <2>2. /\ work' \in Seq(Pages) /\ pc' \in {"page", "done"}
          /\ WorkOK'
          /\ pass' # "history" => \A i \in DOMAIN work' : Line(pass', work'[i], stamp') \notin began'
      BY <1>1, <2>1, NextPageKeeps DEF WithPage
    <2>3. TypeOK'
      BY <1>1, <2>1, <2>2 DEF TypeOK, Steps, WithPage
    <2>4. CheckoutOK' /\ BaseOK'
      BY <1>1, <2>1, <2>2 DEF CheckoutOK, BaseOK, InPage, Agree, Machine
    <2>5. LinesOK' /\ StampOK'
      BY <1>1, <2>1 DEF LinesOK, StampOK
    <2>6. BeganOK'
      BY <1>1, <2>1, <2>2 DEF BeganOK
    <2>7. PagesMatchTheLog'
      BY <1>1, <2>1 DEF PagesMatchTheLog, Sections, Newest
    <2>8. RunsTellWhatLanded'
      BY <1>1, <2>1 DEF RunsTellWhatLanded, Landed
    <2> QED BY <2>2, <2>3, <2>4, <2>5, <2>6, <2>7, <2>8 DEF ResearchInv
  <1>3. CASE Finish
    BY <1>1, <1>3, NoRunKeeps DEF Finish, wiki, TypeOK
  <1> QED BY <1>2, <1>3

-----------------------------------------------------------------------------
(* The world.                                                              *)

LEMMA MoveOnKeeps ==
    ASSUME ResearchInv, NEW s \in Passes, MoveOn(s)
    PROVE  ResearchInv'
  <1>1. /\ TypeOK /\ WorkOK /\ LinesOK /\ StampOK /\ BeganOK /\ PagesMatchTheLog
        /\ RunsTellWhatLanded /\ CheckoutOK /\ BaseOK
    BY DEF ResearchInv
  <1>2. /\ epoch' = [epoch EXCEPT ![s] = @ + 1]
        /\ UNCHANGED <<head, rev, tree, pass, pc, work, stamp, base, published, flagged, began, spent>>
    BY DEF MoveOn, wiki, run
  <1>3. epoch' \in [Passes -> Nat] /\ \A r \in Passes : epoch[r] \in Nat /\ epoch[r] <= epoch'[r]
    BY <1>1, <1>2 DEF TypeOK
  <1>4. TypeOK'
    BY <1>1, <1>2, <1>3 DEF TypeOK
  <1>5. \A mk \in head[Log] : mk \in Marks
    BY <1>1, FileNames DEF TypeOK, Contents
  <1>6. LinesOK'
    <2>1. ASSUME NEW mk \in head[Log], mk.by # "hand" PROVE mk.at <= epoch'[mk.by]
      <3>1. mk.by \in Passes /\ mk.at \in Nat
        BY <1>5, <2>1, MarkParts
      <3>2. mk.at <= epoch[mk.by]
        BY <1>1, <2>1 DEF LinesOK
      <3> QED BY <1>3, <3>1, <3>2
    <2> QED BY <1>1, <1>2, <2>1 DEF LinesOK
  <1>7. StampOK'
    <2>1. pass \in Passes /\ stamp \in Nat
      BY <1>1 DEF TypeOK
    <2> QED BY <1>1, <1>2, <1>3, <2>1 DEF StampOK
  <1>8. WorkOK' /\ CheckoutOK' /\ BaseOK' /\ BeganOK'
    BY <1>1, <1>2 DEF WorkOK, CheckoutOK, BaseOK, BeganOK, Agree, Machine, Page
  <1>9. PagesMatchTheLog'
    BY <1>1, <1>2 DEF PagesMatchTheLog, Sections, Newest
  <1>10. RunsTellWhatLanded'
    BY <1>1, <1>2 DEF RunsTellWhatLanded, Landed
  <1> QED BY <1>4, <1>6, <1>7, <1>8, <1>9, <1>10 DEF ResearchInv

\* Nobody's marks but hands' change: at HEAD, in the checkout or in both.
LEMMA HandsKeep ==
    ASSUME ResearchInv, head' \in Contents, tree' \in Contents, rev' \in Nat,
           spent'.hands \in Nat,
           \A f \in Files : Machine(head', f) = Machine(head, f),
           \A f \in Files : Machine(tree', f) = Machine(tree, f),
           UNCHANGED <<epoch, run>>
    PROVE  ResearchInv'
  <1>1. /\ TypeOK /\ WorkOK /\ LinesOK /\ StampOK /\ BeganOK /\ PagesMatchTheLog
        /\ RunsTellWhatLanded /\ CheckoutOK /\ BaseOK
    BY DEF ResearchInv
  <1>2. UNCHANGED <<epoch, pass, pc, work, stamp, base, published, flagged, began>>
    BY DEF run
  <1>3. TypeOK'
    BY <1>1, <1>2 DEF TypeOK
  <1>4. /\ PagesMatchTheLog' /\ RunsTellWhatLanded' /\ LinesOK'
        /\ {mk \in began' : mk.by # "hand"} \subseteq head'[Log]
        /\ \A mk : mk.by # "hand" => (mk \in head'[Log] <=> mk \in head[Log])
    BY <1>1, <1>2, HeadMarksKeep
  <1>5. StampOK'
    <2>1. pass # "hand"
      BY <1>1, SomeMarks DEF TypeOK
    <2> QED BY <1>1, <1>2, <1>4, <2>1 DEF StampOK
  <1>6. WorkOK'
    BY <1>1, <1>2 DEF WorkOK
  <1>7. BeganOK'
    BY <1>1, <1>2, <1>4 DEF BeganOK, Page
  <1>8. Page' = Page
    BY <1>2 DEF Page
  <1>9. BaseOK'
    BY <1>1, <1>2 DEF BaseOK, Agree, Machine
  <1>10. CheckoutOK'
    <2>1. ASSUME pc' \in {"page", "ask", "write", "done"} PROVE Agree(tree)'
      BY <1>1, <1>2, <2>1 DEF CheckoutOK, Agree
    <2>2. ASSUME pc' \in {"log", "publish"}
          PROVE  /\ \A f \in Files \ {Page, Log} : Machine(tree', f) = Machine(head', f)
                 /\ Machine(tree', Page) = {mk \in Machine(head', Page) : mk.by # pass}
                                             \cup {Section(pass, stamp)}
                 /\ Machine(tree', Log) = Machine(head', Log)
                      \cup (IF pc = "publish" THEN {Line(pass, Page, stamp)} ELSE {})
      <3>1. Page \in Files /\ Log \in Files
        BY <1>1, <1>2, <2>2, PageInHand, FileNames DEF WithPage
      <3> QED BY <1>1, <1>2, <2>2, <3>1 DEF CheckoutOK
    <2> QED BY <1>2, <1>8, <2>1, <2>2 DEF CheckoutOK
  <1> QED BY <1>3, <1>4, <1>5, <1>6, <1>7, <1>9, <1>10 DEF ResearchInv

LEMMA WorldKeeps ==
    ASSUME ResearchInv, World
    PROVE  ResearchInv'
  <1>1. /\ head \in Contents /\ tree \in Contents /\ rev \in Nat /\ spent.hands \in Nat
        /\ work \in Seq(Pages)
    BY DEF ResearchInv, TypeOK
  <1>2. CASE \E s \in Passes : MoveOn(s)
    BY <1>2, MoveOnKeeps
  <1>3. CASE Clean
    BY <1>1, <1>3, NoRunKeeps DEF Clean, run
  <1>4. ASSUME NEW f \in Files, HandEdit(f) \/ HandCommit(f) PROVE ResearchInv'
    <2> DEFINE note == Note(spent.hands)
    <2>1. note \in Marks /\ note.by = "hand"
      BY <1>1, SomeMarks
    <2>2. /\ tree' = [tree EXCEPT ![f] = @ \cup {note}]
          /\ head' = head \/ head' = [head EXCEPT ![f] = @ \cup {note}]
          /\ rev' = rev \/ rev' = rev + 1
          /\ Spend("hands")
          /\ UNCHANGED <<epoch, run>>
      BY <1>4 DEF HandEdit, HandCommit
    <2> HIDE DEF note
    <2>3. tree' \in Contents /\ head' \in Contents /\ rev' \in Nat
      BY <1>1, <2>1, <2>2 DEF Contents
    <2>4. \A g \in Files : /\ tree'[g] = tree[g] \/ tree'[g] = tree[g] \cup {note}
                           /\ head'[g] = head[g] \/ head'[g] = head[g] \cup {note}
      BY <1>1, <2>2 DEF Contents
    <2>5. \A g \in Files : /\ Machine(head', g) = Machine(head, g)
                           /\ Machine(tree', g) = Machine(tree, g)
      BY <2>1, <2>4 DEF Machine
    <2>6. spent'.hands \in Nat
      BY <1>1, <2>2, SpendKeeps
    <2> QED BY <2>2, <2>3, <2>5, <2>6, HandsKeep
  <1> QED BY <1>2, <1>3, <1>4 DEF World

-----------------------------------------------------------------------------

LEMMA InitHolds == Init => ResearchInv
  <1> SUFFICES ASSUME Init PROVE ResearchInv
    OBVIOUS
  <1>1. head \in Contents /\ tree = head /\ base.content = head
        /\ \A f \in Files : head[f] = {}
    BY DEF Init, Contents
  <1>2. TypeOK
    BY <1>1 DEF Init, TypeOK, Passes, Steps
  <1>3. WorkOK /\ CheckoutOK /\ BaseOK /\ StampOK
    BY DEF Init, WorkOK, CheckoutOK, BaseOK, StampOK, WithPage, InPage
  <1>4. LinesOK
    BY <1>1, FileNames DEF LinesOK
  <1>5. PagesMatchTheLog
    BY <1>1, FileNames DEF PagesMatchTheLog, Sections, Newest
  <1>6. RunsTellWhatLanded /\ BeganOK
    BY <1>1, FileNames DEF Init, RunsTellWhatLanded, Landed, BeganOK
  <1> QED BY <1>2, <1>3, <1>4, <1>5, <1>6 DEF ResearchInv

LEMMA NextHolds == ResearchInv /\ [Next]_vars => ResearchInv'
  <1> SUFFICES ASSUME ResearchInv, [Next]_vars PROVE ResearchInv'
    OBVIOUS
  <1>1. CASE StartResearch \/ StartCaveats \/ StartHistory
    BY <1>1, StartKeeps
  <1>2. CASE StructuredLoop \/ CaveatsLoop \/ HistoryLoop
    <2>1. \/ TakeUp \/ Answered
          \/ WritePage /\ (pass = "history" => ~Current(Page, pass, stamp))
          \/ WriteLog \/ Publish \/ SaysTheSame \/ Finish
          \/ Unfetchable \/ Leaks \/ LintBlocked
          \/ Unusable \/ Rejected \/ Moved \/ Interrupt
      BY <1>2 DEF StructuredLoop, CaveatsLoop, HistoryLoop, PublishPage
    <2>2. CASE Unusable
      BY <2>2, LeftBehind, CutShort DEF Unusable
    <2>3. CASE Rejected
      BY <2>3, LeftBehind, CutShort
    <2> QED BY <2>1, <2>2, <2>3, TakeUpKeeps, WritePageKeeps, WriteLogKeeps, PublishKeeps, PassedBy,
               LeftBehind, CutShort
  <1>3. CASE Kill
    BY <1>3, CutShort
  <1>4. CASE World
    BY <1>4, WorldKeeps
  <1>5. CASE UNCHANGED vars
    <2>1. UNCHANGED <<head, tree, rev, epoch, run>> /\ spent' = spent
      BY <1>5 DEF vars, run
    <2>2. head' \in Contents /\ tree' \in Contents /\ rev' \in Nat /\ spent'.hands \in Nat
          /\ \A f \in Files : /\ Machine(head', f) = Machine(head, f)
                              /\ Machine(tree', f) = Machine(tree, f)
      BY <2>1 DEF ResearchInv, TypeOK, Machine
    <2> QED BY <2>1, <2>2, HandsKeep
  <1> QED BY <1>1, <1>2, <1>3, <1>4, <1>5 DEF Next, Run

\* The inductive invariant: between pages the checkout, HEAD and the base
\* of a page agree on what the machine wrote, within a page the checkout is
\* ahead by this page's section and line, and a line is not written twice.
THEOREM ResearchHolds == Spec => []ResearchInv
  <1> QED BY InitHolds, NextHolds, PTL DEF Spec

\* Every variable keeps its type: what any pass or hand leaves in a file is a
\* mark of a pass or of a hand, and a run does and tells pages only.
THEOREM TypeCorrect == Spec => []TypeOK
  <1>1. ResearchInv => TypeOK
    BY DEF ResearchInv
  <1> QED BY ResearchHolds, <1>1, PTL

\* Over failures, interrupts, kills, blocked pages and hands at work, HEAD
\* shows on each page what the newest line of log.md tells of it, and a run
\* tells exactly the pages that landed (the three loops of orchestrate.py).
THEOREM PagesLandWhole == Spec => []ResearchLandsWhole
  <1>1. ResearchInv => ResearchLandsWhole
    BY DEF ResearchInv, ResearchLandsWhole
  <1> QED BY ResearchHolds, <1>1, PTL

(***************************************************************************)
(* The portal.                                                             *)
(***************************************************************************)

(* What an operator, an agent and the server handle. *)
Typed == Texts \cup {AgentText, Blank}
TextFields == UNION {FieldsOf(v) : v \in VERBS}
Filled == UNION {[S -> Typed] : S \in SUBSET TextFields}
Statuses == {"open", "monitoring", "resolved"}
Moments == Nat \cup {Nothing}
Acts == [verb : VERBS, text : Filled, at : Nat, after : Statuses]
ShownSet == [form : Nat, base : Nat, record : Acts]
RevisionSet == [status : Statuses, records : SUBSET Acts, act : ShownSet \cup {Nothing}]
Errors ==
    {"", "none", "identity_is_server_side", "unknown_key", "bad_verb", "forbidden", "field",
     "transition_refused", "malformed", "preview_first", "confirmation_required", "lock_busy",
     "base_moved", "tree_dirty", "lint_blocked"}
Answers ==
    [error : Errors, base : Moments, at : Moments, nothing : BOOLEAN, blocked : BOOLEAN,
     requires : BOOLEAN, after : Statuses \cup {Nothing}, verb : VERBS \cup {Nothing},
     fields : Filled]
PageStates ==
    [screen : ON_INCIDENT \cup {"queue"}, form : Nat, allowed : SUBSET VERBS,
     verb : VERBS \cup {Nothing}, values : Filled, at : Moments, preview : Answers,
     filling : BOOLEAN, retry : BOOLEAN]
Bodies == [verb : VERBS, fields : Filled, base : Moments, at : Moments, keys : {{}}]
Messages ==
    [browser : Browsers, n : Nat, kind : {"preview", "repreview", "commit"},
     guarded : BOOLEAN, form : Nat, body : Bodies, awaited : BOOLEAN,
     answer : Answers \cup {Nothing}]

PortalTypeOK ==
    /\ clock \in Nat /\ forms \in Nat /\ calls \in Nat
    /\ page \in [Browsers -> PageStates]
    /\ wire \subseteq Messages
    /\ revisions \in Seq(RevisionSet) /\ HEAD > 0
    /\ shown \subseteq ShownSet

\* The record a body makes of a revision, and when it may.
RecordOn(inc, verb, fields, moment) ==
    Record(verb, fields, moment, NextStatus(inc.status, verb))
Buildable(inc, verb, fields, moment) ==
    /\ verb \in VERBS /\ Decodes(verb, fields)
    /\ NextStatus(inc.status, verb) # Nothing
    /\ ~Collides(inc.records, RecordOn(inc, verb, fields, moment))

\* The screens that show a preview, and the fields a form would send.
WithPreview == {"preview", "confirm", "result"}
Sent(state) ==
    [f \in {g \in FieldsOf(state.verb) :
              state.values[g] # Blank \/ g \in command_fields[state.verb].required} |->
        state.values[f]]

\* A preview says what a body says, of a revision that takes it.
Shows(log, preview, verb, fields, moment) ==
    /\ preview.base \in 1 .. Len(log)
    /\ preview.at = moment /\ moment \in Nat
    /\ preview.verb = verb
    /\ Command(verb, preview.fields) = Command(verb, fields)
    /\ preview.after = NextStatus(log[preview.base].status, verb)
    /\ preview.requires = Unwritten(verb, fields)
    /\ Buildable(log[preview.base], verb, fields, moment)

\* What a page shows is in the action log at HEAD.
OnHead(log, state) ==
    \E record \in log[Len(log)].records :
        /\ record.verb = state.preview.verb
        /\ record.text = Command(state.preview.verb, state.preview.fields)
        /\ record.at = state.preview.at

\* A page, by its screen.
PageOK(log, state) ==
    /\ state.verb # Nothing => state.values \in [FieldsOf(state.verb) -> Typed]
    /\ state.screen \in ON_INCIDENT => state.form > 0
    /\ state.screen \in WithPreview \cup {"form"} => state.verb # Nothing
    /\ state.screen \in WithPreview =>
         ~state.filling /\ Shows(log, state.preview, state.verb, Sent(state), state.at)
    /\ state.screen \in {"confirm", "result"} => ~state.preview.requires
    /\ state.screen = "result" => OnHead(log, state)

\* What a page waits for is about the form on its screen.
WaitsOK(messages, state, b) ==
    \A m \in messages : m.awaited /\ m.browser = b =>
        /\ m.form = state.form
        /\ m.body.verb = state.verb /\ m.body.fields = Sent(state) /\ m.body.at = state.at
        /\ \/ /\ state.screen = "form" /\ ~state.filling
              /\ m.kind = "preview" /\ m.guarded
              /\ \A other \in messages : other.awaited /\ other.browser = b => other = m
           \/ state.screen \in WithPreview /\ m.kind # "preview"

\* A commit carries what was shown; answered, it is on HEAD.
CommitOK(log, seen, m) ==
    /\ m.body.base \in 1 .. Len(log) /\ m.body.at \in Nat
    /\ [form |-> m.form, base |-> m.body.base,
        record |-> RecordOn(log[m.body.base], m.body.verb, m.body.fields, m.body.at)] \in seen
    /\ Buildable(log[m.body.base], m.body.verb, m.body.fields, m.body.at)
    /\ ~Unwritten(m.body.verb, m.body.fields)
    /\ m.answer # Nothing =>
         /\ m.answer.error \notin {"field", "confirmation_required"}
         /\ m.answer.error = "" =>
              RecordOn(log[m.body.base], m.body.verb, m.body.fields, m.body.at)
                \in log[Len(log)].records
\* A preview that is asked for, or was answered.
QuestionOK(log, m) ==
    /\ m.body.base = Nothing
    /\ m.kind = "repreview" => Decodes(m.body.verb, m.body.fields)
    /\ m.answer # Nothing =>
         /\ m.answer.error = "" =>
              /\ Shows(log, m.answer, m.body.verb, m.body.fields, m.answer.at)
              /\ m.body.at # Nothing => m.answer.at = m.body.at
         /\ m.kind = "repreview" => m.answer.error # "field"
MessageOK(log, seen, m) ==
    IF m.kind = "commit" THEN CommitOK(log, seen, m) ELSE QuestionOK(log, m)

\* Forms are counted, and a form is open on one page.
FormsOK ==
    /\ \A b \in Browsers : page[b].form <= forms
    /\ \A b, c \in Browsers : page[b].form = page[c].form /\ page[b].form > 0 => b = c
    /\ \A s \in shown : s.form \in 1 .. forms
\* A form has one timestamp.
MomentsOK ==
    /\ \A s, t \in shown : s.form = t.form => s.record.at = t.record.at
    /\ \A s \in shown, b \in Browsers : page[b].form = s.form => page[b].at = s.record.at

\* A resolution names the remaining risk.
Risky(record) == record.verb = "resolve" => record.text["residual_risk"] # Blank
\* The revisions: records stay, and every act was shown, landed on its base,
\* and is the only one of its form.
LogOK(log, seen) ==
    /\ \A n, k \in 1 .. Len(log) : n <= k => log[n].records \subseteq log[k].records
    /\ \A n \in 1 .. Len(log) : log[n].act # Nothing =>
         /\ log[n].act \in seen
         /\ log[n].act.base = n - 1
         /\ log[n].act.record \in log[n].records
         /\ Risky(log[n].act.record)
    /\ \A n, k \in 1 .. Len(log) :
         log[n].act # Nothing /\ log[k].act # Nothing /\ log[n].act.form = log[k].act.form => n = k

\* The inductive invariant.
PortalInv ==
    /\ PortalTypeOK /\ FormsOK /\ MomentsOK
    /\ \A b \in Browsers : PageOK(revisions, page[b]) /\ WaitsOK(wire, page[b], b)
    /\ \A m \in wire : MessageOK(revisions, shown, m)
    /\ LogOK(revisions, shown)

-----------------------------------------------------------------------------

LEMMA FieldNames ==
    /\ \A v \in VERBS : /\ FieldsOf(v) \subseteq TextFields
                        /\ command_fields[v].required \subseteq FieldsOf(v)
    /\ "residual_risk" \in FieldsOf("resolve")
    /\ Nothing \notin VERBS /\ Nothing \notin Nat
  <1>1. \A v \in VERBS : FieldsOf(v) \subseteq TextFields
    BY DEF TextFields
  <1>2. \A v \in VERBS : command_fields[v].required \subseteq FieldsOf(v)
    BY DEF FieldsOf
  <1>3. "residual_risk" \in FieldsOf("resolve")
    BY DEF FieldsOf, command_fields, Field
  <1>4. Nothing \notin Nat /\ Nothing \notin VERBS
    BY WorkbenchAssumption
  <1> QED BY <1>1, <1>2, <1>3, <1>4

LEMMA FilledIs ==
    ASSUME NEW S \in SUBSET TextFields, NEW f \in [S -> Typed]
    PROVE  f \in Filled
  BY DEF Filled

LEMMA FilledParts ==
    ASSUME NEW f \in Filled
    PROVE  /\ DOMAIN f \in SUBSET TextFields
           /\ f \in [DOMAIN f -> Typed]
  <1>1. PICK S \in SUBSET TextFields : f \in [S -> Typed]
    BY DEF Filled
  <1> QED BY <1>1

LEMMA NextStatusIs ==
    ASSUME NEW s, NEW v
    PROVE  NextStatus(s, v) \in Statuses \cup {Nothing}
  <1>1. \A t \in TRANSITIONS : t[3] \in Statuses
    BY DEF TRANSITIONS, ACTIVE, Statuses
  <1> DEFINE to == {t \in TRANSITIONS : t[1] = s /\ t[2] = v}
  <1>2. CASE to = {}
    BY <1>2 DEF NextStatus
  <1>3. CASE to # {}
    <2>1. (CHOOSE t \in to : TRUE) \in to
      BY <1>3
    <2>2. (CHOOSE t \in to : TRUE)[3] \in Statuses
      BY <1>1, <2>1
    <2>3. NextStatus(s, v) = (CHOOSE t \in to : TRUE)[3]
      BY <1>3 DEF NextStatus
    <2> QED BY <2>2, <2>3
  <1> QED BY <1>2, <1>3

\* What a body says, typed in full.
LEMMA CommandIs ==
    ASSUME NEW verb \in VERBS, NEW fields \in Filled
    PROVE  Command(verb, fields) \in Filled /\ DOMAIN Command(verb, fields) = FieldsOf(verb)
  <1>1. FieldsOf(verb) \in SUBSET TextFields
    BY FieldNames
  <1>2. \A f \in FieldsOf(verb) : (IF f \in DOMAIN fields THEN fields[f] ELSE Blank) \in Typed
    BY FilledParts DEF Typed
  <1>3. Command(verb, fields) \in [FieldsOf(verb) -> Typed]
    BY <1>2 DEF Command
  <1> QED BY <1>1, <1>3, FilledIs

\* The echo says the same, and is typed.
LEMMA EncodeSaysTheSame ==
    ASSUME NEW verb \in VERBS, NEW fields \in Filled, Decodes(verb, fields)
    PROVE  /\ Encode(verb, fields) \in Filled
           /\ Command(verb, Encode(verb, fields)) = Command(verb, fields)
  <1> DEFINE kept == {f \in FieldsOf(verb) : f \in command_fields[verb].required
                                               \/ Command(verb, fields)[f] # Blank}
  <1>1. Encode(verb, fields) = [f \in kept |-> fields[f]]
    BY DEF Encode
  <1>2. command_fields[verb].required \subseteq DOMAIN fields
    BY DEF Decodes
  <1>3. \A f \in FieldsOf(verb) :
          Command(verb, fields)[f] = IF f \in DOMAIN fields THEN fields[f] ELSE Blank
    BY DEF Command
  <1>4. kept \subseteq DOMAIN fields
    BY <1>2, <1>3
  <1>5. kept \in SUBSET TextFields
    BY FieldNames
  <1>6. [f \in kept |-> fields[f]] \in [kept -> Typed]
    BY <1>4, FilledParts
  <1>7. Encode(verb, fields) \in Filled
    BY <1>1, <1>5, <1>6, FilledIs
  <1>8. \A f \in FieldsOf(verb) :
          (IF f \in DOMAIN [g \in kept |-> fields[g]] THEN [g \in kept |-> fields[g]][f] ELSE Blank)
            = IF f \in DOMAIN fields THEN fields[f] ELSE Blank
    BY <1>3, <1>4
  <1>9. Command(verb, Encode(verb, fields)) = Command(verb, fields)
    BY <1>1, <1>8 DEF Command
  <1> QED BY <1>7, <1>9

LEMMA SentIs ==
    ASSUME NEW state, state.verb \in VERBS,
           state.values \in [FieldsOf(state.verb) -> Typed]
    PROVE  Sent(state) \in Filled
  <1> DEFINE S == {g \in FieldsOf(state.verb) :
              state.values[g] # Blank \/ g \in command_fields[state.verb].required}
  <1>1. S \in SUBSET TextFields
    BY FieldNames
  <1>2. Sent(state) \in [S -> Typed]
    BY DEF Sent
  <1> QED BY <1>1, <1>2, FilledIs

-----------------------------------------------------------------------------
(* The server. *)

LEMMA BuiltIs ==
    ASSUME NEW r, NEW body, NEW moment
    PROVE  /\ Built(r, body, moment) \in {"", "bad_verb", "forbidden", "field",
                                          "transition_refused", "malformed"}
           /\ Built(r, body, moment) = "" =>
                Buildable(revisions[r], body.verb, body.fields, moment)
           /\ body.verb \in VERBS /\ Decodes(body.verb, body.fields) =>
                Built(r, body, moment) # "field"
           /\ RecordOf(r, body, moment) = RecordOn(revisions[r], body.verb, body.fields, moment)
  BY DEF Built, Buildable, RecordOf, RecordOn

LEMMA RecordIs ==
    ASSUME NEW inc, NEW verb, NEW fields \in Filled, NEW moment \in Nat,
           Buildable(inc, verb, fields, moment)
    PROVE  RecordOn(inc, verb, fields, moment) \in Acts
  BY CommandIs, NextStatusIs DEF Buildable, RecordOn, Record, Acts

LEMMA AnswerIs ==
    ASSUME NEW error \in Errors, NEW b \in Moments, NEW a \in Moments
    PROVE  Answer(error, b, a) \in Answers /\ Answer(error, b, a).error = error
  <1>1. <<>> \in Filled
    <2>1. <<>> = [f \in {} |-> Blank]
      OBVIOUS
    <2>2. [f \in {} |-> Blank] \in [{} -> Typed]
      OBVIOUS
    <2> QED BY <2>1, <2>2, FilledIs
  <1> QED BY <1>1 DEF Answer, Answers

LEMMA RefusalIs ==
    ASSUME NEW error \in Errors
    PROVE  ErrorJson(error) \in Answers /\ ErrorJson(error).error = error
  <1>1. Nothing \in Moments
    BY DEF Moments
  <1> QED BY <1>1, AnswerIs DEF ErrorJson

LEMMA NothingSet ==
    ASSUME NEW answer \in Answers, NEW x \in BOOLEAN
    PROVE  /\ [answer EXCEPT !.nothing = x] \in Answers
           /\ [answer EXCEPT !.nothing = x].error = answer.error
           /\ [answer EXCEPT !.nothing = x].nothing = x
  BY DEF Answers

\* What the server answers to a question of a page.
LEMMA QuestionAnswered ==
    ASSUME PortalTypeOK, NEW body \in Bodies, body.base = Nothing, NEW debt \in BOOLEAN
    PROVE  LET answer == Preview(body, debt)
           IN  /\ answer \in Answers
               /\ answer.error = "" =>
                    /\ Shows(revisions, answer, body.verb, body.fields, answer.at)
                    /\ body.at # Nothing => answer.at = body.at
               /\ Decodes(body.verb, body.fields) => answer.error # "field"
  <1> DEFINE at_ == IF body.at = Nothing THEN clock ELSE body.at
             error_ == Built(HEAD, body, at_)
  <1>1. /\ body.verb \in VERBS /\ body.fields \in Filled /\ body.at \in Moments
        /\ at_ \in Nat /\ HEAD \in 1 .. Len(revisions) /\ HEAD \in Nat
    BY DEF Bodies, Moments, PortalTypeOK, HEAD
  <1>2. Preview(body, debt) = IF error_ # "" THEN ErrorJson(error_)
                              ELSE PreviewJson(body, HEAD, at_, debt)
    BY DEF Preview
  <1>3. CASE error_ # ""
    <2>1. error_ \in Errors
      BY BuiltIs DEF Errors
    <2>2. ErrorJson(error_) \in Answers /\ ErrorJson(error_).error = error_
      BY <2>1, RefusalIs
    <2> QED BY <1>1, <1>2, <1>3, <2>2, BuiltIs
  <1>4. CASE error_ = ""
    <2> DEFINE answer == PreviewJson(body, HEAD, at_, debt)
    <2>1. Buildable(revisions[HEAD], body.verb, body.fields, at_)
      BY <1>4, BuiltIs
    <2>2. RecordOf(HEAD, body, at_).after = NextStatus(revisions[HEAD].status, body.verb)
      BY DEF RecordOf, Record
    <2>3. /\ Encode(body.verb, body.fields) \in Filled
          /\ Command(body.verb, Encode(body.verb, body.fields)) = Command(body.verb, body.fields)
      BY <1>1, <2>1, EncodeSaysTheSame DEF Buildable
    <2>4. Answer("", HEAD, at_) \in Answers /\ Answer("", HEAD, at_).error = ""
          /\ Answer("", HEAD, at_).base = HEAD /\ Answer("", HEAD, at_).at = at_
      <3>1. "" \in Errors /\ HEAD \in Moments /\ at_ \in Moments
        BY <1>1 DEF Moments, Errors
      <3> QED BY <3>1, AnswerIs DEF Answer
    <2>5. /\ Unchanged(HEAD, body, at_) \in BOOLEAN
          /\ Unwritten(body.verb, body.fields) \in BOOLEAN
          /\ NextStatus(revisions[HEAD].status, body.verb) \in Statuses \cup {Nothing}
      BY NextStatusIs DEF Unchanged, Unwritten
    <2>6. /\ answer \in Answers
          /\ answer.error = "" /\ answer.base = HEAD /\ answer.at = at_
          /\ answer.verb = body.verb /\ answer.fields = Encode(body.verb, body.fields)
          /\ answer.after = NextStatus(revisions[HEAD].status, body.verb)
          /\ answer.requires = Unwritten(body.verb, body.fields)
      <3>1. PICK x \in BOOLEAN : x = Unchanged(HEAD, body, at_)
        BY <2>5
      <3>2. PICK y \in BOOLEAN : y = Unwritten(body.verb, body.fields)
        BY <2>5
      <3>3. answer = [Answer("", HEAD, at_) EXCEPT
                !.verb = body.verb, !.fields = Encode(body.verb, body.fields),
                !.after = NextStatus(revisions[HEAD].status, body.verb), !.nothing = x,
                !.blocked = debt, !.requires = y]
        BY <2>2, <3>1, <3>2, Zenon DEF PreviewJson
      <3> DEFINE verb_ == body.verb
                 echo == Encode(body.verb, body.fields)
                 after_ == NextStatus(revisions[HEAD].status, body.verb)
                 blank == Answer("", HEAD, at_)
      <3>4. verb_ \in VERBS /\ echo \in Filled /\ after_ \in Statuses \cup {Nothing} /\ blank \in Answers
        BY <1>1, <2>3, <2>4, <2>5
      <3> HIDE DEF answer, verb_, echo, after_, blank
      <3>5. answer = [blank EXCEPT !.verb = verb_, !.fields = echo, !.after = after_, !.nothing = x,
                                   !.blocked = debt, !.requires = y]
        BY <3>3, Zenon DEF verb_, echo, after_, blank
      <3>6. /\ answer \in Answers /\ answer.error = blank.error
            /\ answer.base = blank.base /\ answer.at = blank.at
            /\ answer.verb = verb_ /\ answer.fields = echo /\ answer.after = after_
            /\ answer.requires = y
        BY <3>4, <3>5 DEF Answers
      <3> QED BY <2>4, <3>2, <3>6 DEF verb_, echo, after_, blank
    <2>7. Shows(revisions, answer, body.verb, body.fields, answer.at)
      BY <1>1, <2>1, <2>3, <2>6 DEF Shows
    <2> QED BY <1>2, <1>4, <2>6, <2>7
  <1> QED BY <1>3, <1>4

\* What it answers to a commit of a page, and what it writes.
LEMMA CommitAnswered ==
    ASSUME PortalTypeOK, NEW m \in Messages, CommitOK(revisions, shown, m), NEW weather
    PROVE  LET answer == Commit(m.body, weather)
               record == RecordOn(revisions[m.body.base], m.body.verb, m.body.fields, m.body.at)
           IN  /\ answer \in Answers
               /\ answer.error \notin {"field", "confirmation_required"}
               /\ answer.error = "" =>
                    /\ m.body.base = HEAD
                    /\ answer.nothing => record \in revisions[HEAD].records
                    /\ ~answer.nothing => record \notin revisions[HEAD].records
  <1> DEFINE body == m.body
             record == RecordOn(revisions[m.body.base], m.body.verb, m.body.fields, m.body.at)
             error_ == PublishAct(body, weather)
             built == Built(body.base, body, body.at)
  <1>1. /\ body.base \in 1 .. HEAD /\ body.at \in Nat /\ body.base \in Nat
        /\ Buildable(revisions[body.base], body.verb, body.fields, body.at)
        /\ ~Unwritten(body.verb, body.fields)
    <2>1. body.base \in 1 .. Len(revisions) /\ body.at \in Nat
      BY DEF CommitOK
    <2>2. Len(revisions) \in Nat
      BY DEF PortalTypeOK
    <2>3. Buildable(revisions[body.base], body.verb, body.fields, body.at)
      BY DEF CommitOK
    <2>4. ~Unwritten(body.verb, body.fields)
      BY DEF CommitOK
    <2> QED BY <2>1, <2>2, <2>3, <2>4 DEF HEAD
  <1>2. Nothing \notin {body.base, body.at}
    BY <1>1, FieldNames
  <1>3. CASE built # ""
    <2>1. Commit(body, weather) = ErrorJson(built)
      BY <1>2, <1>3 DEF Commit
    <2>2. built \in Errors /\ built \notin {"field", "confirmation_required"}
      BY <1>1, BuiltIs DEF Buildable, Errors
    <2>3. ErrorJson(built) \in Answers /\ ErrorJson(built).error = built
      BY <2>2, RefusalIs
    <2> QED BY <1>3, <2>1, <2>2, <2>3
  <1>4. CASE built = ""
    <2>1. Commit(body, weather) = OutcomeJson(error_, body)
      BY <1>1, <1>2, <1>4 DEF Commit
    <2>2. error_ \in {"", "lock_busy", "base_moved", "tree_dirty", "lint_blocked"}
          /\ (error_ = "" => body.base = HEAD)
      BY DEF PublishAct
    <2>3. Unchanged(body.base, body, body.at) = (record \in revisions[body.base].records)
      BY BuiltIs DEF Unchanged
    <2>4. Answer(error_, body.base, body.at) \in Answers
          /\ Answer(error_, body.base, body.at).error = error_
      <3>1. error_ \in Errors
        BY <2>2 DEF Errors
      <3>2. body.base \in Moments /\ body.at \in Moments
        BY <1>1 DEF Moments
      <3> HIDE DEF error_, body
      <3> QED BY <3>1, <3>2, AnswerIs
    <2>5. /\ OutcomeJson(error_, body) \in Answers
          /\ OutcomeJson(error_, body).error = error_
          /\ OutcomeJson(error_, body).nothing = (record \in revisions[body.base].records)
      <3>1. PICK x \in BOOLEAN : x = Unchanged(body.base, body, body.at)
        <4>1. Unchanged(body.base, body, body.at) \in BOOLEAN
          BY DEF Unchanged
        <4> QED BY <4>1
      <3>2. OutcomeJson(error_, body) = [Answer(error_, body.base, body.at) EXCEPT !.nothing = x]
        BY <3>1, Zenon DEF OutcomeJson
      <3>3. OutcomeJson(error_, body) \in Answers /\ OutcomeJson(error_, body).error = error_
            /\ OutcomeJson(error_, body).nothing = x
        BY <3>2, <2>4, NothingSet
      <3> QED BY <3>1, <3>3, <2>3
    <2> QED BY <2>1, <2>2, <2>5
  <1> QED BY <1>3, <1>4

-----------------------------------------------------------------------------
(* A log that grows.                                                       *)

Extends(log, next) ==
    /\ Len(log) <= Len(next)
    /\ \A n \in 1 .. Len(log) : next[n] = log[n]
    /\ log[Len(log)].records \subseteq next[Len(next)].records

LEMMA AppendExtends ==
    ASSUME NEW log \in Seq(RevisionSet), Len(log) > 0, NEW r \in RevisionSet,
           log[Len(log)].records \subseteq r.records
    PROVE  /\ Append(log, r) \in Seq(RevisionSet) /\ Len(Append(log, r)) = Len(log) + 1
           /\ Append(log, r)[Len(log) + 1] = r
           /\ \A n \in 1 .. Len(log) : Append(log, r)[n] = log[n]
           /\ Extends(log, Append(log, r))
  <1>1. /\ Append(log, r) \in Seq(RevisionSet) /\ Len(Append(log, r)) = Len(log) + 1
        /\ Append(log, r)[Len(log) + 1] = r
        /\ \A n \in 1 .. Len(log) : Append(log, r)[n] = log[n]
        /\ Len(log) \in Nat
    OBVIOUS
  <1> QED BY <1>1 DEF Extends

LEMMA StillThere ==
    ASSUME NEW log, Len(log) \in Nat, NEW next \in Seq(RevisionSet), Extends(log, next),
           NEW n \in 1 .. Len(log)
    PROVE  next[n] = log[n] /\ n \in 1 .. Len(next)
  <1>1. Len(next) \in Nat
    OBVIOUS
  <1> QED BY <1>1 DEF Extends

LEMMA ShowsStays ==
    ASSUME NEW log, NEW next, Len(log) \in Nat, Len(next) \in Nat, Extends(log, next),
           NEW preview, NEW verb, NEW fields, NEW moment,
           Shows(log, preview, verb, fields, moment)
    PROVE  Shows(next, preview, verb, fields, moment)
  <1>1. preview.base \in 1 .. Len(log)
    BY DEF Shows
  <1>2. next[preview.base] = log[preview.base] /\ preview.base \in 1 .. Len(next)
    BY <1>1 DEF Extends
  <1> QED BY <1>2 DEF Shows

LEMMA PageStays ==
    ASSUME NEW log, NEW next, Len(log) \in Nat, Len(next) \in Nat, Extends(log, next),
           NEW state, PageOK(log, state)
    PROVE  PageOK(next, state)
  <1>1. state.screen = "result" => OnHead(next, state)
    BY DEF PageOK, OnHead, Extends
  <1>2. state.screen \in WithPreview =>
          ~state.filling /\ Shows(next, state.preview, state.verb, Sent(state), state.at)
    BY ShowsStays DEF PageOK
  <1> QED BY <1>1, <1>2 DEF PageOK

LEMMA MessageStays ==
    ASSUME NEW log, NEW next, Len(log) \in Nat, Len(next) \in Nat, Extends(log, next),
           NEW seen, NEW more, seen \subseteq more, NEW m, MessageOK(log, seen, m)
    PROVE  MessageOK(next, more, m)
  <1>1. CASE m.kind = "commit"
    <2>1. CommitOK(log, seen, m)
      BY <1>1 DEF MessageOK
    <2>2. m.body.base \in 1 .. Len(log)
      BY <2>1 DEF CommitOK
    <2>3. next[m.body.base] = log[m.body.base] /\ m.body.base \in 1 .. Len(next)
      BY <2>2 DEF Extends
    <2>4. CommitOK(next, more, m)
      BY <2>1, <2>3 DEF CommitOK, Extends
    <2> QED BY <1>1, <2>4 DEF MessageOK
  <1>2. CASE m.kind # "commit"
    <2>1. QuestionOK(log, m)
      BY <1>2 DEF MessageOK
    <2>2. QuestionOK(next, m)
      BY <2>1, ShowsStays DEF QuestionOK
    <2> QED BY <1>2, <2>2 DEF MessageOK
  <1> QED BY <1>1, <1>2

LEMMA LogStays ==
    ASSUME NEW log, NEW seen, NEW more, seen \subseteq more, LogOK(log, seen)
    PROVE  LogOK(log, more)
  BY DEF LogOK

\* A commit of something else.
LEMMA LogPasses ==
    ASSUME NEW log \in Seq(RevisionSet), Len(log) > 0, NEW r \in RevisionSet, NEW seen,
           LogOK(log, seen), r.records = log[Len(log)].records, r.act = Nothing
    PROVE  LogOK(Append(log, r), seen)
  <1> DEFINE next == Append(log, r)
  <1>1. /\ Len(log) \in Nat /\ Len(next) = Len(log) + 1 /\ next[Len(log) + 1] = r
        /\ \A n \in 1 .. Len(log) : next[n] = log[n]
    BY AppendExtends
  <1> HIDE DEF next
  <1>2. \A n \in 1 .. Len(next) : n \in 1 .. Len(log) \/ n = Len(log) + 1
    BY <1>1
  <1>3. \A n, k \in 1 .. Len(next) : n <= k => next[n].records \subseteq next[k].records
    <2> SUFFICES ASSUME NEW n \in 1 .. Len(next), NEW k \in 1 .. Len(next), n <= k
                 PROVE  next[n].records \subseteq next[k].records
      OBVIOUS
    <2>1. CASE k \in 1 .. Len(log)
      BY <2>1, <1>1, <1>2 DEF LogOK
    <2>2. CASE k = Len(log) + 1
      BY <2>2, <1>1, <1>2 DEF LogOK
    <2> QED BY <1>2, <2>1, <2>2
  <1>4. \A n \in 1 .. Len(next) : next[n].act # Nothing =>
          n \in 1 .. Len(log) /\ next[n] = log[n]
    BY <1>1, <1>2
  <1> QED BY <1>3, <1>4 DEF LogOK, next

\* A commit of an act on HEAD that HEAD does not hold.
LEMMA LogTakesAct ==
    ASSUME NEW log \in Seq(RevisionSet), Len(log) > 0, NEW r \in RevisionSet, NEW seen,
           LogOK(log, seen), r.act \in seen, r.act.base = Len(log),
           r.records = log[Len(log)].records \cup {r.act.record},
           Risky(r.act.record),
           \A n \in 1 .. Len(log) : log[n].act # Nothing => log[n].act.form # r.act.form
    PROVE  LogOK(Append(log, r), seen)
  <1> DEFINE next == Append(log, r)
  <1>1. /\ Len(log) \in Nat /\ Len(next) = Len(log) + 1 /\ next[Len(log) + 1] = r
        /\ \A n \in 1 .. Len(log) : next[n] = log[n]
    BY AppendExtends
  <1> HIDE DEF next
  <1>2. \A n \in 1 .. Len(next) : n \in 1 .. Len(log) \/ n = Len(log) + 1
    BY <1>1
  <1>3. \A n, k \in 1 .. Len(next) : n <= k => next[n].records \subseteq next[k].records
    <2> SUFFICES ASSUME NEW n \in 1 .. Len(next), NEW k \in 1 .. Len(next), n <= k
                 PROVE  next[n].records \subseteq next[k].records
      OBVIOUS
    <2>1. CASE k \in 1 .. Len(log)
      BY <2>1, <1>1, <1>2 DEF LogOK
    <2>2. CASE k = Len(log) + 1
      BY <2>2, <1>1, <1>2 DEF LogOK
    <2> QED BY <1>2, <2>1, <2>2
  <1>4. \A n \in 1 .. Len(next) : next[n].act # Nothing =>
         /\ next[n].act \in seen
         /\ next[n].act.base = n - 1
         /\ next[n].act.record \in next[n].records
         /\ Risky(next[n].act.record)
    <2> SUFFICES ASSUME NEW n \in 1 .. Len(next), next[n].act # Nothing
                 PROVE  /\ next[n].act \in seen
                        /\ next[n].act.base = n - 1
                        /\ next[n].act.record \in next[n].records
                        /\ Risky(next[n].act.record)
      OBVIOUS
    <2>1. CASE n \in 1 .. Len(log)
      BY <2>1, <1>1 DEF LogOK
    <2>2. CASE n = Len(log) + 1
      BY <2>2, <1>1
    <2> QED BY <1>2, <2>1, <2>2
  <1>5. \A n, k \in 1 .. Len(next) :
          next[n].act # Nothing /\ next[k].act # Nothing /\ next[n].act.form = next[k].act.form => n = k
    BY <1>1, <1>2 DEF LogOK
  <1> QED BY <1>3, <1>4, <1>5 DEF LogOK, next

-----------------------------------------------------------------------------
(* What the steps have in common. *)

\* A browser's page moves, and what it has on the wire.
MovesTo(b, state) ==
    /\ b \in Browsers /\ state \in PageStates
    /\ page' = [page EXCEPT ![b] = state]
    /\ clock' = clock /\ revisions' = revisions /\ shown' = shown
    /\ forms' \in Nat /\ forms <= forms' /\ calls' \in Nat
    /\ wire' \subseteq Messages
    /\ \A m \in wire' : m \in wire \/ (m.browser = b /\ MessageOK(revisions, shown, m))
    /\ state.form <= forms'
    /\ \A c \in Browsers \ {b} : page[c].form = state.form => state.form = 0
    /\ \A s \in shown : s.form = state.form => s.record.at = state.at
    /\ PageOK(revisions, state) /\ WaitsOK(wire', state, b)

LEMMA BrowserMoves ==
    ASSUME PortalInv, NEW b, NEW state, MovesTo(b, state)
    PROVE  PortalInv'
  <1> USE DEF MovesTo
  <1>1. PortalTypeOK /\ FormsOK /\ MomentsOK
    BY DEF PortalInv
  <1>2. page \in [Browsers -> PageStates]
    BY <1>1 DEF PortalTypeOK
  <1>3. page'[b] = state /\ \A c \in Browsers \ {b} : page'[c] = page[c]
    BY <1>2
  <1>4. PortalTypeOK'
    BY <1>1, <1>2 DEF PortalTypeOK, HEAD
  <1>5. \A c \in Browsers : page[c].form \in Nat /\ page'[c].form \in Nat
    BY <1>2, <1>3 DEF PageStates
  <1>6. FormsOK'
    <2>1. \A c \in Browsers : page'[c].form <= forms'
      BY <1>1, <1>3, <1>5 DEF FormsOK, PortalTypeOK
    <2>2. \A c, d \in Browsers : page'[c].form = page'[d].form /\ page'[c].form > 0 => c = d
      BY <1>1, <1>3, <1>5 DEF FormsOK
    <2>3. \A s \in shown' : s.form \in 1 .. forms'
      BY <1>1 DEF FormsOK, PortalTypeOK
    <2> QED BY <2>1, <2>2, <2>3 DEF FormsOK
  <1>7. MomentsOK'
    BY <1>1, <1>3 DEF MomentsOK
  <1>8. \A c \in Browsers : PageOK(revisions', page'[c])
    BY <1>3 DEF PortalInv
  <1>9. \A c \in Browsers : WaitsOK(wire', page'[c], c)
    <2> SUFFICES ASSUME NEW c \in Browsers \ {b} PROVE WaitsOK(wire', page[c], c)
      BY <1>3
    <2>1. WaitsOK(wire, page[c], c)
      BY DEF PortalInv
    <2>2. \A m \in wire' : m.browser = c => m \in wire
      OBVIOUS
    <2> QED BY <2>1, <2>2 DEF WaitsOK
  <1>10. \A m \in wire' : MessageOK(revisions', shown', m)
    BY DEF PortalInv
  <1>11. LogOK(revisions', shown')
    BY DEF PortalInv
  <1> QED BY <1>4, <1>6, <1>7, <1>8, <1>9, <1>10, <1>11 DEF PortalInv

\* What keeps its form and its timestamp.
LEMMA SameForm ==
    ASSUME PortalInv, NEW b \in Browsers, NEW state,
           state.form = page[b].form, state.at = page[b].at
    PROVE  /\ state.form <= forms
           /\ \A c \in Browsers \ {b} : page[c].form = state.form => state.form = 0
           /\ \A s \in shown : s.form = state.form => s.record.at = state.at
           /\ forms \in Nat /\ calls \in Nat /\ wire \subseteq Messages
  <1>1. PortalTypeOK /\ FormsOK /\ MomentsOK
    BY DEF PortalInv
  <1>2. \A c \in Browsers : page[c].form \in Nat
    BY <1>1 DEF PortalTypeOK, PageStates
  <1>3. page[b].form <= forms /\ forms \in Nat /\ calls \in Nat /\ wire \subseteq Messages
    BY <1>1 DEF FormsOK, PortalTypeOK
  <1>4. \A c \in Browsers \ {b} : page[c].form = state.form => state.form = 0
    BY <1>1, <1>2 DEF FormsOK
  <1>5. \A s \in shown : s.form = state.form => s.record.at = state.at
    BY <1>1 DEF MomentsOK
  <1> QED BY <1>3, <1>4, <1>5

LEMMA ThePage ==
    ASSUME PortalInv, NEW b \in Browsers
    PROVE  /\ page[b] \in PageStates
           /\ PageOK(revisions, page[b]) /\ WaitsOK(wire, page[b], b)
           /\ revisions \in Seq(RevisionSet) /\ Len(revisions) \in Nat /\ Len(revisions) > 0
           /\ clock \in Nat
  BY DEF PortalInv, PortalTypeOK, HEAD

\* A browser's page moves, and nothing else.
LEMMA PageMoves ==
    ASSUME PortalInv, NEW b \in Browsers, NEW state \in PageStates,
           Set(b, state),
           UNCHANGED <<clock, revisions, wire, shown, forms, calls>>,
           state.form = page[b].form, state.at = page[b].at,
           PageOK(revisions, state), WaitsOK(wire, state, b)
    PROVE  PortalInv'
  <1>1. page' = [page EXCEPT ![b] = state]
    BY DEF Set
  <1>2. /\ state.form <= forms
        /\ \A c \in Browsers \ {b} : page[c].form = state.form => state.form = 0
        /\ \A s \in shown : s.form = state.form => s.record.at = state.at
        /\ forms \in Nat /\ calls \in Nat /\ wire \subseteq Messages
    BY SameForm
  <1>3. /\ clock' = clock /\ revisions' = revisions /\ shown' = shown
        /\ forms' = forms /\ calls' = calls /\ wire' = wire
    OBVIOUS
  <1>4. forms' \in Nat /\ forms <= forms' /\ calls' \in Nat /\ wire' \subseteq Messages
    BY <1>2, <1>3
  <1>5. state.form <= forms' /\ WaitsOK(wire', state, b)
    BY <1>2, <1>3
  <1>6. \A m \in wire' : m \in wire \/ (m.browser = b /\ MessageOK(revisions, shown, m))
    BY <1>3
  <1>7. MovesTo(b, state)
    BY <1>1, <1>2, <1>3, <1>4, <1>5, <1>6 DEF MovesTo
  <1> QED BY <1>7, BrowserMoves

\* A patient operator who moves has nothing to wait for.
LEMMA NobodyWaits ==
    ASSUME Patient, NEW b \in Browsers, Undisturbed(b), NEW state
    PROVE  WaitsOK(wire, state, b)
  BY DEF Undisturbed, Awaited, WaitsOK

LEMMA Screens ==
    /\ Go("queue", "incident") = "incident"
    /\ Go("incident", "pick") = "form" /\ Go("incident", "back") = "queue"
    /\ Go("form", "back") = "incident" /\ Go("form", "preview") = "preview"
    /\ Go("preview", "back") = "form" /\ Go("preview", "continue") = "confirm"
    /\ Go("preview", "published") = "preview" /\ Go("preview", "repreview") = "preview"
    /\ Go("preview", "blocked") = "preview"
    /\ Go("confirm", "back") = "preview" /\ Go("confirm", "published") = "result"
    /\ Go("confirm", "repreview") = "preview" /\ Go("confirm", "blocked") = "preview"
    /\ Go("result", "back") = "queue" /\ Go("result", "published") = "result"
    /\ Go("result", "repreview") = "result" /\ Go("result", "blocked") = "result"
  <1>1. /\ TRANSITION["queue"] = [incident |-> "incident"]
        /\ TRANSITION["incident"] = [back |-> "queue", pick |-> "form"]
        /\ TRANSITION["form"] = [back |-> "incident", preview |-> "preview"]
        /\ TRANSITION["preview"] = [back |-> "form", continue |-> "confirm"]
        /\ TRANSITION["confirm"] = [back |-> "preview", published |-> "result",
                   repreview |-> "preview", blocked |-> "preview", amend |-> "form"]
        /\ TRANSITION["result"] = [back |-> "queue"]
    BY DEF TRANSITION
  <1> QED BY <1>1 DEF Go

-----------------------------------------------------------------------------
(* The page.                                                               *)

LEMMA OpenKeeps ==
    ASSUME Patient, PortalInv, NEW b \in Browsers, OpenIncident(b)
    PROVE  PortalInv'
  <1> DEFINE state == [Closed EXCEPT !.screen = Go("queue", "incident"), !.form = forms + 1,
                        !.allowed = Allowed(revisions[HEAD].status), !.values = page[b].values]
  <1>1. /\ page' = [page EXCEPT ![b] = state] /\ forms' = forms + 1 /\ Undisturbed(b)
        /\ UNCHANGED <<clock, revisions, wire, shown, calls>>
    BY DEF OpenIncident, Set
  <1>2. /\ page[b] \in PageStates /\ forms \in Nat /\ calls \in Nat /\ wire \subseteq Messages
        /\ PortalTypeOK /\ FormsOK
    BY DEF PortalInv, PortalTypeOK
  <1>3. NoPreview \in Answers
    BY RefusalIs DEF NoPreview, Errors
  <1>4. /\ state.screen = "incident" /\ state.form = forms + 1 /\ state.verb = Nothing
        /\ state \in PageStates
    <2>1. Allowed(revisions[HEAD].status) \in SUBSET VERBS
      BY DEF Allowed
    <2>2. page[b].values \in Filled
      BY <1>2 DEF PageStates
    <2> DEFINE allowed_ == Allowed(revisions[HEAD].status)
               values_ == page[b].values
    <2>3. Closed \in [screen : {NAV}, form : {0}, allowed : {{}}, verb : {Nothing}, values : {<<>>},
                      at : {Nothing}, preview : {NoPreview}, filling : {FALSE}, retry : {FALSE}]
      BY DEF Closed
    <2>4. state = [Closed EXCEPT !.screen = "incident", !.form = forms + 1,
                                 !.allowed = allowed_, !.values = values_]
      BY Screens, Zenon
    <2>5. allowed_ \in SUBSET VERBS /\ values_ \in Filled /\ forms + 1 \in Nat
      BY <1>2, <2>1, <2>2
    <2> HIDE DEF state, allowed_, values_
    <2>6. state = [screen |-> "incident", form |-> forms + 1, allowed |-> allowed_,
                   verb |-> Nothing, values |-> values_, at |-> Nothing, preview |-> NoPreview,
                   filling |-> FALSE, retry |-> FALSE]
      BY <2>3, <2>4
    <2> QED BY <1>3, <2>5, <2>6 DEF PageStates, ON_INCIDENT, Moments
  <1> HIDE DEF state
  <1>5. PageOK(revisions, state)
    BY <1>2, <1>4 DEF PageOK, WithPreview
  <1>6. WaitsOK(wire', state, b)
    BY <1>1, NobodyWaits
  <1>7. \A c \in Browsers : page[c].form \in Nat /\ page[c].form <= forms
    BY <1>2 DEF PortalTypeOK, PageStates, FormsOK
  <1>8. \A s \in shown : s.form # state.form
    BY <1>2, <1>4 DEF FormsOK
  <1>9. \A c \in Browsers \ {b} : page[c].form = state.form => state.form = 0
    BY <1>2, <1>4, <1>7
  <1>10. /\ clock' = clock /\ revisions' = revisions /\ shown' = shown
         /\ calls' = calls /\ wire' = wire
    BY <1>1
  <1>11. /\ forms' \in Nat /\ forms <= forms' /\ calls' \in Nat /\ wire' \subseteq Messages
         /\ state.form <= forms'
    BY <1>1, <1>2, <1>4, <1>10
  <1>12. \A m \in wire' : m \in wire \/ (m.browser = b /\ MessageOK(revisions, shown, m))
    BY <1>10
  <1>13. \A s \in shown : s.form = state.form => s.record.at = state.at
    BY <1>8
  <1>14. page' = [page EXCEPT ![b] = state] /\ state \in PageStates
    BY <1>1, <1>4
  <1>15. MovesTo(b, state)
    BY <1>5, <1>6, <1>9, <1>10, <1>11, <1>12, <1>13, <1>14 DEF MovesTo
  <1> QED BY <1>15, BrowserMoves

LEMMA PickKeeps ==
    ASSUME Patient, PortalInv, NEW b \in Browsers, PickVerb(b)
    PROVE  PortalInv'
  <1>1. PICK verb \in Verbs \cap page[b].allowed :
          Set(b, [page[b] EXCEPT
              !.screen = Go("incident", "pick"), !.verb = verb, !.preview = NoPreview,
              !.retry = FALSE,
              !.values = IF page[b].verb = verb THEN page[b].values
                         ELSE [f \in FieldsOf(verb) |-> Blank]])
    BY DEF PickVerb
  <1> DEFINE values_ == IF page[b].verb = verb THEN page[b].values
                        ELSE [f \in FieldsOf(verb) |-> Blank]
             state == [page[b] EXCEPT
              !.screen = Go("incident", "pick"), !.verb = verb, !.preview = NoPreview,
              !.retry = FALSE, !.values = values_]
  <1>2. /\ Undisturbed(b) /\ page[b].screen = "incident"
        /\ UNCHANGED <<clock, revisions, wire, shown, forms, calls>>
    BY DEF PickVerb
  <1>3. page[b] \in PageStates /\ PageOK(revisions, page[b])
    BY ThePage
  <1>4. verb \in VERBS /\ verb # Nothing
    BY <1>3, FieldNames DEF PageStates
  <1>5. NoPreview \in Answers
    BY RefusalIs DEF NoPreview, Errors
  <1>6. values_ \in [FieldsOf(verb) -> Typed]
    BY <1>3, <1>4 DEF PageOK, Typed
  <1>7. values_ \in Filled
    BY <1>4, <1>6, FieldNames, FilledIs
  <1> HIDE DEF values_
  <1>8. /\ state \in PageStates /\ state.screen = "form" /\ state.verb = verb
        /\ state.values = values_ /\ state.form = page[b].form /\ state.at = page[b].at
    BY <1>3, <1>4, <1>5, <1>7, Screens DEF PageStates, ON_INCIDENT
  <1>9. Set(b, state)
    BY <1>1 DEF values_
  <1> HIDE DEF state
  <1>10. PageOK(revisions, state)
    BY <1>2, <1>3, <1>4, <1>6, <1>8 DEF PageOK, WithPreview, ON_INCIDENT
  <1>11. WaitsOK(wire, state, b)
    BY <1>2, NobodyWaits
  <1> QED BY <1>2, <1>8, <1>9, <1>10, <1>11, PageMoves

LEMMA TypeInKeeps ==
    ASSUME Patient, PortalInv, NEW b \in Browsers, OnFormInput(b)
    PROVE  PortalInv'
  <1>1. PICK text \in Texts :
          Set(b, [page[b] EXCEPT !.values = [f \in FieldsOf(page[b].verb) |-> text]])
    BY DEF OnFormInput
  <1> DEFINE values_ == [f \in FieldsOf(page[b].verb) |-> text]
             state == [page[b] EXCEPT !.values = values_]
  <1>2. /\ Undisturbed(b) /\ page[b].screen = "form"
        /\ UNCHANGED <<clock, revisions, wire, shown, forms, calls>>
    BY DEF OnFormInput
  <1>3. page[b] \in PageStates /\ PageOK(revisions, page[b])
    BY ThePage
  <1>4. page[b].verb \in VERBS
    BY <1>2, <1>3 DEF PageOK, PageStates
  <1>5. values_ \in [FieldsOf(page[b].verb) -> Typed]
    BY DEF Typed
  <1>6. values_ \in Filled
    BY <1>4, <1>5, FieldNames, FilledIs
  <1> HIDE DEF values_
  <1>7. /\ state \in PageStates /\ state.screen = "form" /\ state.verb = page[b].verb
        /\ state.values = values_ /\ state.form = page[b].form /\ state.at = page[b].at
    BY <1>2, <1>3, <1>6 DEF PageStates
  <1>8. Set(b, state)
    BY <1>1 DEF values_
  <1> HIDE DEF state
  <1>9. PageOK(revisions, state)
    BY <1>2, <1>3, <1>5, <1>7 DEF PageOK, WithPreview, ON_INCIDENT
  <1>10. WaitsOK(wire, state, b)
    BY <1>2, NobodyWaits
  <1> QED BY <1>2, <1>7, <1>8, <1>9, <1>10, PageMoves

LEMMA AskKeeps ==
    ASSUME PortalInv, NEW b \in Browsers, AskForField(b)
    PROVE  PortalInv'
  <1> DEFINE state == [page[b] EXCEPT !.filling = TRUE]
  <1>1. /\ Set(b, state) /\ page[b].screen = "form" /\ ~Inflight(b)
        /\ UNCHANGED <<clock, revisions, wire, shown, forms, calls>>
    BY DEF AskForField
  <1>2. page[b] \in PageStates /\ PageOK(revisions, page[b]) /\ WaitsOK(wire, page[b], b)
    BY ThePage
  <1>3. /\ state \in PageStates /\ state.screen = "form" /\ state.verb = page[b].verb
        /\ state.values = page[b].values /\ state.form = page[b].form /\ state.at = page[b].at
    BY <1>1, <1>2 DEF PageStates
  <1> HIDE DEF state
  <1>4. PageOK(revisions, state)
    BY <1>1, <1>2, <1>3 DEF PageOK, WithPreview, ON_INCIDENT
  <1>5. \A m \in wire : ~(m.awaited /\ m.browser = b)
    BY <1>1, <1>2 DEF WaitsOK, WithPreview, Inflight, Awaited
  <1>6. WaitsOK(wire, state, b)
    BY <1>5 DEF WaitsOK
  <1> QED BY <1>1, <1>3, <1>4, <1>6, PageMoves

LEMMA LandKeeps ==
    ASSUME Patient, PortalInv, NEW b \in Browsers, Land(b)
    PROVE  PortalInv'
  <1>1. PICK answered \in BOOLEAN :
          Set(b, [page[b] EXCEPT !.filling = FALSE,
                    !.values = IF answered THEN [@ EXCEPT !["summary"] = AgentText] ELSE @])
    BY DEF Land
  <1> DEFINE values_ == IF answered THEN [page[b].values EXCEPT !["summary"] = AgentText]
                        ELSE page[b].values
             state == [page[b] EXCEPT !.filling = FALSE, !.values = values_]
  <1>2. /\ Undisturbed(b) /\ page[b].filling /\ page[b].verb \in TOOL_FIELD
        /\ UNCHANGED <<clock, revisions, wire, shown, forms, calls>>
    BY DEF Land
  <1>3. page[b] \in PageStates /\ PageOK(revisions, page[b])
    BY ThePage
  <1>4. page[b].verb \in VERBS
    BY <1>2 DEF TOOL_FIELD, VERBS, command_fields
  <1>5. page[b].values \in [FieldsOf(page[b].verb) -> Typed]
    BY <1>3, <1>4, FieldNames DEF PageOK
  <1>6. values_ \in [FieldsOf(page[b].verb) -> Typed]
    BY <1>5 DEF Typed
  <1>7. values_ \in Filled
    BY <1>4, <1>6, FieldNames, FilledIs
  <1>8. Set(b, state)
    BY <1>1
  <1> HIDE DEF values_
  <1>9. /\ state \in PageStates /\ state.screen = page[b].screen /\ state.verb = page[b].verb
        /\ state.values = values_ /\ state.form = page[b].form /\ state.at = page[b].at
    BY <1>2, <1>3, <1>7 DEF PageStates
  <1> HIDE DEF state
  <1>10. PageOK(revisions, state)
    BY <1>2, <1>3, <1>6, <1>9 DEF PageOK, WithPreview
  <1>11. WaitsOK(wire, state, b)
    BY <1>2, NobodyWaits
  <1> QED BY <1>2, <1>8, <1>9, <1>10, <1>11, PageMoves

LEMMA ContinueKeeps ==
    ASSUME PortalInv, NEW b \in Browsers, Continue(b)
    PROVE  PortalInv'
  <1> DEFINE state == [page[b] EXCEPT !.screen = Go("preview", "continue")]
  <1>1. /\ Set(b, state) /\ page[b].screen = "preview" /\ ~page[b].preview.requires
        /\ UNCHANGED <<clock, revisions, wire, shown, forms, calls>>
    BY DEF Continue
  <1>2. page[b] \in PageStates /\ PageOK(revisions, page[b]) /\ WaitsOK(wire, page[b], b)
    BY ThePage
  <1>3. /\ state \in PageStates /\ state.screen = "confirm" /\ state.verb = page[b].verb
        /\ state.values = page[b].values /\ state.form = page[b].form /\ state.at = page[b].at
        /\ state.preview = page[b].preview /\ state.filling = page[b].filling
    BY <1>1, <1>2, Screens DEF PageStates, ON_INCIDENT
  <1> HIDE DEF state
  <1>4. Sent(state) = Sent(page[b])
    BY <1>3 DEF Sent
  <1>5. PageOK(revisions, state)
    BY <1>1, <1>2, <1>3, <1>4 DEF PageOK, WithPreview, ON_INCIDENT
  <1>6. WaitsOK(wire, state, b)
    BY <1>1, <1>2, <1>3, <1>4 DEF WaitsOK, WithPreview
  <1> QED BY <1>1, <1>3, <1>5, <1>6, PageMoves

LEMMA BackKeeps ==
    ASSUME Patient, PortalInv, NEW b \in Browsers, Back(b)
    PROVE  PortalInv'
  <1> DEFINE state == [page[b] EXCEPT !.screen = Go(page[b].screen, "back"), !.retry = FALSE]
  <1>1. /\ Set(b, state) /\ Undisturbed(b) /\ page[b].screen \in ON_INCIDENT
        /\ UNCHANGED <<clock, revisions, wire, shown, forms, calls>>
    BY DEF Back, Acting
  <1>2. page[b] \in PageStates /\ PageOK(revisions, page[b])
    BY ThePage
  <1>3. /\ Go(page[b].screen, "back") \in {"queue", "incident", "form", "preview"}
        /\ Go(page[b].screen, "back") = "form" => page[b].screen = "preview"
        /\ Go(page[b].screen, "back") = "preview" => page[b].screen = "confirm"
    BY <1>1, Screens DEF ON_INCIDENT
  <1>4. /\ state \in PageStates /\ state.screen = Go(page[b].screen, "back")
        /\ state.verb = page[b].verb
        /\ state.values = page[b].values /\ state.form = page[b].form /\ state.at = page[b].at
        /\ state.preview = page[b].preview /\ state.filling = page[b].filling
    BY <1>2, <1>3 DEF PageStates, ON_INCIDENT
  <1> HIDE DEF state
  <1>5. Sent(state) = Sent(page[b])
    BY <1>4 DEF Sent
  <1>6. PageOK(revisions, state)
    BY <1>1, <1>2, <1>3, <1>4, <1>5 DEF PageOK, WithPreview, ON_INCIDENT
  <1>7. WaitsOK(wire, state, b)
    BY <1>1, NobodyWaits
  <1> QED BY <1>1, <1>4, <1>6, <1>7, PageMoves

\* A request is sent: the page stays, and what was shown grows.
LEMMA Sends ==
    ASSUME PortalInv, NEW b \in Browsers, NEW m \in Messages, NEW seen \in SUBSET ShownSet,
           m.browser = b,
           \A s \in seen : s.form = page[b].form /\ s.form > 0 /\ s.record.at = page[b].at,
           wire' = wire \cup {m}, shown' = shown \cup seen, calls' \in Nat,
           page' = page, clock' = clock, revisions' = revisions, forms' = forms,
           MessageOK(revisions, shown', m), WaitsOK(wire', page[b], b)
    PROVE  PortalInv'
  <1>1. PortalTypeOK /\ FormsOK /\ MomentsOK
    BY DEF PortalInv
  <1>2. PortalTypeOK'
    BY <1>1 DEF PortalTypeOK, HEAD
  <1>3. \A c \in Browsers : page[c].form \in Nat /\ page[c].form <= forms
    BY <1>1 DEF PortalTypeOK, PageStates, FormsOK
  <1>4. FormsOK'
    <2>1. \A s \in shown' : s.form \in 1 .. forms'
      BY <1>1, <1>3 DEF FormsOK, PortalTypeOK
    <2> QED BY <1>1, <2>1 DEF FormsOK
  <1>5. MomentsOK'
    <2>1. \A s \in shown', c \in Browsers : page'[c].form = s.form => page'[c].at = s.record.at
      BY <1>1 DEF MomentsOK, FormsOK
    <2>2. \A s, t \in shown' : s.form = t.form => s.record.at = t.record.at
      BY <1>1, <2>1 DEF MomentsOK
    <2> QED BY <2>1, <2>2 DEF MomentsOK
  <1>6. \A c \in Browsers : PageOK(revisions', page'[c])
    BY DEF PortalInv
  <1>7. \A c \in Browsers : WaitsOK(wire', page'[c], c)
    <2> SUFFICES ASSUME NEW c \in Browsers \ {b} PROVE WaitsOK(wire', page[c], c)
      OBVIOUS
    <2>1. WaitsOK(wire, page[c], c)
      BY DEF PortalInv
    <2>2. \A k \in wire' : k.browser = c => k \in wire
      OBVIOUS
    <2> QED BY <2>1, <2>2 DEF WaitsOK
  <1>8. \A k \in wire' : MessageOK(revisions', shown', k)
    <2> SUFFICES ASSUME NEW k \in wire PROVE MessageOK(revisions, shown', k)
      OBVIOUS
    <2>1. MessageOK(revisions, shown, k) /\ shown \subseteq shown'
      BY DEF PortalInv
    <2>2. Len(revisions) \in Nat /\ Extends(revisions, revisions)
      BY ThePage DEF Extends
    <2> HIDE DEF MessageOK
    <2> QED BY <2>1, <2>2, MessageStays
  <1>9. LogOK(revisions', shown')
    <2>1. LogOK(revisions, shown) /\ shown \subseteq shown'
      BY DEF PortalInv
    <2> QED BY <2>1, LogStays
  <1> QED BY <1>2, <1>4, <1>5, <1>6, <1>7, <1>8, <1>9 DEF PortalInv

LEMMA WireFieldsAre ==
    ASSUME NEW b
    PROVE  WireFields(b) = Sent(page[b])
  BY DEF WireFields, Sent

LEMMA AskPreviewKeeps ==
    ASSUME Patient, PortalInv, NEW b \in Browsers, RequestPreview(b)
    PROVE  PortalInv'
  <1> DEFINE body == Body(page[b].verb, Sent(page[b]), Nothing, page[b].at)
             m == [browser |-> b, n |-> calls, kind |-> "preview", guarded |-> TRUE,
                   form |-> page[b].form, body |-> body, awaited |-> TRUE, answer |-> Nothing]
  <1>1. /\ page[b].screen = "form" /\ ~page[b].filling /\ ~Inflight(b)
        /\ wire' = wire \cup {m} /\ calls' = calls + 1
        /\ page' = page /\ clock' = clock /\ revisions' = revisions /\ shown' = shown /\ forms' = forms
    BY WireFieldsAre DEF RequestPreview, Send, PreviewBody
  <1>2. page[b] \in PageStates /\ PageOK(revisions, page[b]) /\ WaitsOK(wire, page[b], b)
        /\ calls \in Nat
    BY ThePage DEF PortalInv, PortalTypeOK
  <1>3. page[b].verb \in VERBS /\ page[b].values \in [FieldsOf(page[b].verb) -> Typed]
    BY <1>1, <1>2 DEF PageOK, PageStates
  <1>4. Sent(page[b]) \in Filled
    BY <1>3, SentIs
  <1>5. body \in Bodies /\ body.base = Nothing /\ body.verb = page[b].verb
        /\ body.fields = Sent(page[b]) /\ body.at = page[b].at
    BY <1>2, <1>3, <1>4 DEF Body, Bodies, PageStates, Moments
  <1> HIDE DEF body
  <1>6. /\ m \in Messages /\ m.browser = b /\ m.kind = "preview" /\ m.guarded /\ m.awaited
        /\ m.form = page[b].form /\ m.body = body /\ m.answer = Nothing
    BY <1>2, <1>5 DEF Messages, PageStates
  <1> HIDE DEF m
  <1>7. MessageOK(revisions, shown', m)
    BY <1>5, <1>6 DEF MessageOK, QuestionOK
  <1>8. \A k \in wire : ~(k.awaited /\ k.browser = b)
    BY <1>1, <1>2 DEF WaitsOK, WithPreview, Inflight, Awaited
  <1>9. WaitsOK(wire', page[b], b)
    BY <1>1, <1>5, <1>6, <1>8 DEF WaitsOK
  <1> DEFINE seen == {}
  <1>10. /\ seen \in SUBSET ShownSet /\ shown' = shown \cup seen /\ calls' \in Nat
         /\ \A s \in seen : s.form = page[b].form /\ s.form > 0 /\ s.record.at = page[b].at
    BY <1>1, <1>2
  <1> HIDE DEF seen
  <1> QED BY <1>1, <1>6, <1>7, <1>9, <1>10, Sends

\* An operator presses Publish under a preview.
LEMMA PressKeeps ==
    ASSUME PortalInv, NEW b \in Browsers, NEW guarded \in BOOLEAN,
           page[b].screen = "confirm", PublishFrom(b, guarded)
    PROVE  PortalInv'
  <1> DEFINE state == page[b]
             body == Body(state.verb, Sent(state), state.preview.base, state.preview.at)
             m == [browser |-> b, n |-> calls, kind |-> "commit", guarded |-> guarded,
                   form |-> state.form, body |-> body, awaited |-> TRUE, answer |-> Nothing]
             record == RecordOn(revisions[state.preview.base], state.verb, Sent(state), state.at)
  <1>1. /\ wire' = wire \cup {m} /\ calls' = calls + 1 /\ shown' = shown \cup {Reviewed(b)}
        /\ page' = page /\ clock' = clock /\ revisions' = revisions /\ forms' = forms
    BY WireFieldsAre DEF PublishFrom, Send, CommitBody
  <1>2. state \in PageStates /\ PageOK(revisions, state) /\ WaitsOK(wire, state, b)
        /\ calls \in Nat
    BY ThePage DEF PortalInv, PortalTypeOK
  <1>3. state.verb \in VERBS /\ state.values \in [FieldsOf(state.verb) -> Typed]
        /\ state.form \in Nat /\ state.form > 0 /\ ~state.preview.requires
    BY <1>2 DEF PageOK, PageStates, WithPreview, ON_INCIDENT
  <1>4. Sent(state) \in Filled
    BY <1>3, SentIs
  <1>5. Shows(revisions, state.preview, state.verb, Sent(state), state.at)
    BY <1>2 DEF PageOK, WithPreview
  <1>6. /\ state.preview.base \in 1 .. Len(revisions) /\ state.preview.base \in Nat
        /\ state.preview.at = state.at /\ state.at \in Nat
        /\ Buildable(revisions[state.preview.base], state.verb, Sent(state), state.at)
        /\ ~Unwritten(state.verb, Sent(state))
    BY <1>3, <1>5, ThePage DEF Shows
  <1>7. record \in Acts /\ record.at = state.at
    <2>1. record.at = state.at
      BY DEF RecordOn, Record
    <2>2. record \in Acts
      BY <1>4, <1>6, RecordIs
    <2> QED BY <2>1, <2>2
  <1>8. Reviewed(b) = [form |-> state.form, base |-> state.preview.base, record |-> record]
    BY <1>5 DEF Reviewed, Shows, RecordOn, Record
  <1>9. /\ body \in Bodies /\ body.base = state.preview.base /\ body.verb = state.verb
        /\ body.fields = Sent(state) /\ body.at = state.at
    <2>1. state.preview.base \in Moments /\ state.preview.at \in Moments
      BY <1>6 DEF Moments
    <2> QED BY <1>3, <1>4, <1>6, <2>1 DEF Body, Bodies
  <1> HIDE DEF body
  <1>10. /\ m \in Messages /\ m.browser = b /\ m.kind = "commit" /\ m.awaited
         /\ m.form = state.form /\ m.body = body /\ m.answer = Nothing
    BY <1>2, <1>3, <1>9 DEF Messages
  <1> HIDE DEF m, record
  <1>11. MessageOK(revisions, shown', m)
    <2>1. [form |-> m.form, base |-> m.body.base, record |-> record] \in shown'
      BY <1>1, <1>8, <1>9, <1>10
    <2>2. RecordOn(revisions[m.body.base], m.body.verb, m.body.fields, m.body.at) = record
      BY <1>9, <1>10 DEF record
    <2>3. Buildable(revisions[m.body.base], m.body.verb, m.body.fields, m.body.at)
          /\ ~Unwritten(m.body.verb, m.body.fields)
      BY <1>6, <1>9, <1>10
    <2> QED BY <1>6, <1>9, <1>10, <2>1, <2>2, <2>3 DEF MessageOK, CommitOK
  <1>12. WaitsOK(wire', state, b)
    BY <1>1, <1>2, <1>9, <1>10 DEF WaitsOK, WithPreview
  <1> DEFINE seen == {Reviewed(b)}
  <1>13. /\ seen \in SUBSET ShownSet
         /\ \A s \in seen : s.form = page[b].form /\ s.form > 0 /\ s.record.at = page[b].at
         /\ shown' = shown \cup seen /\ calls' \in Nat
    BY <1>1, <1>2, <1>3, <1>6, <1>7, <1>8 DEF ShownSet
  <1> HIDE DEF seen
  <1> QED BY <1>1, <1>10, <1>11, <1>12, <1>13, Sends

LEMMA ConfirmKeeps ==
    ASSUME PortalInv, NEW b \in Browsers, ConfirmGo(b)
    PROVE  PortalInv'
  <1>1. page[b].screen = "confirm" /\ PublishFrom(b, TRUE)
    BY DEF ConfirmGo
  <1> QED BY <1>1, PressKeeps

LEMMA RetryKeeps ==
    ASSUME Patient, PortalInv, NEW b \in Browsers, RetryAction(b)
    PROVE  PortalInv'
  <1>1. page[b].screen = "confirm" /\ PublishFrom(b, FALSE)
    BY DEF RetryAction
  <1> QED BY <1>1, PressKeeps

\* What a browser reads.
LEMMA ReadAnswer ==
    ASSUME PortalInv, NEW b \in Browsers, NEW m \in Awaited(b)
    PROVE  /\ m \in wire /\ m \in Messages /\ m.awaited /\ m.browser = b
           /\ m.form = page[b].form
           /\ m.body.verb = page[b].verb /\ m.body.fields = Sent(page[b])
           /\ m.body.at = page[b].at
           /\ m.answer # Nothing => m.answer \in Answers
           /\ m.kind = "commit" => page[b].screen \in WithPreview /\ CommitOK(revisions, shown, m)
           /\ m.kind # "commit" => QuestionOK(revisions, m) /\ m.kind \in {"preview", "repreview"}
           /\ m.kind = "repreview" => page[b].screen \in WithPreview
           /\ m.kind = "preview" => page[b].screen = "form" /\ ~page[b].filling /\ Awaited(b) = {m}
  <1>1. m \in wire /\ m.awaited /\ m.browser = b
    BY DEF Awaited
  <1>2. m \in Messages /\ MessageOK(revisions, shown, m) /\ WaitsOK(wire, page[b], b)
    BY <1>1, ThePage DEF PortalInv, PortalTypeOK
  <1>3. /\ m.form = page[b].form /\ m.body.verb = page[b].verb
        /\ m.body.fields = Sent(page[b]) /\ m.body.at = page[b].at
    BY <1>1, <1>2 DEF WaitsOK
  <1>4. m.kind \in {"preview", "repreview", "commit"} /\ m.answer \in Answers \cup {Nothing}
    BY <1>2 DEF Messages
  <1>5. \/ page[b].screen \in WithPreview /\ m.kind # "preview"
        \/ /\ page[b].screen = "form" /\ ~page[b].filling /\ m.kind = "preview"
           /\ \A other \in wire : other.awaited /\ other.browser = b => other = m
    BY <1>1, <1>2 DEF WaitsOK
  <1>6. m.kind = "preview" => Awaited(b) = {m}
    BY <1>1, <1>5 DEF Awaited
  <1> QED BY <1>1, <1>2, <1>3, <1>4, <1>5, <1>6 DEF MessageOK

\* The answer to a commit.
LEMMA SettleKeeps ==
    ASSUME PortalInv, NEW b \in Browsers, NEW m \in Awaited(b), m.answer # Nothing,
           m.kind = "commit",
           NEW state, state = Settle(b, m.answer)
    PROVE  /\ state \in PageStates /\ state.form = page[b].form /\ state.at = page[b].at
           /\ state.verb = page[b].verb /\ Sent(state) = Sent(page[b])
           /\ state.screen \in WithPreview /\ PageOK(revisions, state)
  <1> DEFINE answer == m.answer
             record == RecordOn(revisions[m.body.base], m.body.verb, m.body.fields, m.body.at)
  <1>1. page[b] \in PageStates /\ PageOK(revisions, page[b])
    BY ThePage
  <1>2. /\ answer.error \notin {"field", "confirmation_required"}
        /\ answer.error = "" => record \in revisions[Len(revisions)].records
        /\ page[b].screen \in WithPreview
    BY ReadAnswer DEF CommitOK
  <1>3. Shows(revisions, page[b].preview, page[b].verb, Sent(page[b]), page[b].at)
    BY <1>1, <1>2 DEF PageOK
  <1> DEFINE settled == [page[b] EXCEPT !.retry = answer.error = "lock_busy"]
  <1>4. /\ settled \in PageStates /\ settled.screen = page[b].screen /\ settled.form = page[b].form
        /\ settled.at = page[b].at /\ settled.verb = page[b].verb /\ settled.values = page[b].values
        /\ settled.preview = page[b].preview /\ settled.filling = page[b].filling
    <2>1. PICK x \in BOOLEAN : x = (answer.error = "lock_busy")
      <3>1. (answer.error = "lock_busy") \in BOOLEAN
        OBVIOUS
      <3> QED BY <3>1
    <2>2. settled = [page[b] EXCEPT !.retry = x]
      BY <2>1, Zenon
    <2> HIDE DEF settled
    <2> QED BY <1>1, <2>2 DEF PageStates
  <1> HIDE DEF settled
  <1>5. \/ answer.error = "" /\ state = [settled EXCEPT !.screen = Go(settled.screen, "published")]
        \/ /\ answer.error # ""
           /\ state = [settled EXCEPT !.preview.blocked = TRUE, !.screen = Go(settled.screen, "blocked")]
        \/ answer.error # "" /\ state = settled
    BY <1>2 DEF Settle, Event, settled
  <1>6. /\ Go(settled.screen, "published") \in WithPreview
        /\ Go(settled.screen, "blocked") \in WithPreview
        /\ Go(settled.screen, "published") \in {"confirm", "result"} =>
             page[b].screen \in {"confirm", "result"}
        /\ Go(settled.screen, "blocked") \in {"confirm", "result"} => page[b].screen = "result"
    BY <1>2, <1>4, Screens DEF WithPreview
  <1>7. /\ state \in PageStates /\ state.form = page[b].form /\ state.at = page[b].at
        /\ state.verb = page[b].verb /\ state.values = page[b].values /\ state.filling = page[b].filling
        /\ state.preview.base = page[b].preview.base /\ state.preview.at = page[b].preview.at
        /\ state.preview.verb = page[b].preview.verb /\ state.preview.fields = page[b].preview.fields
        /\ state.preview.after = page[b].preview.after
        /\ state.preview.requires = page[b].preview.requires
        /\ state.screen \in WithPreview
        /\ state.screen \in {"confirm", "result"} => page[b].screen \in {"confirm", "result"}
        /\ state.screen = "result" => page[b].screen = "result" \/ answer.error = ""
    <2>1. CASE answer.error = "" /\ state = [settled EXCEPT !.screen = Go(settled.screen, "published")]
      <3> DEFINE screen_ == Go(settled.screen, "published")
      <3>1. screen_ \in ON_INCIDENT
        BY <1>6 DEF ON_INCIDENT, WithPreview
      <3> QED BY <1>4, <1>6, <2>1, <3>1 DEF PageStates
    <2>2. CASE /\ answer.error # ""
               /\ state = [settled EXCEPT !.preview.blocked = TRUE, !.screen = Go(settled.screen, "blocked")]
      <3> DEFINE screen_ == Go(settled.screen, "blocked")
                 preview_ == [settled.preview EXCEPT !.blocked = TRUE]
      <3>1. screen_ \in ON_INCIDENT
        BY <1>6 DEF ON_INCIDENT, WithPreview
      <3>2. settled.preview \in Answers
        BY <1>4 DEF PageStates
      <3>3. /\ preview_ \in Answers /\ preview_.base = settled.preview.base
            /\ preview_.at = settled.preview.at /\ preview_.verb = settled.preview.verb
            /\ preview_.fields = settled.preview.fields /\ preview_.after = settled.preview.after
            /\ preview_.requires = settled.preview.requires
        BY <3>2 DEF Answers
      <3>4. state = [settled EXCEPT !.preview = preview_, !.screen = screen_]
        BY <2>2, <1>4 DEF PageStates
      <3> HIDE DEF preview_, screen_
      <3>5. /\ state \in PageStates /\ state.form = settled.form /\ state.at = settled.at
            /\ state.verb = settled.verb /\ state.values = settled.values
            /\ state.filling = settled.filling /\ state.preview = preview_ /\ state.screen = screen_
        BY <1>4, <3>1, <3>3, <3>4 DEF PageStates
      <3> QED BY <1>4, <1>6, <3>3, <3>5 DEF screen_
    <2>3. CASE answer.error # "" /\ state = settled
      BY <2>3, <1>2, <1>4
    <2> QED BY <1>5, <2>1, <2>2, <2>3
  <1>8. Sent(state) = Sent(page[b])
    BY <1>7 DEF Sent
  <1>9. Shows(revisions, state.preview, state.verb, Sent(state), state.at)
    BY <1>3, <1>7, <1>8 DEF Shows
  <1>10. OnHead(revisions, page[b]) => OnHead(revisions, state)
    BY <1>7 DEF OnHead
  <1>11. answer.error = "" => OnHead(revisions, state)
    <2>1. /\ record.verb = page[b].verb /\ record.text = Command(page[b].verb, Sent(page[b]))
          /\ record.at = page[b].at
      BY ReadAnswer DEF RecordOn, Record
    <2>2. /\ state.preview.verb = page[b].verb /\ state.preview.at = page[b].at
          /\ Command(page[b].verb, state.preview.fields) = Command(page[b].verb, Sent(page[b]))
      BY <1>7, <1>8, <1>9 DEF Shows
    <2> HIDE DEF record
    <2> QED BY <1>2, <2>1, <2>2 DEF OnHead
  <1>12. PageOK(revisions, state)
    BY <1>1, <1>2, <1>7, <1>9, <1>10, <1>11 DEF PageOK, WithPreview, ON_INCIDENT
  <1> QED BY <1>7, <1>8, <1>12

\* The answer to a question.
LEMMA PreviewedKeeps ==
    ASSUME PortalInv, NEW b \in Browsers, NEW m \in Awaited(b), m.answer # Nothing,
           m.kind # "commit",
           NEW state, state = Previewed(b, m.answer, m.kind)
    PROVE  /\ state \in PageStates /\ state.form = page[b].form
           /\ page[b].at # Nothing => state.at = page[b].at
           /\ state.verb = page[b].verb /\ Sent(state) = Sent(page[b])
           /\ m.kind = "repreview" => state.screen \in WithPreview /\ state.at = page[b].at
           /\ PageOK(revisions, state)
  <1> DEFINE answer == m.answer
  <1>1. page[b] \in PageStates /\ PageOK(revisions, page[b])
    BY ThePage
  <1>2. /\ answer \in Answers /\ m.kind \in {"preview", "repreview"}
        /\ m.kind = "repreview" => page[b].screen \in WithPreview /\ answer.error # "field"
        /\ m.kind = "preview" => page[b].screen = "form" /\ ~page[b].filling
        /\ answer.error = "" =>
             /\ Shows(revisions, answer, page[b].verb, Sent(page[b]), answer.at)
             /\ page[b].at # Nothing => answer.at = page[b].at
    <2>1. /\ QuestionOK(revisions, m) /\ answer \in Answers
          /\ m.kind \in {"preview", "repreview"}
          /\ m.body.verb = page[b].verb /\ m.body.fields = Sent(page[b]) /\ m.body.at = page[b].at
          /\ m.kind = "repreview" => page[b].screen \in WithPreview
          /\ m.kind = "preview" => page[b].screen = "form" /\ ~page[b].filling
      BY ReadAnswer
    <2> QED BY <2>1 DEF QuestionOK
  <1>3. page[b].screen \in WithPreview =>
          /\ Shows(revisions, page[b].preview, page[b].verb, Sent(page[b]), page[b].at)
          /\ ~page[b].filling /\ page[b].at # Nothing
    BY <1>1, FieldNames DEF PageOK, Shows
  <1>4. CASE answer.error # ""
    <2>1. state = [page[b] EXCEPT !.retry = FALSE]
      BY <1>2, <1>4 DEF Previewed
    <2>2. /\ state \in PageStates /\ state.form = page[b].form /\ state.at = page[b].at
          /\ state.verb = page[b].verb /\ state.values = page[b].values
          /\ state.filling = page[b].filling /\ state.preview = page[b].preview
          /\ state.screen = page[b].screen
      BY <1>1, <2>1 DEF PageStates
    <2>3. Sent(state) = Sent(page[b])
      BY <2>2 DEF Sent
    <2>4. PageOK(revisions, state)
      BY <1>1, <2>2, <2>3 DEF PageOK, OnHead
    <2> QED BY <1>2, <2>2, <2>3, <2>4
  <1>5. CASE answer.error = ""
    <2> DEFINE screen_ == Go(page[b].screen, m.kind)
    <2>1. state = [page[b] EXCEPT !.preview = answer, !.at = answer.at, !.retry = FALSE,
                                  !.screen = screen_]
      BY <1>5 DEF Previewed
    <2>2. /\ screen_ \in WithPreview /\ screen_ # "confirm"
          /\ screen_ = "result" => page[b].screen = "result"
      BY <1>2, Screens DEF WithPreview
    <2>3. screen_ \in ON_INCIDENT /\ answer.at \in Moments
      BY <1>2, <2>2 DEF WithPreview, ON_INCIDENT, Answers
    <2> HIDE DEF screen_
    <2>4. /\ state \in PageStates /\ state.form = page[b].form /\ state.at = answer.at
          /\ state.verb = page[b].verb /\ state.values = page[b].values
          /\ state.filling = page[b].filling /\ state.preview = answer
          /\ state.screen = screen_
      BY <1>1, <1>2, <2>1, <2>3 DEF PageStates
    <2>5. Sent(state) = Sent(page[b])
      BY <2>4 DEF Sent
    <2>6. Shows(revisions, state.preview, state.verb, Sent(state), state.at)
      BY <1>2, <1>5, <2>4, <2>5
    <2>7. state.screen = "result" => OnHead(revisions, state) /\ ~state.preview.requires
      <3> SUFFICES ASSUME state.screen = "result"
                   PROVE  OnHead(revisions, state) /\ ~state.preview.requires
        OBVIOUS
      <3>1. page[b].screen = "result" /\ page[b].screen \in WithPreview
        BY <2>2, <2>4 DEF WithPreview
      <3>2. OnHead(revisions, page[b]) /\ ~page[b].preview.requires
        BY <1>1, <3>1 DEF PageOK
      <3>3. /\ page[b].preview.verb = page[b].verb /\ answer.verb = page[b].verb
            /\ answer.at = page[b].preview.at
            /\ Command(page[b].verb, answer.fields) = Command(page[b].verb, page[b].preview.fields)
            /\ answer.requires = page[b].preview.requires
        BY <1>2, <1>3, <1>5, <3>1 DEF Shows
      <3> QED BY <2>4, <3>2, <3>3 DEF OnHead
    <2>8. PageOK(revisions, state)
      BY <1>1, <1>2, <1>3, <2>2, <2>4, <2>6, <2>7 DEF PageOK, WithPreview, ON_INCIDENT
    <2> QED BY <1>2, <1>3, <1>5, <2>2, <2>4, <2>5, <2>8
  <1> QED BY <1>4, <1>5

LEMMA ReadKeeps ==
    ASSUME PortalInv, NEW b \in Browsers, Read(b)
    PROVE  PortalInv'
  <1>1. PICK m \in Awaited(b) :
        /\ m.answer # Nothing
        /\ IF m.kind = "commit"
           THEN /\ Set(b, Settle(b, m.answer))
                /\ IF Event(m.answer.error) = "repreview" /\ calls < MaxCalls
                      /\ page[b].verb # Nothing
                   THEN /\ calls' = calls + 1
                        /\ wire' = (wire \ {m}) \cup
                               {[m EXCEPT !.n = calls, !.kind = "repreview", !.answer = Nothing,
                                          !.form = page[b].form, !.body = PreviewBody(b)]}
                   ELSE wire' = wire \ {m} /\ calls' = calls
           ELSE /\ Set(b, Previewed(b, m.answer, m.kind))
                /\ wire' = wire \ {m} /\ calls' = calls
        /\ UNCHANGED <<clock, revisions, shown, forms, elsewhere, mishaps>>
    BY DEF Read
  <1>2. clock' = clock /\ revisions' = revisions /\ shown' = shown /\ forms' = forms
    BY <1>1
  <1>3. /\ page[b] \in PageStates /\ PageOK(revisions, page[b]) /\ WaitsOK(wire, page[b], b)
        /\ calls \in Nat /\ forms \in Nat /\ wire \subseteq Messages
    BY ThePage DEF PortalInv, PortalTypeOK
  <1>4. m \in wire /\ m \in Messages /\ m.awaited /\ m.browser = b
    BY ReadAnswer
  <1>5. CASE m.kind = "commit"
    <2> DEFINE state == Settle(b, m.answer)
    <2>1. /\ state \in PageStates /\ state.form = page[b].form /\ state.at = page[b].at
          /\ state.verb = page[b].verb /\ Sent(state) = Sent(page[b])
          /\ state.screen \in WithPreview /\ PageOK(revisions, state)
      BY <1>1, <1>5, SettleKeeps
    <2>2. page' = [page EXCEPT ![b] = state]
      BY <1>1, <1>5 DEF Set
    <2> HIDE DEF state
    <2>3. page[b].screen \in WithPreview
      BY <1>5, ReadAnswer
    <2>4. /\ \A k \in wire' : \/ k \in wire
                              \/ /\ k.browser = b /\ MessageOK(revisions, shown, k) /\ k \in Messages
                                 /\ k.form = state.form /\ k.body.verb = state.verb
                                 /\ k.body.fields = Sent(state) /\ k.body.at = state.at
                                 /\ k.kind = "repreview"
          /\ calls' \in Nat
      <3>1. CASE wire' = wire \ {m} /\ calls' = calls
        BY <1>3, <3>1
      <3>2. CASE /\ page[b].verb # Nothing /\ calls' = calls + 1
                 /\ wire' = (wire \ {m}) \cup
                       {[m EXCEPT !.n = calls, !.kind = "repreview", !.answer = Nothing,
                                  !.form = page[b].form, !.body = PreviewBody(b)]}
        <4> DEFINE body == PreviewBody(b)
                   k == [m EXCEPT !.n = calls, !.kind = "repreview", !.answer = Nothing,
                                  !.form = page[b].form, !.body = body]
        <4>1. page[b].verb \in VERBS /\ Sent(page[b]) \in Filled
          <5>1. page[b].verb \in VERBS /\ page[b].values \in [FieldsOf(page[b].verb) -> Typed]
            BY <1>3, <3>2 DEF PageOK, PageStates
          <5> QED BY <5>1, SentIs
        <4>2. /\ body \in Bodies /\ body.base = Nothing /\ body.verb = page[b].verb
              /\ body.fields = Sent(page[b]) /\ body.at = page[b].at
          BY <1>3, <4>1, WireFieldsAre DEF PreviewBody, Body, Bodies, PageStates, Moments
        <4>3. Decodes(page[b].verb, Sent(page[b]))
          BY <1>3, <2>3 DEF PageOK, Shows, Buildable
        <4> HIDE DEF body
        <4>4. /\ k \in Messages /\ k.browser = b /\ k.form = page[b].form /\ k.body = body
              /\ k.kind = "repreview" /\ k.answer = Nothing
          BY <1>3, <1>4, <4>2 DEF Messages, PageStates
        <4>5. wire' = (wire \ {m}) \cup {k}
          BY <3>2 DEF body
        <4> HIDE DEF k
        <4>6. MessageOK(revisions, shown, k)
          BY <4>2, <4>3, <4>4 DEF MessageOK, QuestionOK
        <4> QED BY <1>3, <2>1, <3>2, <4>2, <4>4, <4>5, <4>6
      <3> QED BY <1>1, <1>5, <3>1, <3>2
    <2>5. WaitsOK(wire', state, b)
      BY <1>3, <2>1, <2>3, <2>4 DEF WaitsOK, WithPreview
    <2>6. /\ state.form <= forms
          /\ \A c \in Browsers \ {b} : page[c].form = state.form => state.form = 0
          /\ \A s \in shown : s.form = state.form => s.record.at = state.at
      BY <2>1, SameForm
    <2>7. MovesTo(b, state)
      BY <1>2, <1>3, <2>1, <2>2, <2>4, <2>5, <2>6 DEF MovesTo
    <2> QED BY <2>7, BrowserMoves
  <1>6. CASE m.kind # "commit"
    <2> DEFINE state == Previewed(b, m.answer, m.kind)
    <2>1. /\ state \in PageStates /\ state.form = page[b].form
          /\ page[b].at # Nothing => state.at = page[b].at
          /\ state.verb = page[b].verb /\ Sent(state) = Sent(page[b])
          /\ m.kind = "repreview" => state.screen \in WithPreview /\ state.at = page[b].at
          /\ PageOK(revisions, state)
      BY <1>1, <1>6, PreviewedKeeps
    <2>2. /\ page' = [page EXCEPT ![b] = state] /\ wire' = wire \ {m} /\ calls' = calls
      BY <1>1, <1>6 DEF Set
    <2> HIDE DEF state
    <2>3. WaitsOK(wire', state, b)
      <3>1. CASE m.kind = "preview"
        <4>1. \A k \in wire' : ~(k.awaited /\ k.browser = b)
          BY <2>2, <3>1, ReadAnswer DEF Awaited
        <4> QED BY <4>1 DEF WaitsOK
      <3>2. CASE m.kind = "repreview"
        <4>1. page[b].screen \in WithPreview
          BY <3>2, ReadAnswer
        <4> QED BY <1>3, <2>1, <2>2, <3>2, <4>1 DEF WaitsOK, WithPreview
      <3> QED BY <1>6, <3>1, <3>2, ReadAnswer
    <2>4. /\ state.form <= forms
          /\ \A c \in Browsers \ {b} : page[c].form = state.form => state.form = 0
          /\ \A s \in shown : s.form = state.form => s.record.at = page[b].at
      <3> DEFINE same == [form |-> page[b].form, at |-> page[b].at]
      <3>1. same.form = page[b].form /\ same.at = page[b].at
        OBVIOUS
      <3> HIDE DEF same
      <3> QED BY <2>1, <3>1, SameForm
    <2>5. \A s \in shown : s.form = state.form => s.record.at = state.at
      <3>1. \A s \in shown : s.record.at \in Nat
        BY DEF PortalInv, PortalTypeOK, ShownSet, Acts
      <3> QED BY <2>1, <2>4, <3>1, FieldNames
    <2>6. wire' \subseteq Messages /\ \A k \in wire' : k \in wire
      BY <1>3, <2>2
    <2>7. MovesTo(b, state)
      BY <1>2, <1>3, <2>1, <2>2, <2>3, <2>4, <2>5, <2>6 DEF MovesTo
    <2> QED BY <2>7, BrowserMoves
  <1> QED BY <1>5, <1>6

LEMMA LoseKeeps ==
    ASSUME PortalInv, NEW b \in Browsers, Lose(b)
    PROVE  PortalInv'
  <1>1. PICK m \in Awaited(b), arrives \in BOOLEAN :
        /\ wire' = (wire \ {m}) \cup
                   (IF arrives /\ m.answer = Nothing THEN {[m EXCEPT !.awaited = FALSE]} ELSE {})
        /\ Set(b, [page[b] EXCEPT !.retry = FALSE])
        /\ UNCHANGED <<clock, revisions, shown, forms, calls, elsewhere>>
    BY DEF Lose
  <1> DEFINE state == [page[b] EXCEPT !.retry = FALSE]
             k == [m EXCEPT !.awaited = FALSE]
  <1>2. page' = [page EXCEPT ![b] = state]
    BY <1>1 DEF Set
  <1>3. /\ page[b] \in PageStates /\ PageOK(revisions, page[b]) /\ WaitsOK(wire, page[b], b)
        /\ calls \in Nat /\ forms \in Nat /\ wire \subseteq Messages
    BY ThePage DEF PortalInv, PortalTypeOK
  <1>4. m \in wire /\ m \in Messages /\ m.awaited /\ m.browser = b
    BY ReadAnswer
  <1>5. /\ state \in PageStates /\ state.form = page[b].form /\ state.at = page[b].at
        /\ state.verb = page[b].verb /\ state.values = page[b].values
        /\ state.filling = page[b].filling /\ state.preview = page[b].preview
        /\ state.screen = page[b].screen
    BY <1>3 DEF PageStates
  <1> HIDE DEF state
  <1>6. Sent(state) = Sent(page[b])
    BY <1>5 DEF Sent
  <1>7. PageOK(revisions, state)
    BY <1>3, <1>5, <1>6 DEF PageOK, OnHead
  <1>8. /\ k \in Messages /\ ~k.awaited /\ k.browser = b /\ k.kind = m.kind /\ k.form = m.form
        /\ k.body = m.body /\ k.answer = m.answer
    BY <1>4 DEF Messages
  <1>9. wire' \subseteq (wire \ {m}) \cup {k}
    BY <1>1
  <1> HIDE DEF k
  <1>10. MessageOK(revisions, shown, k)
    <2>1. MessageOK(revisions, shown, m)
      BY <1>4 DEF PortalInv
    <2> QED BY <1>8, <2>1 DEF MessageOK, CommitOK, QuestionOK
  <1>11. WaitsOK(wire', state, b)
    BY <1>3, <1>5, <1>6, <1>8, <1>9 DEF WaitsOK
  <1>12. /\ state.form <= forms
         /\ \A c \in Browsers \ {b} : page[c].form = state.form => state.form = 0
         /\ \A s \in shown : s.form = state.form => s.record.at = state.at
    BY <1>5, SameForm
  <1>13. /\ wire' \subseteq Messages
         /\ \A j \in wire' : j \in wire \/ (j.browser = b /\ MessageOK(revisions, shown, j))
    BY <1>3, <1>8, <1>9, <1>10
  <1>14. MovesTo(b, state)
    BY <1>1, <1>2, <1>3, <1>5, <1>7, <1>11, <1>12, <1>13 DEF MovesTo
  <1> QED BY <1>14, BrowserMoves

-----------------------------------------------------------------------------
(* The server's steps, and everything else's.                              *)

\* The revisions grow, and nothing else moves.
LEMMA LogMoves ==
    ASSUME PortalInv, revisions' \in Seq(RevisionSet), Extends(revisions, revisions'),
           LogOK(revisions', shown), clock' \in Nat,
           wire' = wire, page' = page, shown' = shown, forms' = forms, calls' = calls
    PROVE  PortalInv'
  <1>1. PortalTypeOK /\ FormsOK /\ MomentsOK
    BY DEF PortalInv
  <1>2. Len(revisions) \in Nat /\ Len(revisions') \in Nat /\ Len(revisions') > 0
    BY <1>1 DEF PortalTypeOK, HEAD, Extends
  <1>3. PortalTypeOK'
    BY <1>1, <1>2 DEF PortalTypeOK, HEAD
  <1>4. FormsOK' /\ MomentsOK'
    BY <1>1 DEF FormsOK, MomentsOK
  <1>5. \A c \in Browsers : PageOK(revisions', page'[c]) /\ WaitsOK(wire', page'[c], c)
    <2> SUFFICES ASSUME NEW c \in Browsers
                 PROVE  PageOK(revisions', page[c]) /\ WaitsOK(wire, page[c], c)
      OBVIOUS
    <2>1. PageOK(revisions, page[c]) /\ WaitsOK(wire, page[c], c)
      BY DEF PortalInv
    <2> QED BY <1>2, <2>1, PageStays
  <1>6. \A m \in wire' : MessageOK(revisions', shown', m)
    <2> SUFFICES ASSUME NEW m \in wire PROVE MessageOK(revisions', shown, m)
      OBVIOUS
    <2>1. MessageOK(revisions, shown, m) /\ shown \subseteq shown
      BY DEF PortalInv
    <2> QED BY <1>2, <2>1, MessageStays
  <1> QED BY <1>3, <1>4, <1>5, <1>6 DEF PortalInv

\* A request is answered.
LEMMA AnswersKeep ==
    ASSUME PortalInv, NEW m \in wire, NEW answer \in Answers,
           revisions' \in Seq(RevisionSet), Extends(revisions, revisions'),
           LogOK(revisions', shown),
           wire' = (wire \ {m}) \cup (IF m.awaited THEN {[m EXCEPT !.answer = answer]} ELSE {}),
           MessageOK(revisions', shown, [m EXCEPT !.answer = answer]),
           clock' = clock, page' = page, shown' = shown, forms' = forms, calls' = calls
    PROVE  PortalInv'
  <1> DEFINE k == [m EXCEPT !.answer = answer]
  <1>1. PortalTypeOK /\ FormsOK /\ MomentsOK
    BY DEF PortalInv
  <1>2. Len(revisions) \in Nat /\ Len(revisions') \in Nat /\ Len(revisions') > 0
    BY <1>1 DEF PortalTypeOK, HEAD, Extends
  <1>3. m \in Messages
    BY <1>1 DEF PortalTypeOK
  <1>4. /\ k \in Messages /\ k.browser = m.browser /\ k.kind = m.kind /\ k.form = m.form
        /\ k.body = m.body /\ k.awaited = m.awaited /\ k.guarded = m.guarded
    BY <1>3 DEF Messages
  <1>5. wire' = (wire \ {m}) \cup (IF m.awaited THEN {k} ELSE {}) /\ MessageOK(revisions', shown, k)
    OBVIOUS
  <1> HIDE DEF k
  <1>6. PortalTypeOK'
    <2>1. wire' \subseteq Messages
      BY <1>1, <1>4, <1>5 DEF PortalTypeOK
    <2> QED BY <1>1, <1>2, <2>1 DEF PortalTypeOK, HEAD
  <1>7. FormsOK' /\ MomentsOK'
    BY <1>1 DEF FormsOK, MomentsOK
  <1>8. \A c \in Browsers : PageOK(revisions', page'[c])
    <2> SUFFICES ASSUME NEW c \in Browsers PROVE PageOK(revisions', page[c])
      OBVIOUS
    <2>1. PageOK(revisions, page[c])
      BY DEF PortalInv
    <2> QED BY <1>2, <2>1, PageStays
  <1>9. \A c \in Browsers : WaitsOK(wire', page'[c], c)
    <2> SUFFICES ASSUME NEW c \in Browsers PROVE WaitsOK(wire', page[c], c)
      OBVIOUS
    <2>1. WaitsOK(wire, page[c], c)
      BY DEF PortalInv
    <2>2. \A j \in wire' : j \in wire \ {m} \/ (j = k /\ m.awaited)
      BY <1>5
    <2> QED BY <1>4, <2>1, <2>2 DEF WaitsOK
  <1>10. \A j \in wire' : MessageOK(revisions', shown', j)
    <2> SUFFICES ASSUME NEW j \in wire \ {m} PROVE MessageOK(revisions', shown, j)
      BY <1>5
    <2>1. MessageOK(revisions, shown, j) /\ shown \subseteq shown
      BY DEF PortalInv
    <2> QED BY <1>2, <2>1, MessageStays
  <1> QED BY <1>6, <1>7, <1>8, <1>9, <1>10 DEF PortalInv

LEMMA SameLog ==
    ASSUME PortalInv
    PROVE  /\ revisions \in Seq(RevisionSet) /\ Extends(revisions, revisions)
           /\ LogOK(revisions, shown) /\ Len(revisions) \in Nat
  BY DEF PortalInv, PortalTypeOK, Extends

\* The revision a commit makes of what was shown.
LEMMA WritesOnce ==
    ASSUME PortalInv, NEW m \in wire, m.kind = "commit", m.body.base = HEAD,
           RecordOn(revisions[HEAD], m.body.verb, m.body.fields, m.body.at)
             \notin revisions[HEAD].records
    PROVE  LET next == Append(revisions, Written(m.form, m.body))
               record == RecordOn(revisions[HEAD], m.body.verb, m.body.fields, m.body.at)
           IN  /\ next \in Seq(RevisionSet) /\ Extends(revisions, next) /\ LogOK(next, shown)
               /\ record \in next[Len(next)].records
  <1> DEFINE record == RecordOn(revisions[HEAD], m.body.verb, m.body.fields, m.body.at)
             act == [form |-> m.form, base |-> HEAD, record |-> record]
             r == Written(m.form, m.body)
  <1>1. /\ revisions \in Seq(RevisionSet) /\ HEAD = Len(revisions) /\ HEAD \in Nat /\ HEAD > 0
        /\ shown \subseteq ShownSet /\ LogOK(revisions, shown) /\ MomentsOK
        /\ CommitOK(revisions, shown, m)
    BY ThePage DEF PortalInv, PortalTypeOK, HEAD, MessageOK
  <1>2. r = [status |-> record.after, records |-> revisions[HEAD].records \cup {record}, act |-> act]
    BY BuiltIs DEF Written
  <1>3. /\ act \in shown
        /\ Buildable(revisions[HEAD], m.body.verb, m.body.fields, m.body.at)
        /\ ~Unwritten(m.body.verb, m.body.fields)
    BY <1>1 DEF CommitOK
  <1>4. act \in ShownSet
    BY <1>1, <1>3
  <1>5. record \in Acts /\ act.record = record /\ act.form = m.form /\ act.base = HEAD
    BY <1>4 DEF ShownSet
  <1>6. /\ ~Collides(revisions[HEAD].records, record)
        /\ record.verb = m.body.verb /\ record.text = Command(m.body.verb, m.body.fields)
    BY <1>3 DEF Buildable, RecordOn, Record
  <1>7. Risky(record)
    BY <1>3, <1>6 DEF Risky, Unwritten
  <1> HIDE DEF record, act
  <1>8. revisions[HEAD] \in RevisionSet
    BY <1>1
  <1>9. /\ r \in RevisionSet /\ r.act = act
        /\ r.records = revisions[HEAD].records \cup {record}
    BY <1>2, <1>4, <1>5, <1>8 DEF RevisionSet, Acts
  <1> HIDE DEF r
  <1>10. \A n \in 1 .. Len(revisions) :
            revisions[n].act # Nothing => revisions[n].act.form # act.form
    <2> SUFFICES ASSUME NEW n \in 1 .. Len(revisions), revisions[n].act # Nothing,
                        revisions[n].act.form = act.form
                 PROVE  FALSE
      OBVIOUS
    <2> DEFINE done == revisions[n].act
    <2>1. done \in shown /\ done.record \in revisions[n].records
      BY <1>1 DEF LogOK
    <2>2. done.record.at = act.record.at
      BY <1>1, <1>3, <2>1 DEF MomentsOK
    <2>3. revisions[n].records \subseteq revisions[HEAD].records
      BY <1>1 DEF LogOK
    <2>4. done.record = record
      BY <1>5, <1>6, <2>1, <2>2, <2>3 DEF Collides
    <2>5. record \notin revisions[HEAD].records
      BY DEF record
    <2> QED BY <2>1, <2>3, <2>4, <2>5
  <1> DEFINE next == Append(revisions, r)
  <1>11. next \in Seq(RevisionSet) /\ Extends(revisions, next)
         /\ Len(next) = HEAD + 1 /\ next[HEAD + 1] = r
    BY <1>1, <1>9, AppendExtends
  <1>12. LogOK(next, shown)
    BY <1>1, <1>3, <1>5, <1>7, <1>9, <1>10, LogTakesAct
  <1> HIDE DEF next
  <1>13. record \in next[Len(next)].records
    BY <1>9, <1>11
  <1> QED BY <1>11, <1>12, <1>13 DEF next, r, record

LEMMA DispatchKeeps ==
    ASSUME PortalInv, NEW m \in wire, Dispatch(m)
    PROVE  PortalInv'
  <1>1. /\ m \in Messages /\ MessageOK(revisions, shown, m) /\ PortalTypeOK
        /\ revisions \in Seq(RevisionSet) /\ Extends(revisions, revisions)
        /\ LogOK(revisions, shown) /\ Len(revisions) \in Nat /\ Len(revisions) > 0
    BY SameLog DEF PortalInv, PortalTypeOK, HEAD
  <1>2. m.body \in Bodies /\ Malformed(m.body) = ""
    BY <1>1 DEF Messages, Bodies, Malformed
  <1>3. PICK weather \in Weather :
          LET answer == IF m.kind = "commit" THEN Commit(m.body, weather)
                        ELSE Preview(m.body, weather = "debt")
              writes == m.kind = "commit" /\ answer.error = "" /\ ~answer.nothing
          IN  /\ revisions' = IF ~writes THEN revisions
                              ELSE Append(revisions, Written(m.form, m.body))
              /\ wire' = (wire \ {m}) \cup
                         (IF m.awaited THEN {[m EXCEPT !.answer = answer]} ELSE {})
    BY <1>2, Zenon DEF Dispatch
  <1>4. clock' = clock /\ page' = page /\ shown' = shown /\ forms' = forms /\ calls' = calls
    BY DEF Dispatch
  <1>5. CASE m.kind = "commit"
    <2> DEFINE answer == Commit(m.body, weather)
               record == RecordOn(revisions[m.body.base], m.body.verb, m.body.fields, m.body.at)
               k == [m EXCEPT !.answer = answer]
    <2>1. CommitOK(revisions, shown, m)
      BY <1>1, <1>5 DEF MessageOK
    <2>2. /\ answer \in Answers /\ answer.error \notin {"field", "confirmation_required"}
          /\ answer.error = "" =>
               /\ m.body.base = HEAD
               /\ answer.nothing => record \in revisions[HEAD].records
               /\ ~answer.nothing => record \notin revisions[HEAD].records
      BY <1>1, <2>1, CommitAnswered
    <2>3. /\ revisions' = IF m.kind = "commit" /\ answer.error = "" /\ ~answer.nothing
                          THEN Append(revisions, Written(m.form, m.body)) ELSE revisions
          /\ wire' = (wire \ {m}) \cup (IF m.awaited THEN {k} ELSE {})
      BY <1>3, <1>5
    <2> HIDE DEF answer
    <2>4. k.kind = m.kind /\ k.form = m.form /\ k.body = m.body /\ k.answer = answer
      BY <1>1 DEF Messages
    <2>5. m.body.base \in 1 .. Len(revisions)
      BY <2>1 DEF CommitOK
    <2> DEFINE landed == record \in revisions'[Len(revisions')].records
    <2>6. /\ revisions' \in Seq(RevisionSet) /\ Extends(revisions, revisions')
          /\ LogOK(revisions', shown)
          /\ answer.error = "" => landed
      <3>1. CASE answer.error = "" /\ ~answer.nothing
        <4>1. revisions' = Append(revisions, Written(m.form, m.body))
          BY <1>5, <2>3, <3>1
        <4> QED BY <1>5, <2>2, <3>1, <4>1, WritesOnce
      <3>2. CASE ~(answer.error = "" /\ ~answer.nothing)
        <4>1. revisions' = revisions
          BY <2>3, <3>2
        <4> QED BY <1>1, <2>2, <3>2, <4>1 DEF HEAD
      <3> QED BY <3>1, <3>2
    <2> HIDE DEF k, landed
    <2>7. revisions'[m.body.base] = revisions[m.body.base] /\ m.body.base \in 1 .. Len(revisions')
      <3>1. revisions' \in Seq(RevisionSet) /\ Extends(revisions, revisions')
        BY <2>6
      <3>2. Len(revisions) \in Nat
        BY <1>1
      <3> QED BY <2>5, <3>1, <3>2, StillThere
    <2>8. MessageOK(revisions', shown, k)
      BY <1>5, <2>1, <2>2, <2>4, <2>6, <2>7 DEF MessageOK, CommitOK, landed
    <2> QED BY <1>4, <2>2, <2>3, <2>6, <2>8, AnswersKeep DEF k
  <1>6. CASE m.kind # "commit"
    <2> DEFINE answer == Preview(m.body, weather = "debt")
               k == [m EXCEPT !.answer = answer]
    <2>1. QuestionOK(revisions, m) /\ m.body.base = Nothing
      BY <1>1, <1>6 DEF MessageOK, QuestionOK
    <2>2. /\ answer \in Answers
          /\ answer.error = "" =>
               /\ Shows(revisions, answer, m.body.verb, m.body.fields, answer.at)
               /\ m.body.at # Nothing => answer.at = m.body.at
          /\ Decodes(m.body.verb, m.body.fields) => answer.error # "field"
      <3>1. PICK debt \in BOOLEAN : debt = (weather = "debt")
        <4>1. (weather = "debt") \in BOOLEAN
          OBVIOUS
        <4> QED BY <4>1
      <3>2. answer = Preview(m.body, debt)
        BY <3>1
      <3> HIDE DEF answer
      <3> QED BY <1>1, <1>2, <2>1, <3>2, QuestionAnswered
    <2>3. revisions' = revisions /\ wire' = (wire \ {m}) \cup (IF m.awaited THEN {k} ELSE {})
      BY <1>3, <1>6
    <2> HIDE DEF answer
    <2>4. k.kind = m.kind /\ k.form = m.form /\ k.body = m.body /\ k.answer = answer
      BY <1>1 DEF Messages
    <2> HIDE DEF k
    <2>5. MessageOK(revisions, shown, k)
      BY <1>6, <2>1, <2>2, <2>4 DEF MessageOK, QuestionOK
    <2>6. /\ revisions' \in Seq(RevisionSet) /\ Extends(revisions, revisions')
          /\ LogOK(revisions', shown) /\ MessageOK(revisions', shown, k)
      BY <1>1, <2>3, <2>5
    <2> QED BY <1>4, <2>2, <2>3, <2>6, AnswersKeep DEF k
  <1> QED BY <1>5, <1>6

\* No script that overreaches commits anything.
LEMMA ScriptsAreRefused ==
    ASSUME NEW body \in Scripts
    PROVE  Malformed(body) # "" \/ Commit(body, "fair").error # ""
  <1>1. Overreaches(body)
    BY WorkbenchAssumption
  <1>2. CASE body.keys # {}
    BY <1>2 DEF Malformed
  <1>3. CASE Nothing \in {body.base, body.at}
    BY <1>3 DEF Commit, ErrorJson, Answer
  <1>4. CASE body.verb = "resolve" /\ "residual_risk" \notin DOMAIN body.fields
    <2>1. Unwritten(body.verb, body.fields)
      BY <1>4, FieldNames DEF Unwritten, Command
    <2> QED BY <2>1 DEF Commit, ErrorJson, Answer
  <1> QED BY <1>1, <1>2, <1>3, <1>4 DEF Overreaches

LEMMA ScriptKeeps ==
    ASSUME PortalInv, ScriptPosts
    PROVE  PortalInv'
  <1>1. revisions' = revisions
    BY ScriptsAreRefused DEF ScriptPosts
  <1>2. wire' = wire /\ page' = page /\ shown' = shown /\ forms' = forms /\ calls' = calls
        /\ clock' = clock /\ clock \in Nat
    BY DEF ScriptPosts, PortalInv, PortalTypeOK
  <1> QED BY <1>1, <1>2, SameLog, LogMoves

LEMMA ElsewhereKeeps ==
    ASSUME PortalInv, Elsewhere
    PROVE  PortalInv'
  <1>1. PICK status \in {revisions[HEAD].status} \cup
                     {NextStatus(revisions[HEAD].status, v) :
                          v \in Verbs \cap Allowed(revisions[HEAD].status)} :
          revisions' = Append(revisions, [revisions[HEAD] EXCEPT !.status = status, !.act = Nothing])
    BY DEF Elsewhere
  <1> DEFINE r == [revisions[HEAD] EXCEPT !.status = status, !.act = Nothing]
  <1>2. /\ wire' = wire /\ page' = page /\ shown' = shown /\ forms' = forms /\ calls' = calls
        /\ clock' = clock /\ clock \in Nat
    BY DEF Elsewhere, PortalInv, PortalTypeOK
  <1>3. /\ revisions \in Seq(RevisionSet) /\ LogOK(revisions, shown)
        /\ HEAD = Len(revisions) /\ Len(revisions) > 0 /\ revisions[HEAD] \in RevisionSet
    BY SameLog, ThePage DEF HEAD, PortalInv, PortalTypeOK
  <1>4. status \in Statuses
    <2>1. \A v \in Allowed(revisions[HEAD].status) :
            NextStatus(revisions[HEAD].status, v) \in Statuses
      BY NextStatusIs DEF Allowed
    <2>2. revisions[HEAD].status \in Statuses
      BY <1>3 DEF RevisionSet
    <2> QED BY <2>1, <2>2
  <1>5. r \in RevisionSet /\ r.records = revisions[HEAD].records /\ r.act = Nothing
    BY <1>3, <1>4 DEF RevisionSet
  <1>6. revisions' = Append(revisions, r)
    BY <1>1
  <1> HIDE DEF r
  <1>7. revisions' \in Seq(RevisionSet) /\ Extends(revisions, revisions')
    BY <1>3, <1>5, <1>6, AppendExtends
  <1>8. LogOK(revisions', shown)
    BY <1>3, <1>5, <1>6, LogPasses
  <1> QED BY <1>2, <1>7, <1>8, LogMoves

LEMMA SecondKeeps ==
    ASSUME PortalInv, Second
    PROVE  PortalInv'
  <1>1. /\ wire' = wire /\ page' = page /\ shown' = shown /\ forms' = forms /\ calls' = calls
        /\ revisions' = revisions /\ clock' \in Nat
    BY DEF Second, PortalInv, PortalTypeOK
  <1> QED BY <1>1, SameLog, LogMoves

LEMMA PortalStarts ==
    ASSUME WorkbenchInit
    PROVE  PortalInv
  <1> USE DEF WorkbenchInit
  <1> DEFINE first == [status |-> "open", records |-> {}, act |-> Nothing]
  <1>1. first \in RevisionSet /\ first.act = Nothing
    BY DEF RevisionSet, Statuses
  <1> HIDE DEF first
  <1>2. revisions = <<first>>
    BY DEF first
  <1>3. /\ revisions \in Seq(RevisionSet) /\ Len(revisions) = 1 /\ revisions[1] = first
    BY <1>1, <1>2
  <1>4. NoPreview \in Answers /\ <<>> \in Filled
    <2>1. NoPreview \in Answers
      BY RefusalIs DEF NoPreview, Errors
    <2>2. <<>> = [f \in {} |-> Blank]
      OBVIOUS
    <2>3. [f \in {} |-> Blank] \in [{} -> Typed]
      OBVIOUS
    <2>4. <<>> \in Filled
      BY <2>2, <2>3, FilledIs
    <2> QED BY <2>1, <2>4
  <1>5. /\ Closed \in PageStates /\ Closed.screen = "queue" /\ Closed.form = 0
        /\ Closed.verb = Nothing
    BY <1>4 DEF Closed, NAV, PageStates, Moments
  <1> HIDE DEF Closed
  <1>6. page \in [Browsers -> PageStates] /\ \A b \in Browsers : page[b] = Closed
    BY <1>5
  <1>7. PortalTypeOK
    BY <1>3, <1>6 DEF PortalTypeOK, HEAD
  <1>8. FormsOK /\ MomentsOK
    BY <1>5, <1>6 DEF FormsOK, MomentsOK
  <1>9. \A b \in Browsers : PageOK(revisions, page[b]) /\ WaitsOK(wire, page[b], b)
    BY <1>5, <1>6 DEF PageOK, WaitsOK, ON_INCIDENT, WithPreview
  <1>10. LogOK(revisions, shown)
    BY <1>1, <1>3 DEF LogOK
  <1> QED BY <1>7, <1>8, <1>9, <1>10 DEF PortalInv

\* What the page, the server and everything else do keeps the invariant.
LEMMA PortalSteps ==
    ASSUME Patient, PortalInv, [WorkbenchNext]_publishing
    PROVE  PortalInv'
  <1>1. CASE UNCHANGED publishing
    <2>1. /\ wire' = wire /\ page' = page /\ shown' = shown /\ forms' = forms /\ calls' = calls
          /\ revisions' = revisions /\ clock' = clock /\ clock \in Nat
      BY <1>1 DEF publishing, PortalInv, PortalTypeOK
    <2> QED BY <2>1, SameLog, LogMoves
  <1>2. CASE \E b \in Browsers : Browse(b)
    <2>1. PICK b \in Browsers : Browse(b)
      BY <1>2
    <2>2. CASE OpenIncident(b) \/ PickVerb(b) \/ OnFormInput(b) \/ AskForField(b) \/ Land(b)
      BY <2>2, OpenKeeps, PickKeeps, TypeInKeeps, AskKeeps, LandKeeps
    <2>3. CASE RequestPreview(b) \/ Continue(b) \/ ConfirmGo(b) \/ RetryAction(b)
      BY <2>3, AskPreviewKeeps, ContinueKeeps, ConfirmKeeps, RetryKeeps
    <2>4. CASE Back(b) \/ Read(b) \/ Lose(b)
      BY <2>4, BackKeeps, ReadKeeps, LoseKeeps
    <2> QED BY <2>1, <2>2, <2>3, <2>4 DEF Browse
  <1>3. CASE \E m \in wire : Dispatch(m)
    BY <1>3, DispatchKeeps
  <1>4. CASE ScriptPosts
    BY <1>4, ScriptKeeps
  <1>5. CASE Elsewhere
    BY <1>5, ElsewhereKeeps
  <1>6. CASE Second
    BY <1>6, SecondKeeps
  <1> QED BY <1>1, <1>2, <1>3, <1>4, <1>5, <1>6 DEF WorkbenchNext

LEMMA PortalSays ==
    ASSUME PortalInv
    PROVE  WhatLandsWasReviewed
  <1>1. LogOK(revisions, shown) /\ HEAD = Len(revisions)
    BY DEF PortalInv, HEAD
  <1>2. PublishedIsPreviewed /\ OnItsBase /\ OneRecordPerForm
    BY <1>1 DEF PublishedIsPreviewed, OnItsBase, OneRecordPerForm, ActsDone, LogOK
  <1>3. RiskIsWritten
    BY <1>1 DEF RiskIsWritten, ActsDone, LogOK, Risky
  <1>4. ResultIsOnHead
    <2> SUFFICES ASSUME NEW b \in Browsers, page[b].screen = "result"
                 PROVE  OnHead(revisions, page[b])
      BY <1>1 DEF ResultIsOnHead, OnHead, Reviewed
    <2> QED BY ThePage DEF PageOK
  <1> QED BY <1>2, <1>3, <1>4 DEF WhatLandsWasReviewed

\* What operators who wait for their answers publish from the portal is what
\* the preview they pressed Publish under showed, directly on the revision it
\* was built on, once for a form, with the remaining risk of a resolution
\* written down; and a page that says "published" shows an act on HEAD
\* (portal/workbench.html, portal/api.py, portal/wire.py).
THEOREM WhatLandsWasReviewedHolds ==
    ASSUME Patient
    PROVE  WorkbenchSpec => []WhatLandsWasReviewed
  <1>1. WorkbenchInit => PortalInv
    BY PortalStarts
  <1>2. PortalInv /\ [WorkbenchNext]_publishing => PortalInv'
    BY PortalSteps
  <1>3. PortalInv => WhatLandsWasReviewed
    BY PortalSays
  <1> QED BY <1>1, <1>2, <1>3, PTL DEF WorkbenchSpec

(***************************************************************************)
(* The result contract.                                                    *)
(***************************************************************************)

\* The fields of a request, a result and a page.
ARequest(q) == [kind |-> q.kind, key |-> q.key, known |-> q.known, at |-> q.at]
AResult(res) == [kind |-> res.kind, key |-> res.key, run |-> res.run,
                 body |-> res.body, checked |-> res.checked]
APage(held) == [refs |-> held.refs, notes |-> held.notes, run |-> held.run,
                researched |-> held.researched]

\* Runs are numbered as they are asked; a source is asked about by its slug.
AskedOK ==
    \E n \in Nat :
        /\ n <= MaxRequests /\ DOMAIN requests = 1 .. n
        /\ \A r \in 1 .. n :
             /\ requests[r] = ARequest(requests[r])
             /\ requests[r].kind \in {"research", "source-review"}
             /\ requests[r].kind = "source-review" => requests[r].key \in Slugs

\* What the researcher let through answers its request and fits it.
ResultFits(res) ==
    /\ res.run \in Asked
    /\ res.checked =>
         /\ res.kind = requests[res.run].kind /\ res.key = requests[res.run].key
         /\ ValidateResult(requests[res.run], res.body)
ResultsOK == \A res \in results : ResultFits(res)
FoldingOK == folding # NoResult => folding \in results

\* A page that a run wrote is what was asked about, and log.md has its line.
PagesTold ==
    \A c \in DOMAIN pages :
        /\ pages[c] = APage(pages[c])
        /\ pages[c].run # 0 =>
             /\ pages[c].run \in Asked /\ requests[pages[c].run].key = c
             /\ \E l \in lines : l.key = c /\ l.cites = pages[c].refs
                                 /\ l.day = pages[c].researched

CountedOnce ==
    /\ recorded \in [Runs -> {0, 1}]
    /\ \A res \in consumed :
         res.kind = "research" /\ CleanTelemetry(res.body) => recorded[res.run] = 1

ContractInv ==
    /\ AskedOK /\ ResultsOK /\ FoldingOK /\ PagesTold /\ CountedOnce

LEMMA ContractStarts ==
    ContractInit => ContractInv
  <1> SUFFICES ASSUME ContractInit PROVE ContractInv
    OBVIOUS
  <1>1. DOMAIN requests = 1 .. 0
    BY DEF ContractInit
  <1>2. AskedOK
    BY <1>1, ContractAssumption DEF AskedOK
  <1>3. ResultsOK /\ FoldingOK
    BY DEF ContractInit, ResultsOK, FoldingOK
  <1>4. PagesTold
    BY ContractAssumption DEF ContractInit, PagesTold, APage
  <1>5. CountedOnce
    BY DEF ContractInit, CountedOnce
  <1> QED BY <1>2, <1>3, <1>4, <1>5 DEF ContractInv

\* The next run's number is new, and within the bound.
LEMMA TheNextRun ==
    ASSUME AskedOK, Cardinality(Asked) < MaxRequests
    PROVE  \E n \in Nat : /\ Asked = 1 .. n /\ Cardinality(Asked) = n
                          /\ n + 1 <= MaxRequests
                          /\ Asked \cup {n + 1} = 1 .. (n + 1) /\ n + 1 \notin Asked
  <1>1. PICK n \in Nat : n <= MaxRequests /\ DOMAIN requests = 1 .. n
    BY DEF AskedOK
  <1>2. Cardinality(1 .. n) = n
    BY FS_Interval
  <1> QED BY <1>1, <1>2, ContractAssumption DEF Asked

\* A question more leaves the earlier ones and what hangs on them.
LEMMA QuestionKeeps ==
    ASSUME ContractInv, Cardinality(Asked) < MaxRequests,
           NEW q, q = ARequest(q), q.kind \in {"research", "source-review"},
           q.kind = "source-review" => q.key \in Slugs,
           requests' = With(requests, Cardinality(Asked) + 1, q),
           UNCHANGED <<pages, lines, results, folding, recorded, consumed>>
    PROVE  ContractInv'
  <1>1. PICK n \in Nat : /\ Asked = 1 .. n /\ Cardinality(Asked) = n
                         /\ n + 1 <= MaxRequests
                         /\ Asked \cup {n + 1} = 1 .. (n + 1) /\ n + 1 \notin Asked
    BY TheNextRun DEF ContractInv
  <1>2. /\ Asked' = 1 .. (n + 1)
        /\ requests'[n + 1] = q
        /\ \A r \in Asked : requests'[r] = requests[r] /\ r \in Asked'
    BY <1>1 DEF With, Asked
  <1>3. AskedOK'
    <2>1. \A r \in Asked : /\ requests[r] = ARequest(requests[r])
                           /\ requests[r].kind \in {"research", "source-review"}
                           /\ requests[r].kind = "source-review" => requests[r].key \in Slugs
      BY DEF ContractInv, AskedOK, Asked
    <2>2. \A r \in 1 .. (n + 1) : r \in Asked \/ r = n + 1
      BY <1>1
    <2>3. \A r \in 1 .. (n + 1) :
             /\ requests'[r] = ARequest(requests'[r])
             /\ requests'[r].kind \in {"research", "source-review"}
             /\ requests'[r].kind = "source-review" => requests'[r].key \in Slugs
      BY <1>2, <2>1, <2>2
    <2> QED BY <1>1, <1>2, <2>3 DEF AskedOK, Asked
  <1>4. ResultsOK'
    BY <1>2 DEF ContractInv, ResultsOK, ResultFits
  <1>5. PagesTold'
    BY <1>2 DEF ContractInv, PagesTold
  <1>6. FoldingOK' /\ CountedOnce'
    BY DEF ContractInv, FoldingOK, CountedOnce
  <1> QED BY <1>3, <1>4, <1>5, <1>6 DEF ContractInv

\* Whatever becomes of a request, it asks what it asked.
LEMMA AnswerKeeps ==
    ASSUME ContractInv, NEW n \in Asked, NEW mark,
           requests' \in {requests, [requests EXCEPT ![n].at = mark]}
    PROVE  /\ AskedOK' /\ Asked' = Asked
           /\ \A r \in Asked : /\ requests'[r].kind = requests[r].kind
                               /\ requests'[r].key = requests[r].key
                               /\ requests'[r].known = requests[r].known
  <1>1. PICK many \in Nat :
            /\ many <= MaxRequests /\ Asked = 1 .. many
            /\ \A r \in 1 .. many :
                 /\ requests[r] = ARequest(requests[r])
                 /\ requests[r].kind \in {"research", "source-review"}
                 /\ requests[r].kind = "source-review" => requests[r].key \in Slugs
    BY DEF ContractInv, AskedOK, Asked
  <1>2. Asked' = Asked
    BY DEF Asked
  <1>3. ASSUME NEW r \in Asked
        PROVE  /\ requests'[r].kind = requests[r].kind
               /\ requests'[r].key = requests[r].key
               /\ requests'[r].known = requests[r].known
               /\ requests'[r] = ARequest(requests'[r])
    <2>1. requests[r] = ARequest(requests[r])
      BY <1>1
    <2>2. requests'[r] = requests[r] \/ requests'[r] = [requests[r] EXCEPT !.at = mark]
      BY DEF Asked
    <2>3. CASE requests'[r] = [requests[r] EXCEPT !.at = mark]
      <3>1. requests'[r] = [kind |-> requests[r].kind, key |-> requests[r].key,
                            known |-> requests[r].known, at |-> mark]
        BY <2>1, <2>3 DEF ARequest
      <3> QED BY <3>1 DEF ARequest
    <2>4. CASE requests'[r] = requests[r]
      BY <2>1, <2>4
    <2> QED BY <2>2, <2>3, <2>4
  <1>4. AskedOK'
    BY <1>1, <1>2, <1>3 DEF AskedOK, Asked
  <1> QED BY <1>2, <1>3, <1>4

\* A result that comes in, checked or not.
LEMMA ArrivalKeeps ==
    ASSUME ContractInv, NEW n \in Asked,
           \E mark : requests' \in {requests, [requests EXCEPT ![n].at = mark]},
           results \subseteq results',
           \A res \in results' \ results : ResultFits(res),
           UNCHANGED <<pages, lines, folding, recorded, consumed>>
    PROVE  ContractInv'
  <1>1. /\ AskedOK' /\ Asked' = Asked
        /\ \A r \in Asked : /\ requests'[r].kind = requests[r].kind
                            /\ requests'[r].key = requests[r].key
                            /\ requests'[r].known = requests[r].known
    <2>1. PICK mark : requests' \in {requests, [requests EXCEPT ![n].at = mark]}
      OBVIOUS
    <2> QED BY <2>1, AnswerKeeps
  <1>2. ResultsOK'
    <2> SUFFICES ASSUME NEW res \in results' PROVE ResultFits(res)'
      BY DEF ResultsOK
    <2>1. ResultFits(res)
      BY DEF ContractInv, ResultsOK
    <2>2. res.run \in Asked
      BY <2>1 DEF ResultFits
    <2>3. ValidateResult(requests[res.run], res.body)
            => ValidateResult(requests'[res.run], res.body)
      BY <1>1, <2>2 DEF ValidateResult
    <2> QED BY <1>1, <2>1, <2>2, <2>3 DEF ResultFits
  <1>3. FoldingOK'
    BY DEF ContractInv, FoldingOK
  <1>4. PagesTold'
    BY <1>1 DEF ContractInv, PagesTold
  <1>5. CountedOnce'
    BY DEF ContractInv, CountedOnce
  <1> QED BY <1>1, <1>2, <1>3, <1>4, <1>5 DEF ContractInv

\* What is asked stays, and results only go, with the fold.
LEMMA RequestsStay ==
    ASSUME ContractInv, UNCHANGED requests, results' \subseteq results
    PROVE  AskedOK' /\ ResultsOK' /\ Asked' = Asked
  BY DEF ContractInv, AskedOK, ResultsOK, ResultFits, Asked, ValidateResult

LEMMA QuestionAsked ==
    ASSUME ContractInv, NEW c \in Codes, AskAbout(c)
    PROVE  ContractInv'
  <1> DEFINE q == [kind |-> "research", key |-> c, known |-> Approved, at |-> "out"]
  <1>1. q = ARequest(q) /\ q.kind = "research"
    BY DEF ARequest
  <1>2. requests' = With(requests, Cardinality(Asked) + 1, q)
    BY DEF AskAbout
  <1> HIDE DEF q
  <1> QED BY <1>1, <1>2, QuestionKeeps DEF AskAbout, Wiki, Books

LEMMA ReviewAskKeeps ==
    ASSUME ContractInv, NEW s \in Slugs, AskReview(s)
    PROVE  ContractInv'
  <1> DEFINE q == [kind |-> "source-review", key |-> s, known |-> {}, at |-> "out"]
  <1>1. q = ARequest(q) /\ q.kind = "source-review" /\ q.key \in Slugs
    BY DEF ARequest
  <1>2. requests' = With(requests, Cardinality(Asked) + 1, q)
    BY DEF AskReview
  <1> HIDE DEF q
  <1> QED BY <1>1, <1>2, QuestionKeeps DEF AskReview, Wiki, Books

LEMMA RunOneKeeps ==
    ASSUME ContractInv, NEW n \in Asked, NEW body, RunOne(n, body)
    PROVE  ContractInv'
  <1> DEFINE res == Result(requests[n].kind, requests[n].key, n, body, TRUE)
  <1>1. CASE ValidateResult(requests[n], body)
    <2>1. ResultFits(res)
      BY <1>1 DEF ResultFits, Result
    <2>2. results \subseteq results' /\ \A one \in results' \ results : ResultFits(one)
      BY <1>1, <2>1 DEF RunOne
    <2>3. \E mark : requests' \in {requests, [requests EXCEPT ![n].at = mark]}
      BY <1>1 DEF RunOne
    <2>4. UNCHANGED <<pages, lines, folding, recorded, consumed>>
      BY DEF RunOne, Wiki, Books
    <2> HIDE DEF res
    <2> QED BY ONLY ContractInv, n \in Asked, <2>2, <2>3, <2>4, ArrivalKeeps
  <1>2. CASE ~ValidateResult(requests[n], body)
    <2>1. results' = results /\ requests' \in {requests, [requests EXCEPT ![n].at = "failed"]}
      BY <1>2 DEF RunOne
    <2>2. UNCHANGED <<pages, lines, folding, recorded, consumed>>
      BY DEF RunOne, Wiki, Books
    <2>3. /\ \E mark : requests' \in {requests, [requests EXCEPT ![n].at = mark]}
          /\ results \subseteq results' /\ \A one \in results' \ results : ResultFits(one)
      BY <2>1
    <2> QED BY ONLY ContractInv, n \in Asked, <2>2, <2>3, ArrivalKeeps
  <1> QED BY <1>1, <1>2

LEMMA UncheckedKeeps ==
    ASSUME ContractInv, NEW n \in Asked, NEW c, NEW body, Unchecked(n, c, body)
    PROVE  ContractInv'
  <1> DEFINE res == Result("research", c, n, body, FALSE)
  <1>1. ResultFits(res)
    BY DEF ResultFits, Result
  <1>2. /\ results \subseteq results' /\ \A one \in results' \ results : ResultFits(one)
        /\ \E mark : requests' \in {requests, [requests EXCEPT ![n].at = mark]}
    BY <1>1 DEF Unchecked
  <1>3. UNCHANGED <<pages, lines, folding, recorded, consumed>>
    BY DEF Unchecked, Wiki, Books
  <1> HIDE DEF res
  <1> QED BY ONLY ContractInv, n \in Asked, <1>2, <1>3, ArrivalKeeps

LEMMA RejectKeeps ==
    ASSUME ContractInv, NEW res \in results, Reject(res)
    PROVE  ContractInv'
  <1>1. AskedOK' /\ ResultsOK' /\ Asked' = Asked
    BY RequestsStay DEF Reject
  <1>2. FoldingOK' /\ PagesTold' /\ CountedOnce'
    BY <1>1 DEF Reject, Wiki, Books, ContractInv, FoldingOK, PagesTold, CountedOnce
  <1> QED BY <1>1, <1>2 DEF ContractInv

LEMMA FoldKeeps ==
    ASSUME ContractInv, NEW res \in results, Fold(res)
    PROVE  ContractInv'
  <1>1. AskedOK' /\ ResultsOK' /\ Asked' = Asked /\ requests' = requests
    BY RequestsStay DEF Fold
  <1>2. FoldingOK' /\ CountedOnce'
    BY DEF Fold, Books, ContractInv, FoldingOK, CountedOnce
  <1>3. lines' = lines \cup {LogLine(res)}
    BY DEF Fold
  <1>4. CASE res.kind # "research"
    <2>1. pages' = pages
      BY <1>4 DEF Fold
    <2> QED BY <1>1, <1>2, <1>3, <2>1 DEF ContractInv, PagesTold
  <1>5. CASE res.kind = "research"
    <2>1. /\ res.key \in DOMAIN pages /\ requests[res.run].key = res.key
          /\ pages' = ApplyResearchResult(res)
      BY <1>5 DEF Fold, Lands, ValidateResearchResult
    <2>2. res.run \in Asked
      BY DEF ContractInv, ResultsOK, ResultFits
    <2>3. DOMAIN pages' = DOMAIN pages
      BY <2>1 DEF ApplyResearchResult
    <2>4. ASSUME NEW c \in DOMAIN pages, c # res.key PROVE pages'[c] = pages[c]
      BY <2>1, <2>4 DEF ApplyResearchResult
    <2>5. pages[res.key] = APage(pages[res.key])
      BY <2>1 DEF ContractInv, PagesTold
    <2>6. pages'[res.key] = [refs |-> res.body.refs, notes |-> pages[res.key].notes,
                             run |-> res.run, researched |-> today]
      BY <2>1, <2>5 DEF ApplyResearchResult, APage
    <2>7. LogLine(res).key = res.key /\ LogLine(res).cites = res.body.refs
          /\ LogLine(res).day = today
      BY <1>5 DEF LogLine
    <2>8. PagesTold'
      <3> SUFFICES ASSUME NEW c \in DOMAIN pages
                   PROVE  /\ pages'[c] = APage(pages'[c])
                          /\ pages'[c].run # 0 =>
                               /\ pages'[c].run \in Asked' /\ requests'[pages'[c].run].key = c
                               /\ \E l \in lines' : l.key = c /\ l.cites = pages'[c].refs
                                                    /\ l.day = pages'[c].researched
        BY <2>3 DEF PagesTold, APage
      <3>1. CASE c = res.key
        BY <1>1, <1>3, <2>1, <2>2, <2>6, <2>7, <3>1 DEF APage
      <3>2. CASE c # res.key
        BY <1>1, <1>3, <2>4, <3>2 DEF ContractInv, PagesTold
      <3> QED BY <3>1, <3>2
    <2> QED BY <1>1, <1>2, <2>8 DEF ContractInv
  <1> QED BY <1>4, <1>5

\* The result in the middle of its fold is of a run that was asked.
LEMMA FoldedRun ==
    ASSUME ContractInv, folding # NoResult
    PROVE  folding.run \in Runs
  <1>1. folding \in results /\ folding.run \in Asked
    BY DEF ContractInv, FoldingOK, ResultsOK, ResultFits
  <1> QED BY <1>1, ContractAssumption DEF ContractInv, AskedOK, Asked, Runs

LEMMA RecordKeeps ==
    ASSUME ContractInv, RecordTelemetry
    PROVE  ContractInv'
  <1>1. AskedOK' /\ ResultsOK' /\ Asked' = Asked
    BY RequestsStay DEF RecordTelemetry
  <1>2. folding.run \in Runs
    BY FoldedRun DEF RecordTelemetry
  <1>3. recorded' \in [Runs -> {0, 1}] /\ \A r \in Runs : recorded[r] = 1 => recorded'[r] = 1
    BY <1>2 DEF RecordTelemetry, ContractInv, CountedOnce
  <1>4. \A r : recorded[r] = 1 => recorded'[r] = 1
    BY <1>2 DEF RecordTelemetry, ContractInv, CountedOnce
  <1>5. CountedOnce'
    BY <1>3, <1>4 DEF RecordTelemetry, ContractInv, CountedOnce
  <1>6. FoldingOK' /\ PagesTold'
    BY <1>1 DEF RecordTelemetry, Wiki, ContractInv, FoldingOK, PagesTold
  <1> QED BY <1>1, <1>5, <1>6 DEF ContractInv

LEMMA ConsumeKeeps ==
    ASSUME ContractInv, Consume
    PROVE  ContractInv'
  <1>1. AskedOK' /\ ResultsOK' /\ Asked' = Asked
    BY RequestsStay DEF Consume
  <1>2. recorded[folding.run] \in {0, 1}
    BY FoldedRun DEF Consume, ContractInv, CountedOnce
  <1>3. folding.kind = "research" /\ CleanTelemetry(folding.body) => recorded[folding.run] = 1
    BY <1>2 DEF Consume
  <1>4. CountedOnce'
    BY <1>3 DEF Consume, ContractInv, CountedOnce
  <1>5. FoldingOK' /\ PagesTold'
    BY <1>1 DEF Consume, Wiki, ContractInv, FoldingOK, PagesTold
  <1> QED BY <1>1, <1>4, <1>5 DEF ContractInv

LEMMA EditKeeps ==
    ASSUME ContractInv, EditByHand
    PROVE  ContractInv'
  <1>1. AskedOK' /\ ResultsOK' /\ Asked' = Asked /\ requests' = requests /\ lines' = lines
    BY RequestsStay DEF EditByHand
  <1>2. FoldingOK' /\ CountedOnce'
    BY DEF EditByHand, Books, ContractInv, FoldingOK, CountedOnce
  <1>3. PagesTold'
    <2>1. /\ DOMAIN pages' \subseteq DOMAIN pages
          /\ \A c \in DOMAIN pages' : pages'[c] = pages[c]
      BY DEF EditByHand, Bar
    <2> QED BY <1>1, <2>1 DEF ContractInv, PagesTold
  <1> QED BY <1>1, <1>2, <1>3 DEF ContractInv

LEMMA OthersKeep ==
    ASSUME ContractInv, FoldKilled \/ NextDay \/ UNCHANGED offloading
    PROVE  ContractInv'
  <1>1. UNCHANGED <<pages, lines, requests, results, recorded, consumed>>
        /\ (folding' = folding \/ folding' = NoResult)
    BY DEF FoldKilled, NextDay, offloading, Wiki, Books
  <1>2. AskedOK' /\ ResultsOK' /\ Asked' = Asked
    BY <1>1, RequestsStay
  <1>3. FoldingOK' /\ PagesTold' /\ CountedOnce'
    BY <1>1, <1>2 DEF ContractInv, FoldingOK, PagesTold, CountedOnce
  <1> QED BY <1>2, <1>3 DEF ContractInv

LEMMA ContractSteps ==
    ASSUME ContractInv, [ContractNext]_offloading
    PROVE  ContractInv'
  <1>1. CASE \E c \in Codes : AskAbout(c)
    BY <1>1, QuestionAsked
  <1>2. CASE \E s \in Slugs : AskReview(s)
    BY <1>2, ReviewAskKeeps
  <1>3. CASE \E r \in Asked : \E body \in AnswersTo(r) : RunOne(r, body)
    BY <1>3, RunOneKeeps
  <1>4. CASE \E r \in Asked, c \in Codes : \E body \in AnswersTo(r) : Unchecked(r, c, body)
    BY <1>4, UncheckedKeeps
  <1>5. CASE \E res \in results : Reject(res) \/ Fold(res)
    BY <1>5, RejectKeeps, FoldKeeps
  <1>6. CASE RecordTelemetry \/ Consume \/ EditByHand
    BY <1>6, RecordKeeps, ConsumeKeeps, EditKeeps
  <1>7. CASE FoldKilled \/ NextDay \/ UNCHANGED offloading
    BY <1>7, OthersKeep
  <1> QED BY <1>1, <1>2, <1>3, <1>4, <1>5, <1>6, <1>7 DEF ContractNext

-----------------------------------------------------------------------------
(* The two contracts side by side.                                         *)

\* An answer about a page: every citation is of a source that is known on
\* both sides, so its host is one of an approved source.
LEMMA FindingsAgree ==
    ASSUME NEW res, res.kind = "research", Unmoved(res), requests[res.run].key = res.key,
           pages[res.key] = APage(pages[res.key]),
           FindingFits(res.body, Approved, {"date", "stamp"})
    PROVE  Lands(res) <=> ~Stamped(res.body, res.kind)
  <1> DEFINE entry == ApplyResearchResult(res)[res.key]
  <1>1. /\ res.key \in DOMAIN pages /\ res.run \in mapped
        /\ \A ref \in pages[res.key].notes : ref.host \in ApprovedDomains
    BY DEF Unmoved
  <1>2. entry = [refs |-> res.body.refs, notes |-> pages[res.key].notes,
                run |-> res.run, researched |-> today]
    BY <1>1 DEF ApplyResearchResult, APage
  <1>3. entry.refs = res.body.refs /\ entry.notes = pages[res.key].notes
    BY <1>2
  <1>4. \A ref \in res.body.refs :
            /\ ref.source \in Approved /\ ref.host \in DomainsOf[ref.source]
            /\ ref.accessed \in {"date", "stamp"}
    BY DEF FindingFits, CitationFits
  <1>5. \A ref \in res.body.refs : ref.host \in ApprovedDomains
    BY <1>4 DEF ApprovedDomains
  <1>6. ResearchProblems(entry) = {}
    BY <1>1, <1>3, <1>5 DEF ResearchProblems
  <1>7. CitationFindings(entry) = {}
    BY <1>3, <1>4, <1>5 DEF CitationFindings, Approved
  <1>8. Lands(res) <=> FindingFits(res.body, Approved, {"date"})
    BY <1>1, <1>6, <1>7 DEF Lands, ValidateResearchResult
  <1>9. FindingFits(res.body, Approved, {"date"})
          <=> \A ref \in res.body.refs : ref.accessed = "date"
    BY DEF FindingFits
  <1>10. Stamped(res.body, res.kind) <=> \E ref \in res.body.refs : ref.accessed = "stamp"
    BY DEF Stamped
  <1> QED BY <1>4, <1>8, <1>9, <1>10

LEMMA VerdictsAgree ==
    ASSUME NEW res, res.kind # "research", res.key \in Slugs,
           VerdictFits(res.body, {"date", "stamp"})
    PROVE  Lands(res) <=> ~Stamped(res.body, res.kind)
  BY DEF Lands, ValidateSourceReviewResult, VerdictFits, Stamped

LEMMA ContractSays ==
    ASSUME ContractInv
    PROVE  WhatComesBackLands
  <1>1. BothSidesAgree
    <2> SUFFICES ASSUME NEW res \in results, res.checked, Unmoved(res)
                 PROVE  Lands(res) <=> ~Stamped(res.body, res.kind)
      BY DEF BothSidesAgree
    <2>1. /\ res.run \in Asked
          /\ res.kind = requests[res.run].kind /\ res.key = requests[res.run].key
          /\ ValidateResult(requests[res.run], res.body)
      BY DEF ContractInv, ResultsOK, ResultFits
    <2>2. /\ res.kind \in {"research", "source-review"}
          /\ res.kind = "source-review" => res.key \in Slugs
      BY <2>1 DEF ContractInv, AskedOK, Asked
    <2>3. CASE res.kind = "research"
      <3>1. res.key \in DOMAIN pages /\ requests[res.run].known = Approved
        BY <2>3 DEF Unmoved
      <3>2. FindingFits(res.body, Approved, {"date", "stamp"})
        BY <2>1, <2>3, <3>1 DEF ValidateResult
      <3>3. pages[res.key] = APage(pages[res.key])
        BY <3>1 DEF ContractInv, PagesTold
      <3> QED BY <2>1, <2>3, <3>2, <3>3, FindingsAgree
    <2>4. CASE res.kind # "research"
      <3>1. VerdictFits(res.body, {"date", "stamp"})
        BY <2>1, <2>4 DEF ValidateResult
      <3> QED BY <2>2, <2>4, <3>1, VerdictsAgree
    <2> QED BY <2>3, <2>4
  <1> QED BY <1>1 DEF WhatComesBackLands, ContractInv, PagesTold, CountedOnce

\* What an offloaded question brings back: the two sides of the contract
\* agree on every answer the researcher let through while the wiki is as it
\* was, but for a date with a time; a page says only what was asked about
\* it, log.md has its line, and a folded run is counted once
\* (research_offload.py, dbwiki_researcher/cli.py, orchestrate._fold_exchange).
THEOREM WhatComesBackLandsHolds ==
    ContractSpec => []WhatComesBackLands
  <1>1. ContractInit => ContractInv
    BY ContractStarts
  <1>2. ContractInv /\ [ContractNext]_offloading => ContractInv'
    BY ContractSteps
  <1>3. ContractInv => WhatComesBackLands
    BY ContractSays
  <1> QED BY <1>1, <1>2, <1>3, PTL DEF ContractSpec
=============================================================================
