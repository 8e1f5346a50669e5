-------------------------- MODULE StageRailsProofs --------------------------
(***************************************************************************)
(* HEAD keeps its rails whatever agents write, for any number of retries,  *)
(* stages and files written beside the job, and with tools that escaped    *)
(* the kill of their agent and go on writing.                              *)
(*                                                                         *)
(* The verdict of Judge looks at the checkout for some questions and at    *)
(* the captured files for others, and a tool may write between the two, or *)
(* between the verdict and the commit.  What is published is sound all the *)
(* same: a tool writes once, what it writes is not what HEAD holds, and    *)
(* so either the files judged are the files captured, or the commit finds  *)
(* the tree dirty (JudgedOrDirty).                                         *)
(***************************************************************************)
EXTENDS StageRails, TLAPS

FileSet == [text : {"this", "that", "gone"}, status : {"none", "open", "resolved"},
            strange : BOOLEAN]
Trees == [Files -> FileSet]
Stages == {"ingest", "report", "lint", "research"}
Steps == {"idle", "agent", "ends", "look", "fallback", "capture", "judge", "publish", "failed"}

\* The variables have their types; a stage that runs has a name.
TypeOK ==
    /\ head \in Trees /\ tree \in Trees /\ snapshot \in Trees
    /\ status \in {"open", "resolved"}
    /\ pc \in Steps
    /\ pc # "idle" => stage \in Stages
    /\ escaped \in BOOLEAN
    /\ result.declared \subseteq Files
    /\ told.published \subseteq Files

\* What the verdict asks of the files that are published.
Sound(s, files) ==
    LET changed == ChangedIn(files)
    IN  /\ \A f \in changed \cap Shared : files[f].text # "gone"
        /\ \A f \in changed \ Shared : There(files[f]) \/ s = "lint"
        /\ changed \subseteq Shared \cup StageDirs(s)
        /\ "incident" \in changed =>
               There(files["incident"]) /\ files["incident"].status = head["incident"].status
        /\ s = "research" /\ "error" \in changed => ~files["error"].strange
        /\ s = "report" => There(files["report"])
        /\ s \in {"ingest", "report"} => "log.md" \in changed

\* Between the capture and the commit: a tool that may still write has not
\* written yet, and what one wrote is not what HEAD holds.
CapturedOrStray ==
    pc \in {"judge", "publish"} =>
        /\ escaped => tree = snapshot
        /\ \A f \in Files \ Machine : tree[f] = snapshot[f] \/ tree[f] # head[f]

\* What passed the verdict is sound, or the commit refuses it.
JudgedOrDirty == pc = "publish" => Sound(stage, snapshot) \/ TreeDirty

RailsInv == TypeOK /\ HeadKeepsItsRails /\ CapturedOrStray /\ JudgedOrDirty

-----------------------------------------------------------------------------

LEMMA WrittenFiles ==
    ASSUME NEW f \in Files, NEW file \in FileSet
    PROVE  /\ Other(file) \in FileSet
           /\ Written(f, file) \subseteq FileSet
  <1>1. Other(file) \in FileSet
    BY DEF Other, FileSet
  <1>2. Gone \in FileSet
    BY DEF Gone, FileSet
  <1>3. \A st \in {"open", "resolved"} : [file EXCEPT !.status = st] \in FileSet
    BY DEF FileSet
  <1>4. [Other(file) EXCEPT !.strange = TRUE] \in FileSet
    BY <1>1 DEF FileSet
  <1> QED BY <1>1, <1>2, <1>3, <1>4 DEF Written

LEMMA JobIsTree ==
    ASSUME NEW s, NEW t \in Trees
    PROVE  Job(s, t) \in Trees
  BY WrittenFiles DEF Job, Trees

\* The verdict, when the checkout holds what was captured.
LEMMA NoProblems ==
    ASSUME TypeOK, HeadKeepsItsRails, stage \in Stages,
           Problems(stage, result, snapshot) = {},
           \A f \in Files \ Machine : tree[f] = snapshot[f]
    PROVE  Sound(stage, snapshot)
  <1> DEFINE changed == ChangedIn(snapshot)
  <1>1. /\ ResultProblems(stage, result, changed) = {} /\ DeletionProblems(stage, changed) = {}
        /\ PathProblems(stage, changed) = {} /\ IncidentProblems(stage, changed, snapshot) = {}
        /\ ResearchProblems(stage) = {} /\ ReportProblems(stage) = {}
    BY DEF Problems
  <1>2. changed \subseteq Files \ Machine /\ Shared \subseteq Files \ Machine
        /\ "incident" \in Files \ Machine /\ "error" \in Files \ Machine
        /\ "report" \in Files \ Machine
    BY DEF ChangedIn, Files, Machine, Shared
  <1>3. \A f \in changed : tree[f] = snapshot[f] /\ tree[f] # head[f] /\ f \in Stray
    BY <1>2 DEF ChangedIn, Stray
  <1>4. \A f \in changed \cap Shared : snapshot[f].text # "gone"
    BY <1>1, <1>3 DEF DeletionProblems
  <1>5. \A f \in changed \ Shared : There(snapshot[f]) \/ stage = "lint"
    BY <1>1, <1>3 DEF DeletionProblems
  <1>6. changed \subseteq Shared \cup StageDirs(stage)
    BY <1>1 DEF PathProblems
  <1>7. ASSUME "incident" \in changed
        PROVE  /\ There(snapshot["incident"])
               /\ snapshot["incident"].status = head["incident"].status
    <2>1. stage # "research"
      BY <1>6, <1>7 DEF StageDirs, Shared
    <2>2. There(head["incident"])
      BY DEF HeadKeepsItsRails
    <2> QED BY <1>1, <1>7, <2>1, <2>2 DEF IncidentProblems
  <1>8. stage = "research" /\ "error" \in changed => ~snapshot["error"].strange
    BY <1>1, <1>3 DEF ResearchProblems
  <1>9. stage = "report" => There(snapshot["report"])
    BY <1>1, <1>2 DEF ReportProblems
  <1>10. stage \in {"ingest", "report"} => "log.md" \in changed
    BY <1>1 DEF ResultProblems
  <1> HIDE DEF changed
  <1> QED BY <1>4, <1>5, <1>6, <1>7, <1>8, <1>9, <1>10 DEF Sound, changed

\* A verdict without problems.
LEMMA JudgeKeeps ==
    ASSUME RailsInv, Judge
    PROVE  JudgedOrDirty'
  <1> SUFFICES ASSUME pc' = "publish", ~TreeDirty PROVE Sound(stage, snapshot)
    BY DEF JudgedOrDirty, Judge, TreeDirty, Sound, Stray, ChangedIn
  <1>1. Problems(stage, result, snapshot) = {} /\ pc = "judge" /\ stage \in Stages
    BY DEF Judge, RailsInv, TypeOK
  <1>2. \A f \in Files \ Machine : tree[f] = snapshot[f]
    BY <1>1 DEF RailsInv, CapturedOrStray, TreeDirty, Stray
  <1> QED BY <1>1, <1>2, NoProblems DEF RailsInv

\* What is sound and published keeps the rails.
LEMMA PublishKeeps ==
    ASSUME RailsInv, Publish
    PROVE  HeadKeepsItsRails'
  <1> DEFINE changed == ChangedIn(snapshot)
  <1>1. Sound(stage, snapshot) /\ stage \in Stages
    BY DEF RailsInv, JudgedOrDirty, Publish, TypeOK
  <1>2. /\ \A f \in Files : head'[f] = IF f \in changed THEN snapshot[f] ELSE head[f]
        /\ status' = status
        /\ told' = [stage |-> stage, ok |-> TRUE, published |-> changed]
    BY DEF Publish, Ends
  <1>3. HeadKeepsItsRails
    BY DEF RailsInv
  <1>4. /\ Shared \subseteq Files /\ "incident" \in Files \ Shared /\ "AGENTS.md" \in Files \ Shared
        /\ ".lint-exceptions" \in Files \ Shared /\ "source" \in Files \ Shared
        /\ "error" \in Files /\ "report" \in Files
    BY DEF Files, Shared
  <1>5. /\ "AGENTS.md" \notin StageDirs(stage) /\ ".lint-exceptions" \notin StageDirs(stage)
        /\ "source" \in StageDirs(stage) => stage = "research"
    BY <1>1 DEF StageDirs, Stages
  <1> HIDE DEF changed
  <1>6. /\ \A f \in changed \cap Shared : snapshot[f].text # "gone"
        /\ \A f \in changed \ Shared : There(snapshot[f]) \/ stage = "lint"
        /\ changed \subseteq Shared \cup StageDirs(stage)
        /\ "incident" \in changed =>
             There(snapshot["incident"]) /\ snapshot["incident"].status = head["incident"].status
        /\ stage = "research" /\ "error" \in changed => ~snapshot["error"].strange
        /\ stage = "report" => There(snapshot["report"])
        /\ stage \in {"ingest", "report"} => "log.md" \in changed
    BY <1>1 DEF Sound, changed
  <1>7. \A f \in Shared : head'[f].text \notin {"gone"}
    BY <1>2, <1>3, <1>4, <1>6 DEF HeadKeepsItsRails
  <1>8. There(head'["incident"]) /\ head'["incident"].status = status'
    BY <1>2, <1>3, <1>4, <1>6 DEF HeadKeepsItsRails
  <1>9. \A f \in {"AGENTS.md", ".lint-exceptions"} : head'[f].text = "this"
    BY <1>2, <1>3, <1>4, <1>5, <1>6 DEF HeadKeepsItsRails
  <1>10. There(head'["source"])
    BY <1>2, <1>3, <1>4, <1>5, <1>6 DEF HeadKeepsItsRails
  <1>11. stage = "research" /\ "error" \in changed => ~head'["error"].strange
    BY <1>2, <1>4, <1>6
  <1>12. stage = "report" => There(head'["report"])
    <2> SUFFICES ASSUME stage = "report" PROVE There(head'["report"])
      OBVIOUS
    <2>1. There(snapshot["report"])
      BY <1>6
    <2>2. CASE "report" \in changed
      BY <1>2, <1>4, <2>1, <2>2
    <2>3. CASE "report" \notin changed
      <3>1. "report" \in Files \ Machine
        BY DEF Files, Machine
      <3>2. snapshot["report"] = head["report"]
        BY <2>3, <3>1 DEF changed, ChangedIn
      <3> QED BY <1>2, <1>4, <2>1, <2>3, <3>2
    <2> QED BY <2>2, <2>3
  <1> QED BY <1>2, <1>6, <1>7, <1>8, <1>9, <1>10, <1>11, <1>12 DEF HeadKeepsItsRails, There

-----------------------------------------------------------------------------
(* One step at a time.                                                     *)

\* The start of a stage commits the digests, which no rail is about.
LEMMA BeginKeeps ==
    ASSUME RailsInv, NEW s \in Stages, Begin(s)
    PROVE  RailsInv'
  <1>1. TypeOK'
    <2>1. "digest" \in Files
      BY DEF Files
    <2> QED BY <2>1 DEF RailsInv, TypeOK, Begin, Trees, Steps, NoResult
  <1>2. \A f \in Files \ {"digest"} : head'[f] = head[f]
    BY DEF Begin, RailsInv, TypeOK, Trees
  <1>3. Shared \cup {"incident", "AGENTS.md", ".lint-exceptions", "source", "error", "report"}
           \subseteq Files \ {"digest"}
    BY DEF Shared, Files
  <1>4. HeadKeepsItsRails'
    BY <1>2, <1>3 DEF RailsInv, HeadKeepsItsRails, Begin, There
  <1>5. pc' \notin {"judge", "publish"}
    BY DEF Begin
  <1> QED BY <1>1, <1>4, <1>5 DEF RailsInv, CapturedOrStray, JudgedOrDirty

\* A step that leaves HEAD and what was told of it as they are keeps the rails.
LEMMA SameHeadKeeps ==
    ASSUME HeadKeepsItsRails, UNCHANGED <<head, status, told>>
    PROVE  HeadKeepsItsRails'
  BY DEF HeadKeepsItsRails, There

LEMMA AgentKeeps ==
    ASSUME RailsInv,
           \/ AgentWrites \/ AgentAnswers \/ AgentDies
           \/ \E invalid \in BOOLEAN : AgentOmits(invalid)
           \/ Look \/ Fallback
    PROVE  RailsInv'
  <1>1. HeadKeepsItsRails'
    BY SameHeadKeeps
       DEF RailsInv, AgentWrites, AgentAnswers, AgentDies, AgentOmits, Look, Fallback
  <1>2. pc' \in Steps \ {"judge", "publish"} /\ pc # "idle"
    BY DEF AgentWrites, AgentAnswers, AgentDies, AgentOmits, Look, Fallback, Steps
  <1>3. tree' \in Trees
    <2>1. CASE AgentWrites
      <3>1. PICK done \in BOOLEAN :
              LET t == IF done THEN Job(stage, tree) ELSE tree
              IN  \/ tree' = t
                  \/ \E f \in Files : \E file \in Written(f, t[f]) :
                       tree' = [t EXCEPT ![f] = file]
        BY <2>1 DEF AgentWrites
      <3> DEFINE t == IF done THEN Job(stage, tree) ELSE tree
      <3>2. t \in Trees
        BY JobIsTree DEF RailsInv, TypeOK
      <3>3. tree' = t \/ \E f \in Files : \E file \in Written(f, t[f]) :
                           tree' = [t EXCEPT ![f] = file]
        BY <3>1
      <3> HIDE DEF t
      <3>4. \A f \in Files : t[f] \in FileSet
        BY <3>2 DEF Trees
      <3> QED BY <3>2, <3>3, <3>4, WrittenFiles DEF Trees
    <2>2. CASE Fallback
      <3> DEFINE clean == [f \in Files |-> IF f \in Stray THEN head[f] ELSE tree[f]]
      <3>1. clean \in Trees
        BY DEF RailsInv, TypeOK, Trees
      <3>2. tree' = Job("report", clean)
        BY <2>2 DEF Fallback
      <3> HIDE DEF clean
      <3> QED BY <3>1, <3>2, JobIsTree
    <2>3. CASE ~AgentWrites /\ ~Fallback
      BY <2>3 DEF RailsInv, TypeOK, AgentAnswers, AgentDies, AgentOmits, Look
    <2> QED BY <2>1, <2>2, <2>3
  <1>4. result'.declared \subseteq Files
    <2>1. Stray \subseteq Files /\ {"digest", "report", "log.md"} \subseteq Files
      BY DEF Stray, Files, Shared
    <2>2. CASE AgentAnswers
      BY <2>1, <2>2 DEF AgentAnswers, Result
    <2>3. CASE Fallback
      BY <2>1, <2>3 DEF Fallback, Result
    <2>4. CASE \E invalid \in BOOLEAN : AgentOmits(invalid)
      BY <2>1, <2>4 DEF AgentOmits, Result, RailsInv, TypeOK
    <2>5. CASE AgentWrites \/ AgentDies \/ Look
      BY <2>5 DEF AgentWrites, AgentDies, Look, RailsInv, TypeOK
    <2> QED BY <2>2, <2>3, <2>4, <2>5
  <1>5. escaped' \in BOOLEAN
    BY DEF RailsInv, TypeOK, AgentWrites, AgentAnswers, AgentDies, AgentOmits, Look, Fallback
  <1>6. UNCHANGED <<head, status, stage, snapshot, told>>
    BY DEF AgentWrites, AgentAnswers, AgentDies, AgentOmits, Look, Fallback
  <1>7. TypeOK'
    BY <1>2, <1>3, <1>4, <1>5, <1>6 DEF RailsInv, TypeOK
  <1> QED BY <1>1, <1>2, <1>7 DEF RailsInv, CapturedOrStray, JudgedOrDirty

LEMMA CaptureKeeps ==
    ASSUME RailsInv, Capture
    PROVE  RailsInv'
  <1>1. HeadKeepsItsRails'
    BY SameHeadKeeps DEF RailsInv, Capture
  <1>2. TypeOK'
    BY DEF RailsInv, TypeOK, Capture, Steps
  <1>3. tree' = snapshot' /\ pc' = "judge"
    BY DEF Capture
  <1> QED BY <1>1, <1>2, <1>3 DEF RailsInv, CapturedOrStray, JudgedOrDirty

LEMMA VerdictKeeps ==
    ASSUME RailsInv, Judge
    PROVE  RailsInv'
  <1>1. HeadKeepsItsRails'
    BY SameHeadKeeps DEF RailsInv, Judge
  <1>2. TypeOK'
    BY DEF RailsInv, TypeOK, Judge, Steps
  <1>3. CapturedOrStray'
    BY DEF RailsInv, CapturedOrStray, Judge
  <1> QED BY <1>1, <1>2, <1>3, JudgeKeeps DEF RailsInv

\* A stage that ends, published or failed, captures nothing any more.
LEMMA EndKeeps ==
    ASSUME RailsInv, Publish \/ Fail
    PROVE  RailsInv'
  <1>1. TypeOK'
    <2>1. head' \in Trees /\ tree' \in Trees
      BY DEF Publish, Fail, RailsInv, TypeOK, Trees
    <2>2. ChangedIn(snapshot) \subseteq Files
      BY DEF ChangedIn
    <2> QED BY <2>1, <2>2 DEF Publish, Fail, Ends, NoResult, RailsInv, TypeOK, Steps
  <1>2. HeadKeepsItsRails'
    <2>1. CASE Publish
      BY <2>1, PublishKeeps
    <2>2. CASE Fail
      BY <2>2 DEF RailsInv, HeadKeepsItsRails, Fail, Ends, There
    <2> QED BY <2>1, <2>2
  <1>3. pc' = "idle"
    BY DEF Publish, Fail, Ends
  <1> QED BY <1>1, <1>2, <1>3 DEF RailsInv, CapturedOrStray, JudgedOrDirty

LEMMA RefusedKeeps ==
    ASSUME RailsInv, Refused
    PROVE  RailsInv'
  <1>1. HeadKeepsItsRails'
    BY SameHeadKeeps DEF RailsInv, Refused
  <1>2. TypeOK'
    BY DEF RailsInv, TypeOK, Refused, Steps
  <1> QED BY <1>1, <1>2 DEF RailsInv, CapturedOrStray, JudgedOrDirty, Refused

\* The tool that outlived its agent writes what HEAD does not hold, and so
\* the commit refuses the tree or nothing of the stage was touched.
LEMMA EscapedKeeps ==
    ASSUME RailsInv, EscapedWrites
    PROVE  RailsInv'
  <1>0. PICK f \in Files : \E file \in Written(f, tree[f]) \ {head[f]} :
          tree' = [tree EXCEPT ![f] = file]
    BY DEF EscapedWrites
  <1>1. PICK file \in Written(f, tree[f]) \ {head[f]} : tree' = [tree EXCEPT ![f] = file]
    BY <1>0
  <1>2. file \in FileSet /\ tree[f] \in FileSet
    BY WrittenFiles DEF RailsInv, TypeOK, Trees
  <1>3. UNCHANGED <<head, status, stage, snapshot, pc, result, told>> /\ escaped /\ escaped' = FALSE
    BY DEF EscapedWrites
  <1>4. TypeOK'
    <2>1. tree' \in Trees
      BY <1>1, <1>2 DEF RailsInv, TypeOK, Trees
    <2> QED BY <1>3, <2>1 DEF RailsInv, TypeOK
  <1>5. HeadKeepsItsRails'
    BY <1>3, SameHeadKeeps DEF RailsInv
  <1>6. \A g \in Files : tree'[g] = IF g = f THEN file ELSE tree[g]
    BY <1>1 DEF RailsInv, TypeOK, Trees
  <1>7. ASSUME pc' \in {"judge", "publish"}
        PROVE  /\ escaped' => tree' = snapshot'
               /\ \A g \in Files \ Machine : tree'[g] = snapshot'[g] \/ tree'[g] # head'[g]
    <2>1. tree = snapshot
      BY <1>3, <1>7 DEF RailsInv, CapturedOrStray
    <2> QED BY <1>1, <1>3, <1>6, <2>1
  <1>8. CapturedOrStray'
    BY <1>7 DEF CapturedOrStray
  <1>9. ASSUME pc' = "publish"
        PROVE  Sound(stage, snapshot)'
    <2>1. tree = snapshot
      BY <1>3, <1>9 DEF RailsInv, CapturedOrStray
    <2>2. ~TreeDirty
      BY <2>1 DEF TreeDirty, Stray
    <2>3. Sound(stage, snapshot)
      BY <1>3, <1>9, <2>2 DEF RailsInv, JudgedOrDirty
    <2> QED BY <1>3, <2>3 DEF Sound, ChangedIn
  <1> QED BY <1>4, <1>5, <1>8, <1>9 DEF RailsInv, JudgedOrDirty

LEMMA RestoredKeeps ==
    ASSUME RailsInv, Restored
    PROVE  RailsInv'
  <1>1. HeadKeepsItsRails'
    BY SameHeadKeeps DEF RailsInv, Restored
  <1>2. TypeOK'
    BY DEF RailsInv, TypeOK, Restored
  <1> QED BY <1>1, <1>2 DEF RailsInv, CapturedOrStray, JudgedOrDirty, Restored

\* The operator's status goes into the page and into the record of it at once.
LEMMA ActKeeps ==
    ASSUME RailsInv, Act
    PROVE  RailsInv'
  <1>1. "incident" \in Files
    BY DEF Files
  <1> DEFINE Resolved(file) == [file EXCEPT !.status = "resolved"]
  <1>2. /\ head' = [head EXCEPT !["incident"] = Resolved(head["incident"])]
        /\ tree' = [tree EXCEPT !["incident"] = Resolved(tree["incident"])]
    BY <1>1 DEF Act, RailsInv, TypeOK, Trees
  <1>3. \A file \in FileSet :
          /\ Resolved(file) \in FileSet
          /\ Resolved(file).status = "resolved"
          /\ Resolved(file).text = file.text
    BY DEF FileSet
  <1> HIDE DEF Resolved
  <1>4. head' \in Trees /\ tree' \in Trees
    BY <1>1, <1>2, <1>3 DEF RailsInv, TypeOK, Trees
  <1>5. \A f \in Files \ {"incident"} : head'[f] = head[f]
    BY <1>2 DEF RailsInv, TypeOK, Trees
  <1>6. head'["incident"].status = "resolved" /\ head'["incident"].text = head["incident"].text
    BY <1>1, <1>2, <1>3 DEF RailsInv, TypeOK, Trees
  <1>7. status' = "resolved" /\ UNCHANGED <<stage, pc, result, snapshot, escaped, told>>
        /\ pc = "idle"
    BY DEF Act
  <1>8. TypeOK'
    BY <1>4, <1>7 DEF RailsInv, TypeOK
  <1>9. Shared \cup {"AGENTS.md", ".lint-exceptions", "source", "error", "report"}
           \subseteq Files \ {"incident"}
    BY DEF Shared, Files
  <1>10. HeadKeepsItsRails'
    BY <1>5, <1>6, <1>7, <1>9 DEF RailsInv, HeadKeepsItsRails, There
  <1> QED BY <1>7, <1>8, <1>10 DEF RailsInv, CapturedOrStray, JudgedOrDirty

-----------------------------------------------------------------------------

LEMMA InitHolds == Init => RailsInv
  <1> SUFFICES ASSUME Init PROVE RailsInv
    OBVIOUS
  <1>1. head \in Trees /\ tree = head /\ snapshot = head
    BY DEF Init, Trees, FileSet, File, Gone
  <1>2. TypeOK
    BY <1>1 DEF Init, TypeOK, Steps, NoResult
  <1>3. /\ \A f \in Shared \cup {"AGENTS.md", ".lint-exceptions", "source"} :
             head[f] = File("this", "none", FALSE)
        /\ head["incident"] = File("this", "open", FALSE)
    BY DEF Init, Files, Shared
  <1>4. /\ \A f \in Shared \cup {"AGENTS.md", ".lint-exceptions", "source"} :
             head[f].text = "this"
        /\ head["incident"].text = "this" /\ head["incident"].status = "open"
    BY <1>3 DEF File
  <1>5. status = "open" /\ told.stage = "none"
    BY DEF Init
  <1>6. HeadKeepsItsRails
    BY <1>4, <1>5 DEF HeadKeepsItsRails, There
  <1> QED BY <1>2, <1>6 DEF Init, RailsInv, CapturedOrStray, JudgedOrDirty

LEMMA NextHolds == RailsInv /\ [Next]_vars => RailsInv'
  <1> SUFFICES ASSUME RailsInv, [Next]_vars PROVE RailsInv'
    OBVIOUS
  <1>1. CASE Ingest \/ Report \/ Lint \/ Research
    BY <1>1, BeginKeeps DEF Ingest, Report, Lint, Research, Stages
  <1>2. CASE \/ AgentWrites \/ AgentAnswers \/ AgentDies
             \/ AgentOmits(TRUE) \/ AgentOmits(FALSE)
             \/ Look \/ Fallback
    BY <1>2, AgentKeeps
  <1>3. CASE Capture
    BY <1>3, CaptureKeeps
  <1>4. CASE Judge
    BY <1>4, VerdictKeeps
  <1>5. CASE Publish \/ Fail
    BY <1>5, EndKeeps
  <1>6. CASE Refused
    BY <1>6, RefusedKeeps
  <1>7. CASE EscapedWrites
    BY <1>7, EscapedKeeps
  <1>8. CASE Restored
    BY <1>8, RestoredKeeps
  <1>9. CASE Act
    BY <1>9, ActKeeps
  <1>10. CASE UNCHANGED vars
    BY <1>10 DEF vars, RailsInv, TypeOK, HeadKeepsItsRails, There, CapturedOrStray, JudgedOrDirty,
                 Sound, ChangedIn, TreeDirty, Stray
  <1> QED BY <1>1, <1>2, <1>3, <1>4, <1>5, <1>6, <1>7, <1>8, <1>9, <1>10 DEF Next

\* The inductive invariant: the rails of HEAD, that a tool which may still
\* write has not touched what was captured, and that what passed the verdict
\* is sound or the tree is dirty for the commit.
THEOREM RailsHold == Spec => []RailsInv
  <1> QED BY InitHolds, NextHolds, PTL DEF Spec

\* Every variable keeps its type: no agent, answer or escaped write puts into
\* the checkout, the proposal or HEAD what is not a file of the wiki.
THEOREM TypeCorrect == Spec => []TypeOK
  <1>1. RailsInv => TypeOK
    BY DEF RailsInv
  <1> QED BY RailsHold, <1>1, PTL

\* Whatever the agents of the four stages write, answer, leave out or leave
\* running, HEAD keeps index.md, log.md, the status of the incident, the pages
\* of people, and the report it says it has (orchestrate.py _finish_stage).
THEOREM HeadIsRailed == Spec => []HeadKeepsItsRails
  <1>1. RailsInv => HeadKeepsItsRails
    BY DEF RailsInv
  <1> QED BY RailsHold, <1>1, PTL
=============================================================================
