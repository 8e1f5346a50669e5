--------------------------- MODULE ExchangeProofs ---------------------------
(***************************************************************************)
(* What Exchange promises of offloaded research, for any number of pages,  *)
(* requests, researchers, periods, failures and kills, and whatever Git    *)
(* makes of the merges it does not stop at: a fresh claim stands, a dead   *)
(* run counts once, no request is lost, and one request per page is out at *)
(* a time until both a round stopped half way and a Git command failed.    *)
(*                                                                         *)
(* As in QueueProofs, a rebase replays a log of commits, so the invariant  *)
(* speaks of logs: every commit of a clone is one that a claim, a reclaim, *)
(* an answer or a round makes of the commit before it (Change), whatever   *)
(* it was rebased over since.                                              *)
(***************************************************************************)
EXTENDS Exchange, FiniteSetTheorems, WellFoundedInduction, TLAPS

\* A set of naturals that has a member has a least one.
LEMMA LeastNatural ==
    ASSUME NEW S \in SUBSET Nat, S # {}
    PROVE  \E m \in S : \A k \in S : m <= k
  <1>1. \E m \in S : \A k \in S : ~ (<<k, m>> \in OpToRel(<, Nat))
    BY NatLessThanWellFounded, WFMin
  <1>2. PICK m \in S : \A k \in S : ~ (<<k, m>> \in OpToRel(<, Nat))
    BY <1>1
  <1>3. ASSUME NEW k \in S PROVE m <= k
    <2>1. ~ (k < m)
      BY <1>2 DEF OpToRel
    <2> QED BY <2>1
  <1> QED BY <1>3

\* Rebase is the recursive function its definition writes.
LEMMA RebaseIs ==
    ASSUME NEW log, NEW L \in Nat, DOMAIN log = 1 .. L, NEW upstream, NEW favor
    PROVE  /\ DOMAIN Rebase(log, upstream, favor) = 1 .. L
           /\ \A i \in 1 .. L : Rebase(log, upstream, favor)[i] =
                IF i = 1 THEN upstream
                ELSE MergeFiles(log[i - 1], Rebase(log, upstream, favor)[i - 1], log[i], favor)
  <1> DEFINE Next1(f, i) == IF i = 1 THEN upstream ELSE MergeFiles(log[i - 1], f[i - 1], log[i], favor)
             Good(n) == \E f : f = [i \in 1 .. n |-> Next1(f, i)]
  <1>1. Good(L)
    <2> SUFFICES ASSUME ~ Good(L) PROVE FALSE
      OBVIOUS
    <2> DEFINE Bad == {n \in Nat : ~ Good(n)}
    <2>1. Bad \in SUBSET Nat /\ Bad # {}
      OBVIOUS
    <2> HIDE DEF Bad
    <2>2. PICK m \in Bad : \A k \in Bad : m <= k
      BY <2>1, LeastNatural
    <2>3. m \in Nat /\ ~ Good(m)
      BY <2>2 DEF Bad
    <2>4. CASE m = 0
      <3> DEFINE e == [i \in 1 .. 0 |-> upstream]
      <3>1. e = [i \in 1 .. 0 |-> Next1(e, i)]
        OBVIOUS
      <3>2. Good(0)
        BY <3>1
      <3> HIDE DEF Good
      <3> QED BY <2>3, <2>4, <3>2
    <2>5. CASE m # 0
      <3>1. m - 1 \in Nat /\ m - 1 \notin Bad
        BY <2>2, <2>3, <2>5
      <3>2. Good(m - 1)
        BY <3>1 DEF Bad
      <3>3. PICK f : f = [i \in 1 .. (m - 1) |-> Next1(f, i)]
        BY <3>2
      <3> DEFINE g == [i \in 1 .. m |-> Next1(f, i)]
      <3>4. ASSUME NEW i \in 1 .. (m - 1) PROVE g[i] = f[i]
        <4>1. g[i] = Next1(f, i)
          BY <2>3
        <4>2. f[i] = Next1(f, i)
          BY <3>3
        <4> QED BY <4>1, <4>2
      <3>5. ASSUME NEW i \in 1 .. m PROVE Next1(g, i) = Next1(f, i)
        <4>1. CASE i = 1
          BY <4>1
        <4>2. CASE i # 1
          <5>1. i - 1 \in 1 .. (m - 1)
            BY <2>3, <4>2
          <5>2. g[i - 1] = f[i - 1]
            BY <3>4, <5>1
          <5> HIDE DEF g
          <5> QED BY <5>2
        <4> QED BY <4>1, <4>2
      <3>6. g = [i \in 1 .. m |-> Next1(g, i)]
        <4>1. g = [i \in 1 .. m |-> Next1(f, i)]
          OBVIOUS
        <4> HIDE DEF g, Next1
        <4> QED BY <3>5, <4>1
      <3>7. Good(m)
        <4> HIDE DEF g, Next1
        <4> QED BY <3>6
      <3> QED BY <2>3, <3>7
    <2> QED BY <2>4, <2>5
  <1> DEFINE new == CHOOSE f : f = [i \in 1 .. L |-> Next1(f, i)]
  <1>2. new = [i \in 1 .. L |-> Next1(new, i)]
    <2> HIDE DEF Next1
    <2> QED BY <1>1
  <1>3. Rebase(log, upstream, favor) = [i \in 1 .. L |-> new[i]]
    BY DEF Rebase, Replay
  <1>4. \A i \in 1 .. L : Rebase(log, upstream, favor)[i] = new[i]
    <2> HIDE DEF new
    <2> QED BY <1>3
  <1>5. ASSUME NEW i \in 1 .. L
        PROVE  Rebase(log, upstream, favor)[i] =
                IF i = 1 THEN upstream
                ELSE MergeFiles(log[i - 1], Rebase(log, upstream, favor)[i - 1], log[i], favor)
    <2>1. new[i] = Next1(new, i)
      <3> HIDE DEF new, Next1
      <3> QED BY <1>2
    <2> HIDE DEF new
    <2>2. CASE i = 1
      BY <1>4, <2>1, <2>2
    <2>3. CASE i # 1
      <3>1. i - 1 \in 1 .. L
        BY <2>3
      <3>2. Rebase(log, upstream, favor)[i - 1] = new[i - 1]
        BY <1>4, <3>1
      <3> QED BY <1>4, <2>1, <2>3, <3>2
    <2> QED BY <2>2, <2>3
  <1> QED BY <1>3, <1>5

LEMMA Induction ==
    ASSUME NEW L \in Nat, NEW G, 1 \in G, \A i \in 2 .. L : i - 1 \in G => i \in G
    PROVE  \A i \in 1 .. L : i \in G
  <1> SUFFICES ASSUME \E i \in 1 .. L : i \notin G PROVE FALSE
    OBVIOUS
  <1> DEFINE Bad == {i \in 1 .. L : i \notin G}
  <1>1. Bad \in SUBSET Nat /\ Bad # {}
    OBVIOUS
  <1>2. PICK m \in Bad : \A k \in Bad : m <= k
    <2> HIDE DEF Bad
    <2> QED BY <1>1, LeastNatural
  <1>3. m \in 2 .. L /\ m \notin G
    BY <1>2
  <1>4. m - 1 \in 1 .. L /\ ~ (m <= m - 1)
    BY <1>3
  <1>5. m - 1 \in G
    BY <1>2, <1>4
  <1> QED BY <1>3, <1>5

-----------------------------------------------------------------------------
(* What a clone may hold.  Everything here is a matter of trees, so that   *)
(* what Git makes of them can be settled without a state: a world w stands *)
(* for what the remote, the clock and the wiki know.                       *)

World == [seen |-> seen, remote |-> remote, runs |-> runs, now |-> now, late |-> late,
          answered |-> {r \in Requests : answered[r] # "none"}]

At(t, r) == t[Req(r)].at
Done(t, r) == t[Res(r)].at # "none"

\* A request waits for the first time, is claimed or waits again, has failed
\* for good, or is gone: it never goes back.
First == [NoFile EXCEPT !.at = "pending"]
Again == [NoFile EXCEPT !.at = "pending", !.attempts = 1]
Rank(file) ==
    IF file = First THEN 0
    ELSE IF file.at \in {"pending", "claimed"} THEN 1
    ELSE IF file.at = "failed" THEN 2 ELSE 3

\* A claim is an attempt that is not counted yet.
Cost(file) == file.attempts + (IF file.at = "claimed" THEN 1 ELSE 0)

\* A result is one of a request that was seen and is gone.
SoundAt(t, r, w) ==
    /\ At(t, r) \in {"none", "pending", "claimed", "failed"}
    /\ At(t, r) = "none" => t[Req(r)] = NoFile
    /\ At(t, r) = "pending" => t[Req(r)] \in {First, Again}
    /\ t[Res(r)].at \in {"none", "results", "failed"}
    /\ Done(t, r) => r \in w.seen /\ At(t, r) = "none"
Sound(t, w) == \A r \in Requests : SoundAt(t, r, w)
Within(t, A) == \A r \in Requests : At(t, r) # "none" => r \in A

Accounted(t, w, r) ==
    \/ At(t, r) # "none"
    \/ Done(t, r)
    \/ r \in w.answered
    \/ \E s \in Requests : KeyOf[s] = KeyOf[r] /\ r < s /\ (s \in w.seen \/ At(t, s) # "none")

\* What a commit of node n makes of request r of its parent p.  A result goes
\* when it was answered and comes from a researcher; a request comes from the
\* on-prem node, and nobody knows it; its attempts are paid for; and nobody
\* touches the fresh claim of another.
ChangeAt(n, p, q, w, r) ==
    /\ Done(p, r) => Done(q, r) \/ r \in w.answered
    /\ ~ Done(p, r) /\ Done(q, r) =>
         n # OnPrem /\ (At(p, r) = "none" => At(w.remote, r) = "none")
    /\ At(p, r) = "none" /\ At(q, r) # "none" => n = OnPrem /\ r \notin w.seen
    /\ At(p, r) # "none" => Rank(q[Req(r)]) >= Rank(p[Req(r)]) /\ Accounted(q, w, r)
    /\ At(p, r) = "claimed" /\ q[Req(r)] # p[Req(r)] =>
         \/ p[Req(r)].since < w.now
         \/ n # OnPrem /\ p[Req(r)].by = n
         \/ r \in w.late
    /\ \/ Cost(q[Req(r)]) <= Cost(p[Req(r)])
       \/ Cost(q[Req(r)]) <= w.runs[r]
       \/ /\ At(q, r) = "claimed" /\ q[Req(r)] # p[Req(r)]
          /\ Cost(q[Req(r)]) <= Cost(p[Req(r)]) + 1
Change(n, p, q, w) == \A r \in Requests : ChangeAt(n, p, q, w, r)

\* The commit of an answer to request a: nothing but the request, which was
\* claimed, and its result.
AnswerTo(a, p, q, w) ==
    /\ \A r \in Requests : r # a => q[Req(r)] = p[Req(r)]
    /\ \A r \in Requests : q[Res(r)] # p[Res(r)] => Done(q, r)
    /\ q[Req(a)] # p[Req(a)] =>
         /\ \/ At(p, a) = "claimed" /\ At(q, a) # "claimed"
            \/ At(p, a) = "failed" /\ At(q, a) = "failed"
         /\ q[Req(a)] # First /\ Cost(q[Req(a)]) <= w.runs[a]

LogOK(n, log, A, w) ==
    /\ log \in Seq(Trees) /\ Len(log) >= 1
    /\ \A i \in 1 .. Len(log) : Sound(log[i], w) /\ Within(log[i], A)
    /\ \A r \in Requests : At(log[1], r) # "none" =>
          r \in w.seen /\ Rank(w.remote[Req(r)]) >= Rank(log[1][Req(r)])
    /\ \A i \in 2 .. Len(log) : Change(n, log[i - 1], log[i], w)

\* How a replayed tree m compares with the local one, t, that it stands for.
FollowsAt(m, t, w, r) ==
    /\ At(w.remote, r) # "none" /\ At(m, r) = "none" => At(t, r) = "none"
    /\ r \notin w.seen => m[Req(r)] = t[Req(r)]
    /\ r \in w.seen /\ At(w.remote, r) = "none" => At(m, r) = "none"
    /\ At(t, r) # "none" => Rank(m[Req(r)]) >= Rank(t[Req(r)])
Follows(m, t, w) == \A r \in Requests : FollowsAt(m, t, w, r)

\* What the remote holds.
WorldOK(w) ==
    /\ w.seen \subseteq Requests /\ w.answered \subseteq w.seen
    /\ w.remote \in Trees /\ Sound(w.remote, w) /\ Within(w.remote, w.seen)
    /\ w.runs \in [Requests -> Nat] /\ w.now \in Nat
    /\ \A r \in Requests : Cost(w.remote[Req(r)]) <= w.runs[r]
    /\ \A r \in w.seen : Accounted(w.remote, w, r)

\* The working tree of a researcher is its last commit.  A round that stopped
\* in the middle leaves requests nobody has seen, and lacks results that were
\* answered.
WorkOK(n, tip, work, w, A) ==
    /\ n # OnPrem => work = tip
    /\ \A r \in Requests :
          /\ \/ work[Req(r)] = tip[Req(r)]
             \/ /\ At(tip, r) = "none" /\ r \notin w.seen /\ r \in A
                /\ work[Req(r)] = First
          /\ \/ work[Res(r)] = tip[Res(r)]
             \/ /\ Done(tip, r) /\ r \in w.answered
                /\ work[Res(r)].at \in {"none", "failed"}

Clones == [log : Seq(Trees), work : Trees, current : BOOLEAN, stopped : BOOLEAN]

Ready(n, c, A, w) ==
    /\ c \in Clones
    /\ LogOK(n, c.log, A, w)
    /\ c.current => c.log[1] = w.remote
    /\ WorkOK(n, c.log[Len(c.log)], c.work, w, A)

-----------------------------------------------------------------------------
(* The invariant.                                                          *)

Steps == {"off", "reclaiming", "selecting", "claiming", "running", "answering",
          "fold", "folding", "enqueue"}
Jobs == [req : Requests \cup {0}, file : Files]

TypeOK ==
    /\ remote \in Trees
    /\ seen \subseteq Requests
    /\ runs \in [Requests -> Nat]
    /\ late \subseteq Requests
    /\ clone \in [Nodes -> Clones]
    /\ pc \in [Nodes -> Steps]
    /\ job \in [Researchers -> Jobs]
    /\ tries \in [Researchers -> Nat]
    /\ issued \subseteq Requests
    /\ answered \in [Requests -> {"none", "applied", "rejected"}]
    /\ now \in Nat /\ failures \in Nat /\ kills \in Nat
    /\ scenario \in Scenarios

\* The requests a clone may hold: the on-prem node's own, or what was pushed.
Known(n) == IF n = OnPrem THEN issued ELSE seen

CloneOK(n) == Ready(n, clone[n], Known(n), World)

\* The last commit of a clone that reclaims is the reclaim.
ReclaimOK(n) ==
    LET L == Len(clone[n].log)
        p == clone[n].log[L - 1]
    IN  /\ L >= 2 /\ Work(n) = Tip(n)
        /\ \A r \in Requests : At(p, r) # "none" => At(Tip(n), r) # "none"

\* A claim of researcher a that its command works on.
JobOK(a) ==
    LET req == job[a].req
        file == job[a].file
    IN  /\ pc[a] \notin {"claiming", "running", "answering"} => job[a] = NoJob
        /\ pc[a] \in {"claiming", "running", "answering"} =>
              /\ req \in seen /\ file.at = "claimed" /\ file.by = a
              /\ req \notin late => file.since = now
        /\ pc[a] = "claiming" => Len(clone[a].log) >= 2 /\ Tip(a)[Req(req)] = file
        /\ pc[a] = "running" => Len(clone[a].log) = 1 /\ Tip(a)[Req(req)] = file
        /\ pc[a] \in {"running", "answering"} =>
              /\ Cost(file) <= runs[req]
              /\ req \notin late => remote[Req(req)] = file
        /\ pc[a] = "answering" =>
              /\ Len(clone[a].log) = 2
              /\ AnswerTo(req, clone[a].log[1], clone[a].log[2], World)
              /\ req \notin late => clone[a].log[1][Req(req)] = file

ExchangeInv ==
    /\ TypeOK /\ WorldOK(World) /\ seen \subseteq issued
    /\ \A n \in Nodes : CloneOK(n)
    /\ \A n \in Nodes : pc[n] = "reclaiming" => ReclaimOK(n)
    /\ \A a \in Researchers : JobOK(a)

-----------------------------------------------------------------------------
(* Trees and files                                                         *)

LEMMA TreeFiles ==
    ASSUME NEW t \in Trees, NEW r \in Requests
    PROVE  Req(r) \in Names /\ Res(r) \in Names /\ t[Req(r)] \in Files /\ t[Res(r)] \in Files
  <1>1. Req(r) \in Names /\ Res(r) \in Names
    BY DEF Req, Res, Names
  <1> QED BY <1>1 DEF Trees

LEMMA NamesDiffer ==
    ASSUME NEW r, NEW s
    PROVE  /\ Req(r) # Res(s) /\ (Req(r) = Req(s) => r = s) /\ (Res(r) = Res(s) => r = s)
           /\ Req(r)[1] = "request" /\ Req(r)[2] = r /\ Res(r)[1] = "result" /\ Res(r)[2] = r
  BY DEF Req, Res

LEMMA NamesAre ==
    ASSUME NEW f \in Names
    PROVE  \E r \in Requests : f = Req(r) \/ f = Res(r)
  <1>1. PICK k \in {"request", "result"}, r \in Requests : f = <<k, r>>
    BY DEF Names
  <1> QED BY <1>1 DEF Req, Res

LEMMA SomeFiles ==
    /\ NoFile \in Files /\ First \in Files /\ Again \in Files
    /\ NoFile.at = "none" /\ First.at = "pending" /\ Again.at = "pending"
    /\ NoFile.attempts = 0 /\ First.attempts = 0 /\ Again.attempts = 1
    /\ First.by = NoOne /\ Again.by = NoOne /\ First.since = 0 /\ Again.since = 0
  BY DEF NoFile, First, Again, Files

LEMMA FilesEqual ==
    ASSUME NEW f \in Files, NEW g \in Files, f.at = g.at, f.attempts = g.attempts,
           f.by = g.by, f.since = g.since
    PROVE  f = g
  BY DEF Files

\* A rank and a cost are numbers, and a rank tells where the file lies.
LEMMA RankIs ==
    ASSUME NEW f \in Files
    PROVE  /\ Rank(f) \in 0 .. 3
           /\ f.at \in {"pending", "claimed"} => Rank(f) <= 1
           /\ f.at = "claimed" => Rank(f) = 1
           /\ f.at = "failed" => Rank(f) = 2
           /\ f.at \in {"none", "results"} => Rank(f) = 3
           /\ f # First /\ f.at = "pending" => Rank(f) = 1
           /\ f = First <=> Rank(f) = 0
           /\ Cost(f) \in Nat /\ f.attempts <= Cost(f)
           /\ f.at # "claimed" => Cost(f) = f.attempts
           /\ f.at = "claimed" => Cost(f) = f.attempts + 1
  <1>1. f.attempts \in Nat /\ f.at \in {"none", "pending", "claimed", "failed", "results"}
    BY DEF Files
  <1>2. First.at = "pending"
    BY SomeFiles
  <1> QED BY <1>1, <1>2 DEF Rank, Cost

-----------------------------------------------------------------------------
(* Merging                                                                 *)

\* What a file of the merge is, m, of the ancestor's b and the sides' o and t.
PickedOK(m, b, o, t, favor) ==
    /\ m \in Files
    /\ m.at = IF o.at = b.at THEN t.at ELSE o.at
    /\ t = b => m = o
    /\ o = b => m = t
    /\ o = t => m = o
    /\ favor = "theirs" /\ o # b /\ t # b /\ (o.at = b.at \/ o.at = t.at) => m = t

LEMMA PickedFile ==
    ASSUME NEW b \in Files, NEW o \in Files, NEW t \in Files, NEW favor
    PROVE  PickedOK(PickFile(b, o, t, favor), b, o, t, favor)
  <1> DEFINE p == Pick(b, o, t, favor)
             at == IF o.at = b.at THEN t.at ELSE o.at
             m == PickFile(b, o, t, favor)
  <1>1. p \in Files /\ (p = o \/ p = t)
    BY DEF Pick
  <1>2. m = [p EXCEPT !.at = at]
    BY DEF PickFile
  <1>3. m = [at |-> at, attempts |-> p.attempts, by |-> p.by, since |-> p.since]
    <2> HIDE DEF p, at, m
    <2> QED BY <1>1, <1>2 DEF Files
  <1>4. m \in Files /\ m.at = at
    BY <1>1, <1>3 DEF Files
  <1>5. \A f \in Files : p = f /\ at = f.at => m = f
    <2> HIDE DEF p, at, m
    <2> QED BY <1>3 DEF Files
  <1>6. /\ t = b => p = o /\ at = o.at
        /\ o = b => p = t /\ at = t.at
        /\ o = t => p = o /\ at = o.at
        /\ favor = "theirs" /\ o # b /\ t # b /\ (o.at = b.at \/ o.at = t.at)
             => p = t /\ at = t.at
    BY DEF Pick
  <1>7. m.at = IF o.at = b.at THEN t.at ELSE o.at
    BY <1>4
  <1>8. /\ t = b => m = o
        /\ o = b => m = t
        /\ o = t => m = o
        /\ favor = "theirs" /\ o # b /\ t # b /\ (o.at = b.at \/ o.at = t.at) => m = t
    <2> HIDE DEF p, at, m
    <2> QED BY <1>5, <1>6
  <1> HIDE DEF p, at, m
  <1> QED BY <1>4, <1>7, <1>8 DEF PickedOK, m

\* What git merges without stopping, file by file.
MergedOK(m, b, o, t, favor) ==
    /\ PickedOK(m, b, o, t, favor)
    /\ BothChanged(b, o, t) =>
         /\ favor # "none" /\ o.at # "none" /\ t.at # "none"
         /\ (o.at = b.at \/ t.at = b.at \/ o.at = t.at)

LEMMA MergedFile ==
    ASSUME NEW b \in Trees, NEW o \in Trees, NEW t \in Trees, NEW favor,
           ~ FilesClash(b, o, t, favor)
    PROVE  /\ MergeFiles(b, o, t, favor) \in Trees
           /\ \A f \in Names : MergedOK(MergeFiles(b, o, t, favor)[f], b[f], o[f], t[f], favor)
  <1> DEFINE m == MergeFiles(b, o, t, favor)
  <1>1. /\ DOMAIN b = Names
        /\ \A f \in Names : b[f] \in Files /\ o[f] \in Files /\ t[f] \in Files
    BY DEF Trees
  <1>2. m = [f \in Names |-> PickFile(b[f], o[f], t[f], favor)]
    BY <1>1 DEF MergeFiles
  <1>3. \A f \in Names : PickedOK(PickFile(b[f], o[f], t[f], favor), b[f], o[f], t[f], favor)
    BY <1>1, PickedFile
  <1>4. \A f \in Names : PickFile(b[f], o[f], t[f], favor) \in Files
    BY <1>3 DEF PickedOK
  <1>5. m \in Trees
    BY <1>2, <1>4 DEF Trees
  <1>6. ASSUME NEW f \in Names PROVE MergedOK(m[f], b[f], o[f], t[f], favor)
    <2>1. PickedOK(m[f], b[f], o[f], t[f], favor)
      BY <1>2, <1>3
    <2>2. ~ FileClash(b[f], o[f], t[f], favor)
      BY <1>1 DEF FilesClash
    <2> HIDE DEF m
    <2> QED BY <2>1, <2>2 DEF MergedOK, FileClash
  <1> QED BY <1>5, <1>6

\* What git may favor: the answer to a request whose fresh claim nobody touched.
Favors(n, favor, a, b, o, t, w) ==
    \/ favor = "none"
    \/ /\ favor = "theirs" /\ n # OnPrem /\ a \in Requests /\ AnswerTo(a, b, t, w)
       /\ a \notin w.late => o[Req(a)] = b[Req(a)]

\* How a merge settles a request: the two sides differ only over an answer.
SettledOK(m, b, o, t, favor, n, r, a) ==
    \/ t = b /\ m = o
    \/ o = b /\ m = t
    \/ o = t /\ m = o
    \/ /\ favor = "theirs" /\ n # OnPrem /\ r = a
       /\ m = t /\ o # b /\ t # b /\ o # t
       /\ (o.at = "claimed" /\ t.at # "claimed") \/ (o.at = "failed" /\ t.at = "failed")
       /\ Rank(t) >= Rank(o) /\ t.at # "none"

LEMMA Settled ==
    ASSUME NEW n, NEW b \in Trees, NEW o \in Trees, NEW t \in Trees, NEW favor, NEW a, NEW w,
           ~ FilesClash(b, o, t, favor), Favors(n, favor, a, b, o, t, w),
           Sound(o, w), Sound(t, w), Follows(o, b, w), NEW r \in Requests,
           NEW m, m = MergeFiles(b, o, t, favor)
    PROVE  SettledOK(m[Req(r)], b[Req(r)], o[Req(r)], t[Req(r)], favor, n, r, a)
  <1> DEFINE mf == m[Req(r)]
             bf == b[Req(r)]
             of == o[Req(r)]
             tf == t[Req(r)]
  <1>1. bf \in Files /\ of \in Files /\ tf \in Files
    BY TreeFiles
  <1>2. MergedOK(mf, bf, of, tf, favor)
    <2>1. MergedOK(MergeFiles(b, o, t, favor)[Req(r)], bf, of, tf, favor)
      BY TreeFiles, MergedFile
    <2> HIDE DEF bf, of, tf
    <2> QED BY <2>1
  <1>3. CASE ~ BothChanged(bf, of, tf)
    <2> HIDE DEF mf, bf, of, tf
    <2>1. SettledOK(mf, bf, of, tf, favor, n, r, a)
      BY <1>2, <1>3 DEF MergedOK, PickedOK, BothChanged, SettledOK
    <2> QED BY <2>1 DEF mf, bf, of, tf
  <1>4. CASE BothChanged(bf, of, tf)
    <2>1. /\ favor = "theirs" /\ n # OnPrem /\ AnswerTo(a, b, t, w)
          /\ of.at # "none" /\ tf.at # "none" /\ of # bf /\ tf # bf /\ of # tf
          /\ of.at = bf.at \/ tf.at = bf.at \/ of.at = tf.at
      <3> HIDE DEF mf, bf, of, tf
      <3> QED BY <1>2, <1>4 DEF MergedOK, BothChanged, Favors
    <2>2. r = a
      BY <2>1 DEF AnswerTo
    <2>3. /\ \/ bf.at = "claimed" /\ tf.at # "claimed"
             \/ bf.at = "failed" /\ tf.at = "failed"
          /\ tf # First
      BY <2>1, <2>2 DEF AnswerTo, At
    <2>4. Rank(of) >= Rank(bf)
      BY <2>3 DEF Follows, FollowsAt, At
    <2>5. /\ of.at \in {"none", "pending", "claimed", "failed"}
          /\ tf.at \in {"none", "pending", "claimed", "failed"}
          /\ of.at = "pending" => of \in {First, Again}
          /\ tf.at = "pending" => tf \in {First, Again}
      BY DEF Sound, SoundAt, At
    <2> HIDE DEF mf, bf, of, tf
    <2>6. Rank(bf) >= 1 /\ Rank(bf) \in 0 .. 3 /\ (bf.at = "failed" => Rank(bf) = 2)
      BY <1>1, <2>3, RankIs
    <2>7. of # First /\ (bf.at = "failed" => of.at = "failed")
      <3>1. /\ Rank(of) \in 0 .. 3 /\ (of = First => Rank(of) = 0)
            /\ (of.at \in {"pending", "claimed"} => Rank(of) <= 1)
        BY <1>1, RankIs
      <3> QED BY <2>1, <2>4, <2>5, <2>6, <3>1
    <2>8. \/ of.at = "claimed" /\ tf.at # "claimed"
          \/ of.at = "failed" /\ tf.at = "failed"
      BY <2>1, <2>3, <2>5, <2>7
    <2>9. mf = tf
      BY <1>2, <2>1, <2>3, <2>7, <2>8 DEF MergedOK, PickedOK
    <2>10. Rank(tf) >= Rank(of)
      <3>1. /\ Rank(tf) \in 0 .. 3 /\ Rank(of) \in 0 .. 3
            /\ (of.at = "claimed" => Rank(of) = 1) /\ (of.at = "failed" => Rank(of) = 2)
            /\ (tf.at = "failed" => Rank(tf) = 2)
            /\ (tf # First /\ tf.at = "pending" => Rank(tf) = 1)
        BY <1>1, RankIs
      <3> QED BY <2>1, <2>3, <2>5, <2>8, <3>1
    <2>11. SettledOK(mf, bf, of, tf, favor, n, r, a)
      BY <2>1, <2>2, <2>8, <2>9, <2>10 DEF SettledOK
    <2> QED BY <2>11 DEF mf, bf, of, tf
  <1> QED BY <1>3, <1>4

\* What is known of a merge, in one place.
MergingOK(n, b, o, t, favor, a, A, w) ==
    /\ ~ FilesClash(b, o, t, favor) /\ Favors(n, favor, a, b, o, t, w)
    /\ Sound(b, w) /\ Sound(o, w) /\ Sound(t, w) /\ Within(o, A) /\ Within(t, A)
    /\ Change(n, b, t, w) /\ Follows(o, b, w)

\* A result is the one of the side that touched it.
ResultOK(m, b, o, t) ==
    /\ m.at \in {"none", "results", "failed"}
    /\ m.at = IF o.at = b.at THEN t.at ELSE o.at
    /\ t = b => m = o
    /\ m # o /\ t.at # "none" => m.at # "none"

LEMMA MergedResult ==
    ASSUME NEW n, NEW b \in Trees, NEW o \in Trees, NEW t \in Trees, NEW favor, NEW a,
           NEW A, NEW w, MergingOK(n, b, o, t, favor, a, A, w), NEW r \in Requests,
           NEW m, m = MergeFiles(b, o, t, favor)
    PROVE  ResultOK(m[Res(r)], b[Res(r)], o[Res(r)], t[Res(r)])
  <1> DEFINE mf == m[Res(r)]
             bf == b[Res(r)]
             of == o[Res(r)]
             tf == t[Res(r)]
  <1>1. MergedOK(mf, bf, of, tf, favor)
    <2>1. MergedOK(MergeFiles(b, o, t, favor)[Res(r)], bf, of, tf, favor)
      BY TreeFiles, MergedFile DEF MergingOK
    <2> HIDE DEF bf, of, tf
    <2> QED BY <2>1
  <1>2. of.at \in {"none", "results", "failed"} /\ tf.at \in {"none", "results", "failed"}
    BY DEF MergingOK, Sound, SoundAt
  <1> HIDE DEF mf, bf, of, tf
  <1>3. ResultOK(mf, bf, of, tf)
    BY <1>1, <1>2 DEF MergedOK, PickedOK, BothChanged, ResultOK
  <1> QED BY <1>3 DEF mf, bf, of, tf

LEMMA MergeSound ==
    ASSUME NEW n, NEW b \in Trees, NEW o \in Trees, NEW t \in Trees, NEW favor, NEW a,
           NEW A, NEW w, MergingOK(n, b, o, t, favor, a, A, w),
           NEW m, m = MergeFiles(b, o, t, favor), NEW r \in Requests
    PROVE  SoundAt(m, r, w) /\ (At(m, r) # "none" => r \in A) /\ FollowsAt(m, t, w, r)
  <1>1. SettledOK(m[Req(r)], b[Req(r)], o[Req(r)], t[Req(r)], favor, n, r, a)
    BY Settled DEF MergingOK
  <1>2. SoundAt(b, r, w) /\ SoundAt(o, r, w) /\ SoundAt(t, r, w)
        /\ ChangeAt(n, b, t, w, r) /\ FollowsAt(o, b, w, r)
        /\ (At(o, r) # "none" => r \in A) /\ (At(t, r) # "none" => r \in A)
    BY DEF MergingOK, Sound, Change, Follows, Within
  <1>3. /\ m[Res(r)].at \in {"none", "results", "failed"}
        /\ m[Res(r)].at = IF o[Res(r)].at = b[Res(r)].at THEN t[Res(r)].at ELSE o[Res(r)].at
    <2>1. ResultOK(m[Res(r)], b[Res(r)], o[Res(r)], t[Res(r)])
      BY MergedResult
    <2> QED BY <2>1 DEF ResultOK
  <1>4. m[Req(r)] = o[Req(r)] \/ m[Req(r)] = t[Req(r)]
    BY <1>1 DEF SettledOK
  <1>5. ASSUME Done(m, r) PROVE r \in w.seen /\ At(m, r) = "none"
    <2>1. CASE Done(o, r)
      <3>1. At(o, r) = "none" /\ r \in w.seen
        BY <1>2, <2>1 DEF SoundAt
      <3>2. At(b, r) = "none" => At(t, r) = "none"
        BY <1>2, <3>1 DEF ChangeAt
      <3> QED BY <1>1, <3>1, <3>2 DEF SettledOK, At
    <2>2. CASE ~ Done(o, r)
      <3>1. Done(t, r) /\ ~ Done(b, r)
        BY <1>3, <1>5, <2>2 DEF Done
      <3>2. r \in w.seen /\ At(t, r) = "none"
        BY <1>2, <3>1 DEF SoundAt
      <3>3. At(b, r) = "none" => At(o, r) = "none"
        BY <1>2, <3>1, <3>2 DEF ChangeAt, FollowsAt
      <3> QED BY <1>1, <3>2, <3>3 DEF SettledOK, At
    <2> QED BY <2>1, <2>2
  <1>6. SoundAt(m, r, w)
    BY <1>2, <1>3, <1>4, <1>5 DEF SoundAt, At
  <1>7. /\ At(w.remote, r) # "none" /\ At(m, r) = "none" => At(t, r) = "none"
        /\ r \notin w.seen => m[Req(r)] = t[Req(r)]
        /\ r \in w.seen /\ At(w.remote, r) = "none" => At(m, r) = "none"
    BY <1>1, <1>2 DEF SettledOK, FollowsAt, ChangeAt, At
  <1>8. ASSUME At(t, r) # "none" PROVE Rank(m[Req(r)]) >= Rank(t[Req(r)])
    <2>1. CASE t[Req(r)] = b[Req(r)] /\ m[Req(r)] = o[Req(r)]
      BY <1>2, <1>8, <2>1 DEF FollowsAt, At
    <2>2. CASE m[Req(r)] = t[Req(r)]
      <3>1. Rank(t[Req(r)]) \in 0 .. 3
        BY TreeFiles, RankIs
      <3> QED BY <2>2, <3>1
    <2> QED BY <1>1, <2>1, <2>2 DEF SettledOK
  <1> QED BY <1>2, <1>4, <1>6, <1>7, <1>8 DEF FollowsAt, At

LEMMA MergeChanges ==
    ASSUME NEW n, NEW b \in Trees, NEW o \in Trees, NEW t \in Trees, NEW favor, NEW a,
           NEW A, NEW w, MergingOK(n, b, o, t, favor, a, A, w),
           NEW m, m = MergeFiles(b, o, t, favor), NEW r \in Requests
    PROVE  ChangeAt(n, o, m, w, r)
  <1>1. SettledOK(m[Req(r)], b[Req(r)], o[Req(r)], t[Req(r)], favor, n, r, a)
    BY Settled DEF MergingOK
  <1>2. SoundAt(b, r, w) /\ SoundAt(o, r, w) /\ SoundAt(t, r, w)
        /\ ChangeAt(n, b, t, w, r) /\ FollowsAt(o, b, w, r)
    BY DEF MergingOK, Sound, Change, Follows
  <1>3. m[Res(r)].at = IF o[Res(r)].at = b[Res(r)].at THEN t[Res(r)].at ELSE o[Res(r)].at
    <2>1. ResultOK(m[Res(r)], b[Res(r)], o[Res(r)], t[Res(r)])
      BY MergedResult
    <2> QED BY <2>1 DEF ResultOK
  <1>4. m \in Trees /\ \A s \in Requests : s \notin w.seen => m[Req(s)] = t[Req(s)]
    <2>1. \A s \in Requests : FollowsAt(m, t, w, s)
      BY MergeSound
    <2> QED BY <2>1, MergedFile DEF MergingOK, FollowsAt
  <1>5. /\ m[Req(r)] \in Files /\ o[Req(r)] \in Files /\ t[Req(r)] \in Files
        /\ b[Req(r)] \in Files
    BY <1>4, TreeFiles
  <1>6. Done(o, r) => Done(m, r) \/ r \in w.answered
    BY <1>2, <1>3 DEF ChangeAt, Done
  <1>7. ~ Done(o, r) /\ Done(m, r) =>
          n # OnPrem /\ (At(o, r) = "none" => At(w.remote, r) = "none")
    <2>1. ~ Done(o, r) /\ Done(m, r) => Done(t, r) /\ ~ Done(b, r)
      BY <1>3 DEF Done
    <2> QED BY <1>2, <2>1 DEF ChangeAt, FollowsAt
  <1>8. At(o, r) = "none" /\ At(m, r) # "none" => n = OnPrem /\ r \notin w.seen
    BY <1>1, <1>2 DEF SettledOK, ChangeAt, At
  <1>9. ASSUME At(o, r) # "none"
        PROVE  Rank(m[Req(r)]) >= Rank(o[Req(r)]) /\ Accounted(m, w, r)
    <2>1. Rank(m[Req(r)]) >= Rank(o[Req(r)])
      <3>1. CASE m[Req(r)] = o[Req(r)]
        <4>1. Rank(o[Req(r)]) \in 0 .. 3
          BY <1>5, RankIs
        <4> QED BY <3>1, <4>1
      <3>2. CASE o[Req(r)] = b[Req(r)] /\ m[Req(r)] = t[Req(r)]
        BY <1>2, <1>9, <3>2 DEF ChangeAt, At
      <3> QED BY <1>1, <3>1, <3>2 DEF SettledOK
    <2>2. CASE At(m, r) # "none"
      BY <2>1, <2>2 DEF Accounted
    <2>3. CASE At(m, r) = "none"
      <3>1. o[Req(r)] = b[Req(r)] /\ m[Req(r)] = t[Req(r)]
        BY <1>1, <1>9, <2>3 DEF SettledOK, At
      <3>2. Accounted(t, w, r) /\ At(t, r) = "none"
        BY <1>2, <1>9, <2>3, <3>1 DEF ChangeAt, At
      <3>3. CASE Done(t, r)
        <4>1. ~ Done(b, r)
          BY <1>2, <1>9, <3>1 DEF SoundAt, At
        <4>2. Done(m, r)
          BY <1>3, <3>3, <4>1 DEF Done
        <4> QED BY <2>1, <4>2 DEF Accounted
      <3>4. CASE r \in w.answered
        BY <2>1, <3>4 DEF Accounted
      <3>5. CASE \E s \in Requests : KeyOf[s] = KeyOf[r] /\ r < s
                                     /\ (s \in w.seen \/ At(t, s) # "none")
        BY <1>4, <2>1, <3>5 DEF Accounted, At
      <3> QED BY <3>2, <3>3, <3>4, <3>5 DEF Accounted
    <2> QED BY <2>2, <2>3
  <1>10. At(o, r) = "claimed" /\ m[Req(r)] # o[Req(r)] =>
           \/ o[Req(r)].since < w.now
           \/ n # OnPrem /\ o[Req(r)].by = n
           \/ r \in w.late
    <2>1. favor = "theirs" /\ r = a /\ a \notin w.late => o[Req(r)] = b[Req(r)]
      BY DEF MergingOK, Favors
    <2> QED BY <1>1, <1>2, <2>1 DEF SettledOK, ChangeAt, At
  <1>11. \/ Cost(m[Req(r)]) <= Cost(o[Req(r)])
         \/ Cost(m[Req(r)]) <= w.runs[r]
         \/ /\ At(m, r) = "claimed" /\ m[Req(r)] # o[Req(r)]
            /\ Cost(m[Req(r)]) <= Cost(o[Req(r)]) + 1
    <2>1. CASE m[Req(r)] = o[Req(r)]
      <3>1. Cost(o[Req(r)]) \in Nat
        BY <1>5, RankIs
      <3> QED BY <2>1, <3>1
    <2>2. CASE o[Req(r)] = b[Req(r)] /\ m[Req(r)] = t[Req(r)]
      BY <1>2, <2>2 DEF ChangeAt, At
    <2>3. CASE favor = "theirs" /\ r = a /\ m[Req(r)] = t[Req(r)] /\ t[Req(r)] # b[Req(r)]
      <3>1. AnswerTo(a, b, t, w)
        BY <2>3 DEF MergingOK, Favors
      <3> QED BY <2>3, <3>1 DEF AnswerTo
    <2> QED BY <1>1, <2>1, <2>2, <2>3 DEF SettledOK
  <1> QED BY <1>6, <1>7, <1>8, <1>9, <1>10, <1>11 DEF ChangeAt

LEMMA MergeGone ==
    ASSUME NEW n, NEW b \in Trees, NEW o \in Trees, NEW t \in Trees, NEW favor, NEW a,
           NEW A, NEW w, MergingOK(n, b, o, t, favor, a, A, w),
           NEW m, m = MergeFiles(b, o, t, favor), NEW r \in Requests,
           At(b, r) = "none" => At(o, r) = "none"
    PROVE  At(t, r) = "none" => At(m, r) = "none"
  <1>1. SettledOK(m[Req(r)], b[Req(r)], o[Req(r)], t[Req(r)], favor, n, r, a)
    BY Settled DEF MergingOK
  <1> QED BY <1>1 DEF SettledOK, At

-----------------------------------------------------------------------------
(* Logs                                                                    *)

LEMMA LogTrees ==
    ASSUME NEW n, NEW log, NEW A, NEW w, LogOK(n, log, A, w)
    PROVE  /\ Len(log) \in Nat /\ DOMAIN log = 1 .. Len(log) /\ Len(log) >= 1
           /\ \A i \in 1 .. Len(log) : log[i] \in Trees
  BY DEF LogOK

\* Who answers a request that is gone, or is newer, is known for good.
LEMMA AccountedAlong ==
    ASSUME NEW n, NEW p \in Trees, NEW q \in Trees, NEW w, w.answered \subseteq w.seen,
           w.seen \subseteq Requests,
           Sound(q, w), Change(n, p, q, w), NEW r \in Requests, Accounted(p, w, r)
    PROVE  Accounted(q, w, r)
  <1>1. ASSUME NEW s \in Requests, At(p, s) # "none" PROVE Accounted(q, w, s)
    BY <1>1 DEF Change, ChangeAt
  <1>2. CASE At(p, r) # "none"
    BY <1>1, <1>2
  <1>3. CASE Done(p, r)
    BY <1>3 DEF Change, ChangeAt, Accounted
  <1>4. CASE r \in w.answered
    BY <1>4 DEF Accounted
  <1>5. ASSUME NEW s \in Requests, KeyOf[s] = KeyOf[r], r < s, s \in w.seen \/ At(p, s) # "none"
        PROVE  Accounted(q, w, r)
    <2>1. CASE s \in w.seen \/ At(q, s) # "none"
      BY <1>5, <2>1 DEF Accounted
    <2>2. CASE s \notin w.seen /\ At(q, s) = "none"
      <3>1. Accounted(q, w, s)
        BY <1>1, <1>5, <2>2
      <3>2. ~ Done(q, s) /\ s \notin w.answered
        BY <2>2 DEF Sound, SoundAt
      <3>3. PICK u \in Requests :
              KeyOf[u] = KeyOf[s] /\ s < u /\ (u \in w.seen \/ At(q, u) # "none")
        BY <2>2, <3>1, <3>2 DEF Accounted
      <3>4. r < u /\ KeyOf[u] = KeyOf[r]
        BY <1>5, <3>3, ExchangeAssumption
      <3> QED BY <3>3, <3>4 DEF Accounted
    <2> QED BY <2>1, <2>2
  <1> QED BY <1>2, <1>3, <1>4, <1>5 DEF Accounted

\* What is true of a request where the log starts is true of it at the tip: a
\* result stays until it is answered, a request that is gone stays away, its
\* rank does not fall, nobody else touches the fresh claim of a researcher,
\* and a request that goes is accounted for.
AlongOK(n, p, q, w, r) ==
    /\ Done(p, r) => Done(q, r) \/ r \in w.answered
    /\ r \in w.seen => Rank(q[Req(r)]) >= Rank(p[Req(r)])
    /\ r \in w.seen /\ At(p, r) = "none" => At(q, r) = "none"
    /\ n # OnPrem /\ At(p, r) = "none" => At(q, r) = "none"
    /\ /\ At(p, r) = "claimed" /\ ~ (p[Req(r)].since < w.now) /\ r \notin w.late
       /\ n = OnPrem \/ p[Req(r)].by # n
       => q[Req(r)] = p[Req(r)]
    /\ Accounted(p, w, r) => Accounted(q, w, r)

LEMMA AlongStep ==
    ASSUME NEW n, NEW s \in Trees, NEW p \in Trees, NEW q \in Trees, NEW w,
           w.answered \subseteq w.seen, w.seen \subseteq Requests, Sound(q, w),
           Change(n, p, q, w), NEW r \in Requests, AlongOK(n, s, p, w, r)
    PROVE  AlongOK(n, s, q, w, r)
  <1>1. ChangeAt(n, p, q, w, r) /\ SoundAt(q, r, w)
    BY DEF Change, Sound
  <1>2. /\ s[Req(r)] \in Files /\ p[Req(r)] \in Files /\ q[Req(r)] \in Files
    BY TreeFiles
  <1>3. /\ Rank(s[Req(r)]) \in 0 .. 3 /\ Rank(p[Req(r)]) \in 0 .. 3 /\ Rank(q[Req(r)]) \in 0 .. 3
        /\ At(q, r) = "none" => Rank(q[Req(r)]) = 3
    BY <1>2, RankIs DEF At
  <1>4. r \in w.seen => Rank(q[Req(r)]) >= Rank(s[Req(r)])
    <2>1. CASE At(p, r) # "none"
      BY <1>1, <1>3, <2>1 DEF AlongOK, ChangeAt
    <2>2. CASE At(p, r) = "none" /\ r \in w.seen
      <3>1. At(q, r) = "none"
        BY <1>1, <2>2 DEF ChangeAt
      <3> QED BY <1>3, <3>1
    <2> QED BY <2>1, <2>2
  <1>5. Accounted(s, w, r) => Accounted(q, w, r)
    BY AccountedAlong DEF AlongOK
  <1>6. ASSUME At(s, r) = "claimed", ~ (s[Req(r)].since < w.now), r \notin w.late,
               n = OnPrem \/ s[Req(r)].by # n
        PROVE  q[Req(r)] = s[Req(r)]
    <2>1. p[Req(r)] = s[Req(r)]
      BY <1>6 DEF AlongOK
    <2> QED BY <1>1, <1>6, <2>1 DEF ChangeAt, At
  <1>7. /\ Done(s, r) => Done(q, r) \/ r \in w.answered
        /\ r \in w.seen /\ At(s, r) = "none" => At(q, r) = "none"
        /\ n # OnPrem /\ At(s, r) = "none" => At(q, r) = "none"
    BY <1>1 DEF AlongOK, ChangeAt
  <1> QED BY <1>4, <1>5, <1>6, <1>7 DEF AlongOK

LEMMA AlongTheLog ==
    ASSUME NEW n, NEW log, NEW A, NEW w, LogOK(n, log, A, w),
           w.answered \subseteq w.seen, w.seen \subseteq Requests, NEW r \in Requests
    PROVE  \A i \in 1 .. Len(log) : AlongOK(n, log[1], log[i], w, r)
  <1> DEFINE L == Len(log)
  <1>1. L \in Nat /\ L >= 1 /\ 1 \in 1 .. L
    BY LogTrees
  <1>2. /\ \A i \in 2 .. L : Change(n, log[i - 1], log[i], w)
        /\ \A i \in 1 .. L : log[i] \in Trees /\ Sound(log[i], w)
    BY LogTrees DEF LogOK
  <1> HIDE DEF L
  <1> DEFINE G == {i \in 1 .. L : AlongOK(n, log[1], log[i], w, r)}
  <1>3. 1 \in G
    <2>1. Rank(log[1][Req(r)]) \in 0 .. 3
      BY <1>1, <1>2, TreeFiles, RankIs
    <2> QED BY <1>1, <2>1 DEF AlongOK
  <1>4. ASSUME NEW i \in 2 .. L, i - 1 \in G PROVE i \in G
    <2>1. i \in 1 .. L /\ i - 1 \in 1 .. L
      BY <1>1
    <2>2. AlongOK(n, log[1], log[i - 1], w, r)
      BY <1>4
    <2>3. AlongOK(n, log[1], log[i], w, r)
      BY <1>1, <1>2, <2>1, <2>2, AlongStep
    <2> QED BY <2>1, <2>3
  <1> HIDE DEF G
  <1>5. \A i \in 1 .. L : i \in G
    BY <1>1, <1>3, <1>4, Induction
  <1> QED BY <1>5 DEF G, L

\* The claims of a log pay for the attempts at its tip.
LEMMA ClaimsPay ==
    ASSUME NEW n, NEW log, NEW A, NEW w, LogOK(n, log, A, w), NEW r \in Requests,
           w.runs[r] \in Nat, Cost(log[1][Req(r)]) <= w.runs[r]
    PROVE  /\ Cardinality(ClaimsIn(log, r)) \in Nat
           /\ Cost(log[Len(log)][Req(r)]) <= w.runs[r] + Cardinality(ClaimsIn(log, r))
  <1> DEFINE L == Len(log)
             C == ClaimsIn(log, r)
             Upto(i) == {j \in C : j <= i}
             N(i) == Cardinality(Upto(i))
             cost(i) == Cost(log[i][Req(r)])
  <1>1. L \in Nat /\ L >= 1 /\ 1 \in 1 .. L /\ L \in 1 .. L /\ DOMAIN log = 1 .. L
    BY LogTrees
  <1>2. /\ \A i \in 2 .. L : ChangeAt(n, log[i - 1], log[i], w, r)
        /\ \A i \in 1 .. L : log[i] \in Trees
    BY LogTrees DEF LogOK, Change
  <1> HIDE DEF L
  <1>3. \A j \in C : j \in 2 .. L
    BY <1>1 DEF ClaimsIn
  <1>4. IsFiniteSet(C)
    <2>1. IsFiniteSet(1 .. L)
      BY <1>1, FS_Interval
    <2>2. C \subseteq 1 .. L
      BY <1>1 DEF ClaimsIn
    <2> QED BY <2>1, <2>2, FS_Subset
  <1>5. ASSUME NEW i PROVE IsFiniteSet(Upto(i)) /\ N(i) \in Nat
    <2>1. Upto(i) \subseteq C
      OBVIOUS
    <2> QED BY <1>4, <2>1, FS_Subset, FS_CardinalityType
  <1>6. \A i \in 1 .. L : cost(i) \in Nat
    BY <1>2, TreeFiles, RankIs
  <1> DEFINE G == {i \in 1 .. L : cost(i) <= w.runs[r] + N(i)}
  <1>7. 1 \in G
    <2>1. N(1) \in Nat
      BY <1>5
    <2>2. cost(1) <= w.runs[r] /\ cost(1) \in Nat
      BY <1>1, <1>6
    <2> HIDE DEF N, cost
    <2> QED BY <1>1, <2>1, <2>2
  <1>8. ASSUME NEW i \in 2 .. L, i - 1 \in G PROVE i \in G
    <2>1. i \in 1 .. L /\ i - 1 \in 1 .. L /\ i \in Nat /\ i # 1
      BY <1>1
    <2>2. cost(i - 1) <= w.runs[r] + N(i - 1) /\ cost(i) \in Nat /\ cost(i - 1) \in Nat
      BY <1>6, <1>8, <2>1
    <2>3. N(i) \in Nat /\ N(i - 1) \in Nat
      BY <1>5
    <2>4. N(i - 1) <= N(i)
      <3>1. Upto(i - 1) \subseteq Upto(i)
        BY <1>1, <1>3, <2>1
      <3> QED BY <1>5, <3>1, FS_Subset
    <2>5. ASSUME i \in C PROVE N(i) = N(i - 1) + 1
      <3>1. Upto(i) = Upto(i - 1) \cup {i}
        <4>1. \A j \in C : j \in Nat
          BY <1>1, <1>3
        <4>2. \A j \in C : j <= i <=> j <= i - 1 \/ j = i
          BY <2>1, <4>1
        <4>3. i <= i
          BY <2>1
        <4> HIDE DEF C
        <4>4. ASSUME NEW j PROVE j \in Upto(i) <=> j \in Upto(i - 1) \/ j = i
          BY <2>5, <4>2, <4>3
        <4> HIDE DEF Upto
        <4> QED BY <4>4
      <3>2. i \notin Upto(i - 1)
        BY <2>1
      <3> DEFINE old == Upto(i - 1)
      <3>3. IsFiniteSet(old)
        BY <1>5
      <3>4. Upto(i) = old \cup {i} /\ i \notin old
        BY <3>1, <3>2
      <3> HIDE DEF old, Upto
      <3>5. Cardinality(old \cup {i}) = Cardinality(old) + 1
        BY <3>3, <3>4, FS_AddElement
      <3> QED BY <3>4, <3>5 DEF old
    <2>6. At(log[i], r) = "claimed" /\ log[i][Req(r)] # log[i - 1][Req(r)] => i \in C
      BY <1>1, <2>1 DEF ClaimsIn, At
    <2>7. \/ cost(i) <= cost(i - 1)
          \/ cost(i) <= w.runs[r]
          \/ i \in C /\ cost(i) <= cost(i - 1) + 1
      BY <1>2, <2>6 DEF ChangeAt
    <2> HIDE DEF N, cost, C
    <2>8. cost(i) <= w.runs[r] + N(i)
      BY <2>2, <2>3, <2>4, <2>5, <2>7
    <2> QED BY <2>1, <2>8
  <1> HIDE DEF G
  <1>9. L \in G
    BY <1>1, <1>7, <1>8, Induction
  <1>10. cost(L) <= w.runs[r] + N(L)
    BY <1>9 DEF G
  <1>11. Upto(L) = C
    BY <1>1, <1>3
  <1>12. N(L) = Cardinality(C) /\ N(L) \in Nat
    BY <1>5, <1>11
  <1> QED BY <1>10, <1>12 DEF L

\* What is replayed onto the remote, where no commit clashes.
Replayable(n, log, favor, a, w) ==
    \/ favor = "none"
    \/ /\ favor = "theirs" /\ n # OnPrem /\ Len(log) = 2 /\ a \in Requests
       /\ AnswerTo(a, log[1], log[2], w)
       /\ a \notin w.late => w.remote[Req(a)] = log[1][Req(a)]

Vanished(log, w, r) == At(log[1], r) = "none" => At(w.remote, r) = "none"

RebaseOK(n, log, new, A, w) ==
    /\ LogOK(n, new, A, w)
    /\ Len(new) = Len(log) /\ new[1] = w.remote
    /\ \A i \in 1 .. Len(log) :
          /\ Follows(new[i], log[i], w)
          /\ \A r \in Requests :
                Vanished(log, w, r) /\ At(log[i], r) = "none" => At(new[i], r) = "none"

LEMMA RebasedLog ==
    ASSUME NEW n, NEW log, NEW A, NEW w, NEW favor, NEW a,
           LogOK(n, log, A, w), ~ Stops(log, w.remote, favor), WorldOK(w), w.seen \subseteq A,
           Replayable(n, log, favor, a, w)
    PROVE  RebaseOK(n, log, Rebase(log, w.remote, favor), A, w)
  <1> DEFINE L == Len(log)
             rem == w.remote
             new == Rebase(log, rem, favor)
             Ok(i) == /\ new[i] \in Trees /\ Sound(new[i], w) /\ Within(new[i], A)
                      /\ Follows(new[i], log[i], w)
                      /\ \A r \in Requests :
                           Vanished(log, w, r) /\ At(log[i], r) = "none" => At(new[i], r) = "none"
                      /\ i # 1 => Change(n, new[i - 1], new[i], w)
  <1>1. L \in Nat /\ DOMAIN log = 1 .. L /\ L >= 1 /\ 1 \in 1 .. L
    BY LogTrees
  <1>2. /\ \A i \in 1 .. L : log[i] \in Trees /\ Sound(log[i], w) /\ Within(log[i], A)
        /\ \A r \in Requests : At(log[1], r) # "none" =>
              r \in w.seen /\ Rank(rem[Req(r)]) >= Rank(log[1][Req(r)])
        /\ \A i \in 2 .. L : Change(n, log[i - 1], log[i], w)
    BY LogTrees DEF LogOK
  <1>3. /\ DOMAIN new = 1 .. L
        /\ \A i \in 1 .. L : new[i] = IF i = 1 THEN rem
                                      ELSE MergeFiles(log[i - 1], new[i - 1], log[i], favor)
    BY <1>1, RebaseIs
  <1>4. \A i \in 2 .. L : ~ FilesClash(log[i - 1], new[i - 1], log[i], favor)
    <2> TAKE i \in 2 .. L
    <2>1. i \in DOMAIN log \ {1}
      BY <1>1
    <2> HIDE DEF L
    <2> QED BY <2>1 DEF Stops
  <1>n. L = 2 \/ favor # "theirs"
    BY DEF Replayable
  <1>r. /\ rem \in Trees /\ Sound(rem, w) /\ Within(rem, w.seen)
    BY DEF WorldOK
  <1> HIDE DEF L, new
  <1>5. new[1] = rem
    BY <1>1, <1>3
  <1>6. Ok(1)
    <2>1. Within(rem, A)
      BY <1>r DEF Within
    <2>2. Follows(rem, log[1], w)
      <3> SUFFICES ASSUME NEW r \in Requests PROVE FollowsAt(rem, log[1], w, r)
        BY DEF Follows
      <3>1. SoundAt(rem, r, w) /\ SoundAt(log[1], r, w) /\ (At(rem, r) # "none" => r \in w.seen)
        BY <1>1, <1>2, <1>r DEF Sound, Within
      <3>2. At(log[1], r) # "none" =>
              r \in w.seen /\ Rank(rem[Req(r)]) >= Rank(log[1][Req(r)])
        BY <1>2
      <3> QED BY <3>1, <3>2 DEF FollowsAt, SoundAt
    <2> QED BY <1>5, <1>r, <2>1, <2>2 DEF Vanished
  <1>7. ASSUME NEW i \in 2 .. L, Ok(i - 1) PROVE Ok(i)
    <2> DEFINE b == log[i - 1]
               o == new[i - 1]
               t == log[i]
               m == new[i]
    <2>1. i \in 1 .. L /\ i - 1 \in 1 .. L /\ i # 1
      BY <1>1
    <2>2. m = MergeFiles(b, o, t, favor)
      BY <1>3, <2>1
    <2>3. b \in Trees /\ t \in Trees /\ Sound(b, w) /\ Sound(t, w) /\ Within(t, A)
      BY <1>2, <2>1
    <2>4. /\ o \in Trees /\ Sound(o, w) /\ Within(o, A) /\ Follows(o, b, w)
          /\ \A r \in Requests : Vanished(log, w, r) /\ At(b, r) = "none" => At(o, r) = "none"
      BY <1>7
    <2>5. Change(n, b, t, w) /\ ~ FilesClash(b, o, t, favor)
      BY <1>2, <1>4
    <2>6. Favors(n, favor, a, b, o, t, w)
      <3>1. CASE favor = "theirs"
        <4>1. i = 2 /\ i - 1 = 1
          BY <1>1, <1>n, <2>1, <3>1
        <4>2. b = log[1] /\ o = rem /\ t = log[2]
          BY <1>5, <4>1
        <4> HIDE DEF b, o, t
        <4> QED BY <3>1, <4>2 DEF Replayable, Favors
      <3>2. CASE favor # "theirs"
        BY <3>2 DEF Replayable, Favors
      <3> QED BY <3>1, <3>2
    <2> HIDE DEF b, o, t, m
    <2>m. MergingOK(n, b, o, t, favor, a, A, w)
      BY <2>3, <2>4, <2>5, <2>6 DEF MergingOK
    <2>7. m \in Trees
      BY <2>2, <2>3, <2>4, <2>5, MergedFile
    <2>8. \A r \in Requests :
             SoundAt(m, r, w) /\ (At(m, r) # "none" => r \in A) /\ FollowsAt(m, t, w, r)
      BY <2>2, <2>3, <2>4, <2>m, MergeSound
    <2>9. \A r \in Requests : ChangeAt(n, o, m, w, r)
      BY <2>2, <2>3, <2>4, <2>m, MergeChanges
    <2>10. \A r \in Requests : (At(b, r) = "none" => At(o, r) = "none")
                               => (At(t, r) = "none" => At(m, r) = "none")
      BY <2>2, <2>3, <2>4, <2>m, MergeGone
    <2>11. /\ Sound(m, w) /\ Within(m, A) /\ Follows(m, t, w) /\ Change(n, o, m, w)
           /\ \A r \in Requests : Vanished(log, w, r) /\ At(t, r) = "none" => At(m, r) = "none"
      BY <2>4, <2>8, <2>9, <2>10 DEF Sound, Within, Follows, Change
    <2> QED BY <2>7, <2>11 DEF o, t, m
  <1> HIDE DEF Ok
  <1>8. \A i \in 1 .. L : Ok(i)
    <2> DEFINE G == {j \in 1 .. L : Ok(j)}
    <2>1. 1 \in G
      BY <1>1, <1>6
    <2>2. ASSUME NEW j \in 2 .. L, j - 1 \in G PROVE j \in G
      BY <1>1, <1>7, <2>2
    <2> HIDE DEF G
    <2>3. \A i \in 1 .. L : i \in G
      BY <1>1, <2>1, <2>2, Induction
    <2> QED BY <2>3 DEF G
  <1>9. new \in Seq(Trees) /\ Len(new) = L
    <2>1. new = [i \in 1 .. L |-> new[i]]
      BY <1>1, <1>3 DEF new, Rebase, Replay
    <2>2. \A i \in 1 .. L : new[i] \in Trees
      BY <1>8 DEF Ok
    <2> QED BY <1>1, <2>1, <2>2
  <1>10. LogOK(n, new, A, w)
    <2>1. \A i \in 1 .. L : Sound(new[i], w) /\ Within(new[i], A)
      BY <1>8 DEF Ok
    <2>2. \A i \in 2 .. L : Change(n, new[i - 1], new[i], w)
      <3> TAKE i \in 2 .. L
      <3>1. i \in 1 .. L /\ i # 1
        BY <1>1
      <3> QED BY <1>8, <3>1 DEF Ok
    <2>3. \A r \in Requests : At(rem, r) # "none" =>
              r \in w.seen /\ Rank(rem[Req(r)]) >= Rank(rem[Req(r)])
      <3> TAKE r \in Requests
      <3>1. Rank(rem[Req(r)]) \in 0 .. 3
        BY <1>r, TreeFiles, RankIs
      <3> HIDE DEF rem
      <3> QED BY <1>r, <3>1 DEF Within
    <2> HIDE DEF rem
    <2> QED BY <1>1, <1>5, <1>9, <2>1, <2>2, <2>3 DEF LogOK, rem
  <1>11. \A i \in 1 .. L :
           /\ Follows(new[i], log[i], w)
           /\ \A r \in Requests :
                Vanished(log, w, r) /\ At(log[i], r) = "none" => At(new[i], r) = "none"
    BY <1>8 DEF Ok
  <1> QED BY <1>5, <1>9, <1>10, <1>11 DEF L, new, RebaseOK

LEMMA RebasedTwo ==
    ASSUME NEW log, Len(log) = 2, DOMAIN log = 1 .. Len(log), NEW upstream, NEW favor
    PROVE  /\ Rebase(log, upstream, favor)[1] = upstream
           /\ Rebase(log, upstream, favor)[2] =
                MergeFiles(log[2 - 1], Rebase(log, upstream, favor)[2 - 1], log[2], favor)
  <1> DEFINE L == Len(log)
             new == Rebase(log, upstream, favor)
  <1>1. L = 2
    OBVIOUS
  <1> HIDE DEF L
  <1>2. L \in Nat /\ DOMAIN log = 1 .. L
    BY <1>1 DEF L
  <1>3. /\ DOMAIN new = 1 .. L
        /\ \A i \in 1 .. L : new[i] = IF i = 1 THEN upstream
             ELSE MergeFiles(log[i - 1], new[i - 1], log[i], favor)
    BY ONLY <1>2, RebaseIs
  <1> HIDE DEF new
  <1>4. new[1] = upstream /\ new[2] = MergeFiles(log[2 - 1], new[2 - 1], log[2], favor)
    BY <1>1, <1>3
  <1> QED BY <1>4 DEF new

\* An answer that was replayed is still an answer.
LEMMA RebasedAnswer ==
    ASSUME NEW n, NEW log, NEW A, NEW w, NEW a, NEW favor, favor = "theirs",
           LogOK(n, log, A, w), ~ Stops(log, w.remote, favor), WorldOK(w), w.seen \subseteq A,
           Replayable(n, log, favor, a, w)
    PROVE  AnswerTo(a, w.remote, Rebase(log, w.remote, favor)[2], w)
  <1> DEFINE b == log[1]
             o == w.remote
             t == log[2]
             new == Rebase(log, o, favor)
             m == MergeFiles(b, o, t, favor)
  <1>1. /\ Len(log) = 2 /\ DOMAIN log = 1 .. 2 /\ b \in Trees /\ t \in Trees
        /\ n # OnPrem /\ a \in Requests /\ AnswerTo(a, b, t, w)
        /\ a \notin w.late => o[Req(a)] = b[Req(a)]
    BY LogTrees DEF Replayable
  <1>2. new[1] = o /\ new[2] = MergeFiles(log[2 - 1], new[2 - 1], log[2], favor)
    <2>1. Len(log) = 2 /\ Len(log) \in Nat /\ DOMAIN log = 1 .. Len(log)
      BY <1>1
    <2> QED BY <2>1, RebasedTwo
  <1>3. new[2] = m
    BY <1>2
  <1>4. ~ FilesClash(b, o, t, favor)
    <2>1. ~ FilesClash(log[2 - 1], new[2 - 1], log[2], favor)
      BY <1>1 DEF Stops
    <2> HIDE DEF new
    <2> QED BY <1>2, <2>1
  <1>5. o \in Trees /\ Sound(o, w) /\ Within(o, A) /\ Follows(o, b, w)
    <2>1. RebaseOK(n, log, new, A, w)
      BY RebasedLog
    <2> HIDE DEF new
    <2>2. Follows(new[1], b, w)
      BY <1>1, <2>1 DEF RebaseOK
    <2> QED BY <1>2, <2>2 DEF WorldOK, Within
  <1>6. Sound(b, w) /\ Sound(t, w) /\ Within(t, A) /\ Change(n, log[2 - 1], t, w)
    BY <1>1 DEF LogOK
  <1>7. Favors(n, favor, a, b, o, t, w)
    BY <1>1 DEF Favors
  <1> HIDE DEF b, o, t, m
  <1>8. MergingOK(n, b, o, t, favor, a, A, w)
    BY <1>4, <1>5, <1>6, <1>7 DEF MergingOK, b
  <1>9. \A r \in Requests :
          /\ SettledOK(m[Req(r)], b[Req(r)], o[Req(r)], t[Req(r)], favor, n, r, a)
          /\ ResultOK(m[Res(r)], b[Res(r)], o[Res(r)], t[Res(r)])
    <2>1. m = MergeFiles(b, o, t, favor)
      BY DEF m
    <2> QED BY <1>1, <1>4, <1>5, <1>6, <1>7, <1>8, <2>1, Settled, MergedResult
  <1>10. \A r \in Requests : r # a => m[Req(r)] = o[Req(r)]
    <2> TAKE r \in Requests
    <2>1. r # a => t[Req(r)] = b[Req(r)]
      BY <1>1 DEF AnswerTo
    <2> QED BY <1>9, <2>1 DEF SettledOK
  <1>11. \A r \in Requests : m[Res(r)] # o[Res(r)] => Done(m, r)
    <2> TAKE r \in Requests
    <2>1. t[Res(r)] # b[Res(r)] => t[Res(r)].at # "none"
      BY <1>1 DEF AnswerTo, Done
    <2> QED BY <1>9, <2>1 DEF ResultOK, Done
  <1>12. ASSUME m[Req(a)] # o[Req(a)]
         PROVE  /\ \/ At(o, a) = "claimed" /\ At(m, a) # "claimed"
                   \/ At(o, a) = "failed" /\ At(m, a) = "failed"
                /\ m[Req(a)] # First /\ Cost(m[Req(a)]) <= w.runs[a]
    <2>1. SettledOK(m[Req(a)], b[Req(a)], o[Req(a)], t[Req(a)], favor, n, a, a)
      BY <1>1, <1>9
    <2>2. m[Req(a)] = t[Req(a)] /\ t[Req(a)] # b[Req(a)]
      BY <1>12, <2>1 DEF SettledOK
    <2>3. /\ \/ At(b, a) = "claimed" /\ At(t, a) # "claimed"
             \/ At(b, a) = "failed" /\ At(t, a) = "failed"
          /\ t[Req(a)] # First /\ Cost(t[Req(a)]) <= w.runs[a]
      BY <1>1, <2>2 DEF AnswerTo
    <2> QED BY <1>12, <2>1, <2>2, <2>3 DEF SettledOK, At
  <1>13. AnswerTo(a, o, m, w)
    BY <1>10, <1>11, <1>12 DEF AnswerTo
  <1> QED BY <1>3, <1>13 DEF o


-----------------------------------------------------------------------------
(* Commits, resets and pushes.                                             *)

LEMMA Committed ==
    ASSUME NEW n, NEW log, NEW A, NEW w, LogOK(n, log, A, w), NEW q \in Trees,
           Sound(q, w), Within(q, A), Change(n, log[Len(log)], q, w)
    PROVE  /\ LogOK(n, Append(log, q), A, w)
           /\ Len(Append(log, q)) = Len(log) + 1
           /\ \A i \in 1 .. Len(log) : Append(log, q)[i] = log[i]
           /\ Append(log, q)[Len(log) + 1] = q
  <1> DEFINE L == Len(log)
             new == Append(log, q)
  <1>1. /\ L \in Nat /\ L >= 1 /\ log \in Seq(Trees)
        /\ \A i \in 1 .. L : Sound(log[i], w) /\ Within(log[i], A)
        /\ \A r \in Requests : At(log[1], r) # "none" =>
              r \in w.seen /\ Rank(w.remote[Req(r)]) >= Rank(log[1][Req(r)])
        /\ \A i \in 2 .. L : Change(n, log[i - 1], log[i], w)
    BY DEF LogOK
  <1>2. /\ new \in Seq(Trees) /\ Len(new) = L + 1
        /\ \A i \in 1 .. L : new[i] = log[i]
        /\ new[L + 1] = q
    BY <1>1
  <1>3. Change(n, log[L], q, w)
    OBVIOUS
  <1> HIDE DEF L, new
  <1>4. \A i \in 1 .. L + 1 : Sound(new[i], w) /\ Within(new[i], A)
    <2> TAKE i \in 1 .. L + 1
    <2>1. CASE i = L + 1
      BY <1>2, <2>1
    <2>2. CASE i # L + 1
      <3>1. i \in 1 .. L
        BY <1>1, <2>2
      <3> QED BY <1>1, <1>2, <3>1
    <2> QED BY <2>1, <2>2
  <1>5. \A i \in 2 .. L + 1 : Change(n, new[i - 1], new[i], w)
    <2> TAKE i \in 2 .. L + 1
    <2>1. i - 1 \in 1 .. L /\ new[i - 1] = log[i - 1]
      BY <1>1, <1>2
    <2>2. CASE i = L + 1
      <3>1. i - 1 = L /\ new[i] = q
        BY <1>1, <1>2, <2>2
      <3> QED BY <1>3, <2>1, <3>1
    <2>3. CASE i # L + 1
      <3>1. i \in 2 .. L /\ new[i] = log[i]
        BY <1>1, <1>2, <2>3
      <3> QED BY <1>1, <2>1, <3>1
    <2> QED BY <2>2, <2>3
  <1>6. new[1] = log[1]
    BY <1>1, <1>2
  <1>7. LogOK(n, new, A, w)
    BY <1>1, <1>2, <1>4, <1>5, <1>6 DEF LogOK
  <1> QED BY <1>2, <1>7 DEF L, new

LEMMA Shortened ==
    ASSUME NEW n, NEW log, NEW A, NEW w, LogOK(n, log, A, w), Len(log) >= 2
    PROVE  /\ LogOK(n, Shorter(log), A, w)
           /\ Len(Shorter(log)) = Len(log) - 1
           /\ \A i \in 1 .. Len(log) - 1 : Shorter(log)[i] = log[i]
  <1> DEFINE L == Len(log)
             new == Shorter(log)
  <1>1. /\ L \in Nat /\ L >= 2 /\ log \in Seq(Trees)
        /\ \A i \in 1 .. L : Sound(log[i], w) /\ Within(log[i], A)
        /\ \A r \in Requests : At(log[1], r) # "none" =>
              r \in w.seen /\ Rank(w.remote[Req(r)]) >= Rank(log[1][Req(r)])
        /\ \A i \in 2 .. L : Change(n, log[i - 1], log[i], w)
    BY DEF LogOK
  <1>2. new = [i \in 1 .. L - 1 |-> log[i]]
    <2>1. 1 \in Int /\ L - 1 \in Int /\ L - 1 + 1 = L
      BY <1>1
    <2> QED BY <1>1, <2>1 DEF Shorter
  <1>3. \A i \in 1 .. L - 1 : i \in 1 .. L /\ log[i] \in Trees
    BY <1>1
  <1> HIDE DEF L
  <1>4. /\ new \in Seq(Trees) /\ Len(new) = L - 1
        /\ \A i \in 1 .. L - 1 : new[i] = log[i]
    <2>1. L - 1 \in Nat
      BY <1>1
    <2> HIDE DEF new
    <2> QED BY <1>2, <1>3, <2>1
  <1> HIDE DEF new
  <1>5. \A i \in 1 .. L - 1 : Sound(new[i], w) /\ Within(new[i], A)
    BY <1>1, <1>3, <1>4
  <1>6. \A i \in 2 .. L - 1 : Change(n, new[i - 1], new[i], w)
    <2> TAKE i \in 2 .. L - 1
    <2>1. i \in 2 .. L /\ i - 1 \in 1 .. L - 1 /\ i \in 1 .. L - 1
      BY <1>1
    <2> QED BY <1>1, <1>4, <2>1
  <1>7. new[1] = log[1] /\ L - 1 >= 1
    BY <1>1, <1>4
  <1>8. LogOK(n, new, A, w)
    BY <1>1, <1>4, <1>5, <1>6, <1>7 DEF LogOK
  <1> QED BY <1>4, <1>8 DEF L, new

LEMMA OneTree ==
    ASSUME NEW n, NEW t \in Trees, NEW A, NEW w, Sound(t, w), Within(t, A),
           \A r \in Requests : At(t, r) # "none" =>
              r \in w.seen /\ Rank(w.remote[Req(r)]) >= Rank(t[Req(r)])
    PROVE  LogOK(n, <<t>>, A, w) /\ Len(<<t>>) = 1 /\ <<t>>[1] = t
  <1> DEFINE one == <<t>>
  <1>1. one \in Seq(Trees) /\ Len(one) = 1 /\ one[1] = t
    OBVIOUS
  <1> HIDE DEF one
  <1>2. \A i \in 1 .. 1 : one[i] = t
    BY <1>1
  <1>3. LogOK(n, one, A, w)
    BY <1>1, <1>2 DEF LogOK
  <1> QED BY <1>1, <1>3 DEF one

\* The world moves on: what was seen stays seen, and a request the remote knew
\* does not go back.
Onward(w, w2) ==
    /\ w.seen \subseteq w2.seen /\ w.answered \subseteq w2.answered /\ w.late \subseteq w2.late
    /\ w.now <= w2.now
    /\ \A r \in Requests : w.runs[r] <= w2.runs[r]
    /\ \A r \in w.seen :
          /\ Rank(w2.remote[Req(r)]) >= Rank(w.remote[Req(r)])
          /\ At(w.remote, r) = "none" => At(w2.remote, r) = "none"

LEMMA AccountedLater ==
    ASSUME NEW t, NEW w, NEW w2, Onward(w, w2), NEW r \in Requests, Accounted(t, w, r)
    PROVE  Accounted(t, w2, r)
  BY DEF Accounted, Onward

LEMMA SoundLater ==
    ASSUME NEW t, NEW w, NEW w2, Onward(w, w2), Sound(t, w)
    PROVE  Sound(t, w2)
  BY DEF Sound, SoundAt, Onward

LEMMA ChangeLater ==
    ASSUME NEW n, NEW p \in Trees, NEW q \in Trees, NEW w, NEW w2, WorldOK(w), WorldOK(w2),
           Onward(w, w2), n = OnPrem => w2.seen = w.seen, Sound(q, w), Change(n, p, q, w)
    PROVE  Change(n, p, q, w2)
  <1> SUFFICES ASSUME NEW r \in Requests PROVE ChangeAt(n, p, q, w2, r)
    BY DEF Change
  <1>1. ChangeAt(n, p, q, w, r) /\ SoundAt(q, r, w)
    BY DEF Change, Sound
  <1>2. /\ w.answered \subseteq w2.answered /\ w.late \subseteq w2.late
        /\ r \in w.seen /\ At(w.remote, r) = "none" => At(w2.remote, r) = "none"
    BY DEF Onward
  <1>3. Accounted(q, w, r) => Accounted(q, w2, r)
    BY AccountedLater
  <1>4. /\ Done(p, r) => Done(q, r) \/ r \in w2.answered
        /\ At(p, r) # "none" => Rank(q[Req(r)]) >= Rank(p[Req(r)]) /\ Accounted(q, w2, r)
    BY <1>1, <1>2, <1>3 DEF ChangeAt
  <1>5. ~ Done(p, r) /\ Done(q, r) =>
             n # OnPrem /\ (At(p, r) = "none" => At(w2.remote, r) = "none")
    BY <1>1, <1>2 DEF ChangeAt, SoundAt
  <1>6. At(p, r) = "none" /\ At(q, r) # "none" => n = OnPrem /\ r \notin w2.seen
    BY <1>1 DEF ChangeAt
  <1>7. p[Req(r)] \in Files /\ q[Req(r)] \in Files
    BY TreeFiles
  <1>8. At(p, r) = "claimed" /\ q[Req(r)] # p[Req(r)] =>
             \/ p[Req(r)].since < w2.now
             \/ n # OnPrem /\ p[Req(r)].by = n
             \/ r \in w2.late
    <2>1. w.now \in Nat /\ w2.now \in Nat /\ w.now <= w2.now /\ p[Req(r)].since \in Nat
      BY <1>7 DEF WorldOK, Onward, Files
    <2>2. p[Req(r)].since < w.now => p[Req(r)].since < w2.now
      BY <2>1
    <2> QED BY <1>1, <1>2, <2>2 DEF ChangeAt
  <1>9. \/ Cost(q[Req(r)]) <= Cost(p[Req(r)])
        \/ Cost(q[Req(r)]) <= w2.runs[r]
        \/ /\ At(q, r) = "claimed" /\ q[Req(r)] # p[Req(r)]
           /\ Cost(q[Req(r)]) <= Cost(p[Req(r)]) + 1
    <2>1. w.runs[r] \in Nat /\ w2.runs[r] \in Nat /\ w.runs[r] <= w2.runs[r]
      BY DEF WorldOK, Onward
    <2>2. Cost(q[Req(r)]) \in Nat
      BY <1>7, RankIs
    <2>3. Cost(q[Req(r)]) <= w.runs[r] => Cost(q[Req(r)]) <= w2.runs[r]
      BY <2>1, <2>2
    <2> QED BY <1>1, <2>3 DEF ChangeAt
  <1> QED BY <1>4, <1>5, <1>6, <1>8, <1>9 DEF ChangeAt

LEMMA LogLater ==
    ASSUME NEW n, NEW log, NEW A, NEW A2, NEW w, NEW w2, WorldOK(w), WorldOK(w2),
           Onward(w, w2), n = OnPrem => w2.seen = w.seen, A \subseteq A2, LogOK(n, log, A, w)
    PROVE  LogOK(n, log, A2, w2)
  <1> DEFINE L == Len(log)
  <1>1. /\ L \in Nat /\ L >= 1 /\ log \in Seq(Trees)
        /\ \A i \in 1 .. L : log[i] \in Trees /\ Sound(log[i], w) /\ Within(log[i], A)
        /\ \A r \in Requests : At(log[1], r) # "none" =>
              r \in w.seen /\ Rank(w.remote[Req(r)]) >= Rank(log[1][Req(r)])
        /\ \A i \in 2 .. L : Change(n, log[i - 1], log[i], w)
    BY DEF LogOK
  <1>2. \A i \in 1 .. L : Sound(log[i], w2) /\ Within(log[i], A2)
    <2> TAKE i \in 1 .. L
    <2>1. log[i] \in Trees /\ Sound(log[i], w) /\ Within(log[i], A)
      BY <1>1
    <2> QED BY <2>1, SoundLater DEF Within
  <1>3. ASSUME NEW r \in Requests, At(log[1], r) # "none"
        PROVE  r \in w2.seen /\ Rank(w2.remote[Req(r)]) >= Rank(log[1][Req(r)])
    <2>1. r \in w.seen /\ Rank(w.remote[Req(r)]) >= Rank(log[1][Req(r)]) /\ log[1] \in Trees
      BY <1>1, <1>3
    <2>2. r \in w2.seen /\ Rank(w2.remote[Req(r)]) >= Rank(w.remote[Req(r)])
      BY <2>1 DEF Onward
    <2>3. w.remote \in Trees /\ w2.remote \in Trees
      BY DEF WorldOK
    <2>4. /\ Rank(log[1][Req(r)]) \in 0 .. 3 /\ Rank(w.remote[Req(r)]) \in 0 .. 3
          /\ Rank(w2.remote[Req(r)]) \in 0 .. 3
      BY <2>1, <2>3, TreeFiles, RankIs
    <2> QED BY <2>1, <2>2, <2>4
  <1>4. \A i \in 2 .. L : Change(n, log[i - 1], log[i], w2)
    <2> TAKE i \in 2 .. L
    <2>1. i \in 1 .. L /\ i - 1 \in 1 .. L
      BY <1>1
    <2>2. log[i - 1] \in Trees /\ log[i] \in Trees /\ Sound(log[i], w) /\ Change(n, log[i - 1], log[i], w)
      BY <1>1, <2>1
    <2> QED BY <2>2, ChangeLater
  <1> HIDE DEF L
  <1> QED BY <1>1, <1>2, <1>3, <1>4 DEF LogOK, L

\* A clone that nobody touches is ready for what others do.
LEMMA ReadyLater ==
    ASSUME NEW n, NEW c, NEW c2 \in Clones, NEW A, NEW A2, NEW w, NEW w2,
           WorldOK(w), WorldOK(w2), Onward(w, w2), n = OnPrem => w2.seen = w.seen,
           A \subseteq A2, Ready(n, c, A, w), c2.log = c.log, c2.work = c.work,
           c2.current => c.current /\ w2.remote = w.remote
    PROVE  Ready(n, c2, A2, w2)
  <1>1. LogOK(n, c2.log, A2, w2)
    BY LogLater DEF Ready
  <1>2. c2.current => c2.log[1] = w2.remote
    BY DEF Ready
  <1>3. WorkOK(n, c2.log[Len(c2.log)], c2.work, w2, A2)
    <2>1. WorkOK(n, c2.log[Len(c2.log)], c2.work, w, A)
      BY DEF Ready
    <2>2. w.answered \subseteq w2.answered
      BY DEF Onward
    <2> DEFINE tip == c2.log[Len(c2.log)]
               wk == c2.work
    <2>3. CASE n # OnPrem
      <3>1. wk = tip
        BY <2>1, <2>3 DEF WorkOK
      <3> HIDE DEF tip, wk
      <3> QED BY <2>3, <3>1 DEF WorkOK, tip, wk
    <2>4. CASE n = OnPrem
      <3>1. WorkOK(n, tip, wk, w, A)
        BY <2>1
      <3> HIDE DEF tip, wk
      <3>2. WorkOK(n, tip, wk, w2, A2)
        BY <2>2, <2>4, <3>1 DEF WorkOK
      <3> QED BY <3>2 DEF tip, wk
    <2> QED BY <2>3, <2>4
  <1> QED BY <1>1, <1>2, <1>3 DEF Ready

\* What a push of a log does to the world, and what the pusher is left with.
PushOK(n, log, A, w, w2) ==
    /\ WorldOK(w2) /\ Onward(w, w2) /\ w2.seen \subseteq A
    /\ n # OnPrem => w2.seen = w.seen
    /\ \A r \in Requests :
          /\ At(w.remote, r) = "claimed" /\ ~ (w.remote[Req(r)].since < w.now) /\ r \notin w.late
          /\ n = OnPrem \/ w.remote[Req(r)].by # n
          => w2.remote[Req(r)] = w.remote[Req(r)]
    /\ LogOK(n, <<log[Len(log)]>>, A, w2)

\* w2 is the world w after the push of log.
PushedTo(log, w, w2) ==
    /\ w2.remote = log[Len(log)]
    /\ w2.seen = w.seen \cup {r \in Requests : At(log[Len(log)], r) # "none"}
    /\ w2.runs = [r \in Requests |-> w.runs[r] + Cardinality(ClaimsIn(log, r))]
    /\ w2.now = w.now /\ w2.late = w.late /\ w2.answered = w.answered

LEMMA Pushed ==
    ASSUME NEW n, NEW log, NEW A, NEW w, NEW w2, LogOK(n, log, A, w), WorldOK(w),
           log[1] = w.remote, w.seen \subseteq A, n # OnPrem => A = w.seen, PushedTo(log, w, w2)
    PROVE  PushOK(n, log, A, w, w2)
  <1> DEFINE L == Len(log)
             tip == log[L]
  <1>1. /\ L \in Nat /\ L \in 1 .. L /\ tip \in Trees /\ Sound(tip, w) /\ Within(tip, A)
        /\ w.remote \in Trees
    BY LogTrees DEF LogOK, WorldOK
  <1>2. /\ w.seen \subseteq Requests /\ w.answered \subseteq w.seen
        /\ w.runs \in [Requests -> Nat] /\ w.now \in Nat
    BY DEF WorldOK
  <1>3. \A r \in Requests : AlongOK(n, w.remote, tip, w, r)
    BY <1>1, <1>2, AlongTheLog
  <1>4. /\ w2.remote = tip /\ w2.seen = w.seen \cup {r \in Requests : At(tip, r) # "none"}
        /\ w2.now = w.now /\ w2.late = w.late /\ w2.answered = w.answered
        /\ w2.runs = [r \in Requests |-> w.runs[r] + Cardinality(ClaimsIn(log, r))]
    BY DEF PushedTo
  <1>5. \A r \in Requests :
          /\ Cardinality(ClaimsIn(log, r)) \in Nat
          /\ Cost(tip[Req(r)]) <= w.runs[r] + Cardinality(ClaimsIn(log, r))
    <2> TAKE r \in Requests
    <2>1. w.runs[r] \in Nat /\ Cost(log[1][Req(r)]) <= w.runs[r]
      BY DEF WorldOK
    <2> QED BY <2>1, ClaimsPay
  <1> HIDE DEF L, tip
  <1>6. \A r \in Requests : /\ w2.runs[r] = w.runs[r] + Cardinality(ClaimsIn(log, r))
                            /\ w.runs[r] \in Nat /\ w2.runs[r] \in Nat /\ w.runs[r] <= w2.runs[r]
    BY <1>2, <1>4, <1>5
  <1>7. w2.runs \in [Requests -> Nat]
    BY <1>4, <1>6
  <1>8. Onward(w, w2)
    <2>1. \A r \in w.seen :
            /\ Rank(w2.remote[Req(r)]) >= Rank(w.remote[Req(r)])
            /\ At(w.remote, r) = "none" => At(w2.remote, r) = "none"
      BY <1>2, <1>3, <1>4 DEF AlongOK
    <2> QED BY <1>2, <1>4, <1>6, <2>1 DEF Onward
  <1>9. Sound(tip, w2)
    BY <1>1, <1>8, SoundLater
  <1>10. WorldOK(w2)
    <2>1. w2.seen \subseteq Requests /\ w2.answered \subseteq w2.seen /\ w2.now \in Nat
      BY <1>2, <1>4
    <2>2. Within(w2.remote, w2.seen)
      BY <1>4 DEF Within
    <2>3. \A r \in Requests : Cost(w2.remote[Req(r)]) <= w2.runs[r]
      BY <1>4, <1>5, <1>6
    <2>4. \A r \in w2.seen : Accounted(w2.remote, w2, r)
      <3> TAKE r \in w2.seen
      <3>1. CASE At(tip, r) # "none"
        BY <1>4, <3>1 DEF Accounted
      <3>2. CASE At(tip, r) = "none"
        <4>1. r \in w.seen /\ r \in Requests
          BY <1>2, <1>4, <3>2
        <4>2. Accounted(w.remote, w, r)
          BY <4>1 DEF WorldOK
        <4>3. Accounted(tip, w, r)
          BY <1>3, <4>1, <4>2 DEF AlongOK
        <4> QED BY <1>4, <1>8, <4>1, <4>3, AccountedLater
      <3> QED BY <3>1, <3>2
    <2> QED BY <1>1, <1>4, <1>7, <1>9, <2>1, <2>2, <2>3, <2>4 DEF WorldOK
  <1>11. w2.seen \subseteq A /\ (n # OnPrem => w2.seen = w.seen)
    BY <1>1, <1>4 DEF Within
  <1>12. \A r \in Requests :
          /\ At(w.remote, r) = "claimed" /\ ~ (w.remote[Req(r)].since < w.now) /\ r \notin w.late
          /\ n = OnPrem \/ w.remote[Req(r)].by # n
          => w2.remote[Req(r)] = w.remote[Req(r)]
    BY <1>3, <1>4 DEF AlongOK
  <1>13. LogOK(n, <<tip>>, A, w2)
    <2>1. \A r \in Requests : At(tip, r) # "none" =>
            r \in w2.seen /\ Rank(w2.remote[Req(r)]) >= Rank(tip[Req(r)])
      <3> TAKE r \in Requests
      <3>1. Rank(tip[Req(r)]) \in 0 .. 3
        BY <1>1, TreeFiles, RankIs
      <3> QED BY <1>4, <3>1
    <2> QED BY <1>1, <1>9, <2>1, OneTree
  <1> QED BY <1>8, <1>10, <1>11, <1>12, <1>13 DEF PushOK, L, tip

\* What a commit of node n may be: a tree that changes the last one.
LEMMA CommitReady ==
    ASSUME NEW n, NEW c, NEW A, NEW w, Ready(n, c, A, w), NEW q \in Trees,
           Sound(q, w), Within(q, A), Change(n, c.log[Len(c.log)], q, w)
    PROVE  LET d == Commit(c, q)
               L == Len(c.log)
           IN  /\ Ready(n, d, A, w)
               /\ d.work = q /\ d.log[Len(d.log)] = q /\ d.current = c.current
               /\ d.log[1] = c.log[1]
               /\ q = c.log[L] => d.log = c.log
               /\ q # c.log[L] => Len(d.log) = L + 1 /\ d.log[L] = c.log[L]
               /\ Len(d.log) >= L /\ \A i \in 1 .. L : d.log[i] = c.log[i]
  <1> DEFINE d == Commit(c, q)
             L == Len(c.log)
             log == IF q = c.log[L] THEN c.log ELSE Append(c.log, q)
  <1>1. c \in Clones /\ LogOK(n, c.log, A, w) /\ (c.current => c.log[1] = w.remote)
    BY DEF Ready
  <1>2. L \in Nat /\ L >= 1 /\ c.log[L] \in Trees /\ c.log \in Seq(Trees)
    BY <1>1, LogTrees DEF LogOK
  <1>3. d.log = log /\ d.work = q /\ d.current = c.current /\ d.stopped = c.stopped
    BY <1>1 DEF Commit, Clones
  <1>4. /\ LogOK(n, Append(c.log, q), A, w)
        /\ Len(Append(c.log, q)) = L + 1
        /\ \A i \in 1 .. L : Append(c.log, q)[i] = c.log[i]
        /\ Append(c.log, q)[L + 1] = q
    BY <1>1, Committed
  <1>5. /\ LogOK(n, log, A, w) /\ log[Len(log)] = q /\ Len(log) >= L
        /\ \A i \in 1 .. L : log[i] = c.log[i]
        /\ q # c.log[L] => Len(log) = L + 1
    <2>1. CASE q = c.log[L]
      BY <1>1, <1>2, <2>1
    <2>2. CASE q # c.log[L]
      <3>1. log = Append(c.log, q)
        BY <2>2
      <3> HIDE DEF log, L
      <3> QED BY <1>2, <1>4, <2>2, <3>1
    <2> QED BY <2>1, <2>2
  <1>6. d \in Clones
    <2>1. d = [log |-> log, work |-> q, current |-> c.current, stopped |-> c.stopped]
      <3> HIDE DEF log
      <3>1. Commit(c, q) = [c EXCEPT !.log = log, !.work = q]
        BY DEF Commit, log, L
      <3> QED BY <1>1, <3>1 DEF Clones
    <2>2. log \in Seq(Trees)
      BY <1>5 DEF LogOK
    <2> HIDE DEF log, d
    <2> QED BY <1>1, <2>1, <2>2 DEF Clones
  <1>7. q = c.log[L] => log = c.log
    OBVIOUS
  <1> HIDE DEF d, log
  <1>8. WorkOK(n, d.log[Len(d.log)], d.work, w, A)
    BY <1>3, <1>5 DEF WorkOK
  <1>9. d.log[1] = c.log[1] /\ d.log[L] = c.log[L]
    <2>1. 1 \in 1 .. L /\ L \in 1 .. L
      BY <1>2
    <2> QED BY <1>3, <1>5, <2>1
  <1>10. Ready(n, d, A, w)
    BY <1>1, <1>3, <1>5, <1>6, <1>8, <1>9 DEF Ready
  <1> QED BY <1>3, <1>5, <1>7, <1>9, <1>10 DEF d, L

\* A clone whose working tree is its last commit.
LEMMA CleanReady ==
    ASSUME NEW n, NEW c \in Clones, NEW A, NEW w, LogOK(n, c.log, A, w),
           c.work = c.log[Len(c.log)], c.current => c.log[1] = w.remote
    PROVE  Ready(n, c, A, w)
  BY DEF Ready, WorkOK

\* The push leaves what the working tree holds as it was.
LEMMA WorkPushed ==
    ASSUME NEW n, NEW log, NEW A, NEW w, NEW w2, PushedTo(log, w, w2), NEW wk,
           WorkOK(n, log[Len(log)], wk, w, A)
    PROVE  WorkOK(n, log[Len(log)], wk, w2, A)
  <1> DEFINE tip == log[Len(log)]
  <1>1. /\ w2.seen = w.seen \cup {r \in Requests : At(tip, r) # "none"}
        /\ w2.answered = w.answered
    BY DEF PushedTo
  <1>2. WorkOK(n, tip, wk, w, A)
    OBVIOUS
  <1> HIDE DEF tip
  <1>3. ASSUME NEW r \in Requests, wk[Req(r)] # tip[Req(r)]
        PROVE  At(tip, r) = "none" /\ r \notin w2.seen /\ r \in A /\ wk[Req(r)] = First
    <2>1. At(tip, r) = "none" /\ r \notin w.seen /\ r \in A /\ wk[Req(r)] = First
      BY <1>2, <1>3 DEF WorkOK
    <2> QED BY <1>1, <2>1
  <1>4. ASSUME NEW r \in Requests, wk[Res(r)] # tip[Res(r)]
        PROVE  Done(tip, r) /\ r \in w2.answered /\ wk[Res(r)].at \in {"none", "failed"}
    BY <1>1, <1>2, <1>4 DEF WorkOK
  <1>5. n # OnPrem => wk = tip
    BY <1>2 DEF WorkOK
  <1>6. WorkOK(n, tip, wk, w2, A)
    BY <1>3, <1>4, <1>5 DEF WorkOK
  <1> QED BY <1>6 DEF tip

\* A clone that pulled.
LEMMA PulledReady ==
    ASSUME NEW n, NEW c, NEW A, NEW w, Ready(n, c, A, w), WorldOK(w), w.seen \subseteq A,
           NEW favor, NEW a, Replayable(n, c.log, favor, a, w), ~ Stops(c.log, w.remote, favor),
           \A f \in Names : c.log[Len(c.log)][f].at # "none" => c.work[f] = c.log[Len(c.log)][f],
           NEW new, new = Rebase(c.log, w.remote, favor),
           NEW wk, wk = [f \in Names |-> IF c.work[f] = c.log[Len(c.log)][f]
                                         THEN new[Len(new)][f] ELSE c.work[f]]
    PROVE  Ready(n, [c EXCEPT !.log = new, !.current = TRUE, !.work = wk], A, w)
  <1> DEFINE L == Len(c.log)
             tip == c.log[L]
             tip2 == new[L]
             d == [c EXCEPT !.log = new, !.current = TRUE, !.work = wk]
  <1>1. c \in Clones /\ LogOK(n, c.log, A, w) /\ WorkOK(n, tip, c.work, w, A)
    BY DEF Ready
  <1>2. RebaseOK(n, c.log, new, A, w)
    BY <1>1, RebasedLog
  <1>3. /\ LogOK(n, new, A, w) /\ Len(new) = L /\ new[1] = w.remote
        /\ \A i \in 1 .. L : Follows(new[i], c.log[i], w)
    BY <1>2 DEF RebaseOK
  <1>4. /\ L \in Nat /\ L \in 1 .. L /\ tip \in Trees /\ tip2 \in Trees /\ Sound(tip2, w)
        /\ new \in Seq(Trees) /\ c.work \in Trees
    <2>1. L \in Nat /\ L \in 1 .. L /\ tip \in Trees
      BY <1>1, LogTrees
    <2>2. tip2 \in Trees
      BY <1>3, <2>1, LogTrees
    <2>3. Sound(tip2, w) /\ new \in Seq(Trees)
      BY <1>3, <2>1 DEF LogOK
    <2> QED BY <1>1, <2>1, <2>2, <2>3 DEF Clones
  <1>5. Follows(tip2, tip, w)
    BY <1>3, <1>4
  <1>6. wk = [f \in Names |-> IF c.work[f] = tip[f] THEN tip2[f] ELSE c.work[f]]
    BY <1>3
  <1>7. \A f \in Names : tip[f].at # "none" => c.work[f] = tip[f]
    OBVIOUS
  <1> HIDE DEF tip, tip2, L
  <1>8. wk \in Trees
    <2>1. \A f \in Names : tip2[f] \in Files /\ c.work[f] \in Files
      BY <1>4 DEF Trees
    <2> QED BY <1>6, <2>1 DEF Trees
  <1>9. d = [log |-> new, work |-> wk, current |-> TRUE, stopped |-> c.stopped] /\ d \in Clones
    <2>1. d = [log |-> new, work |-> wk, current |-> TRUE, stopped |-> c.stopped]
      <3>1. c \in Clones /\ d = [c EXCEPT !.log = new, !.current = TRUE, !.work = wk]
        BY <1>1
      <3> HIDE DEF d
      <3> QED BY ONLY <3>1 DEF Clones
    <2>2. c.stopped \in BOOLEAN
      BY <1>1 DEF Clones
    <2> HIDE DEF d
    <2> QED BY <1>4, <1>8, <2>1, <2>2 DEF Clones
  <1>10. WorkOK(n, tip2, wk, w, A)
    <2>1. n # OnPrem => wk = tip2
      <3>1. n # OnPrem => c.work = tip
        BY <1>1 DEF WorkOK
      <3>2. n # OnPrem => wk = [f \in Names |-> tip2[f]]
        BY <1>6, <3>1
      <3> QED BY <1>4, <3>2 DEF Trees
    <2>2. ASSUME NEW r \in Requests, wk[Req(r)] # tip2[Req(r)]
          PROVE  At(tip2, r) = "none" /\ r \notin w.seen /\ r \in A /\ wk[Req(r)] = First
      <3>1. Req(r) \in Names
        BY <1>4, TreeFiles
      <3>2. c.work[Req(r)] # tip[Req(r)] /\ wk[Req(r)] = c.work[Req(r)]
        BY <1>6, <2>2, <3>1
      <3>3. At(tip, r) = "none" /\ r \notin w.seen /\ r \in A /\ c.work[Req(r)] = First
        BY <1>1, <3>2 DEF WorkOK
      <3>4. At(tip2, r) = "none"
        BY <1>5, <3>3 DEF Follows, FollowsAt, At
      <3> QED BY <3>2, <3>3, <3>4
    <2>3. ASSUME NEW r \in Requests, wk[Res(r)] # tip2[Res(r)]
          PROVE  FALSE
      <3>1. Res(r) \in Names
        BY <1>4, TreeFiles
      <3>2. c.work[Res(r)] # tip[Res(r)]
        BY <1>6, <2>3, <3>1
      <3>3. tip[Res(r)].at # "none"
        BY <1>1, <3>2 DEF WorkOK, Done
      <3> QED BY <1>7, <3>1, <3>2, <3>3
    <2> QED BY <2>1, <2>2, <2>3 DEF WorkOK
  <1> HIDE DEF d
  <1>11. WorkOK(n, d.log[Len(d.log)], d.work, w, A)
    BY <1>3, <1>9, <1>10 DEF tip2
  <1>12. Ready(n, d, A, w)
    BY <1>3, <1>9, <1>11 DEF Ready
  <1> QED BY <1>12 DEF d

\* What the working tree may hold, said of the tree itself.
WorkFacts(n, tip, wk, w, A) ==
    /\ Sound(wk, w) /\ Within(wk, A) /\ Change(n, tip, wk, w)
    /\ \A r \in Requests :
          /\ At(tip, r) # "none" => wk[Req(r)] = tip[Req(r)]
          /\ r \in w.seen => wk[Req(r)] = tip[Req(r)]
          /\ wk[Req(r)] # tip[Req(r)] => wk[Req(r)] = First /\ n = OnPrem /\ r \notin w.seen
          /\ Done(wk, r) => Done(tip, r)
          /\ wk[Res(r)].at = "results" => wk[Res(r)] = tip[Res(r)]

LEMMA WorkIs ==
    ASSUME NEW n, NEW tip \in Trees, NEW wk \in Trees, NEW w, NEW A, WorkOK(n, tip, wk, w, A),
           Sound(tip, w), Within(tip, A)
    PROVE  WorkFacts(n, tip, wk, w, A)
  <1>1. ASSUME NEW r \in Requests
        PROVE  /\ At(tip, r) # "none" => wk[Req(r)] = tip[Req(r)]
               /\ r \in w.seen => wk[Req(r)] = tip[Req(r)]
               /\ wk[Req(r)] # tip[Req(r)] =>
                     wk[Req(r)] = First /\ n = OnPrem /\ r \notin w.seen /\ r \in A
               /\ Done(wk, r) => Done(tip, r)
               /\ Done(tip, r) => Done(wk, r) \/ r \in w.answered
               /\ wk[Res(r)].at = "results" => wk[Res(r)] = tip[Res(r)]
               /\ wk[Res(r)].at \in {"none", "results", "failed"}
    BY <1>1 DEF WorkOK, Done, Sound, SoundAt
  <1>2. ASSUME NEW r \in Requests PROVE SoundAt(wk, r, w) /\ (At(wk, r) # "none" => r \in A)
    <2>1. SoundAt(tip, r, w) /\ (At(tip, r) # "none" => r \in A)
      BY DEF Sound, Within
    <2>2. CASE wk[Req(r)] = tip[Req(r)]
      BY <1>1, <2>1, <2>2 DEF SoundAt, At
    <2>3. CASE wk[Req(r)] # tip[Req(r)]
      <3>1. wk[Req(r)] = First /\ r \notin w.seen /\ r \in A
        BY <1>1, <2>3
      <3>2. ~ Done(wk, r)
        BY <1>1, <2>1, <3>1 DEF SoundAt
      <3> QED BY <1>1, <3>1, <3>2, SomeFiles DEF SoundAt, At
    <2> QED BY <2>2, <2>3
  <1>3. ASSUME NEW r \in Requests PROVE ChangeAt(n, tip, wk, w, r)
    <2>1. SoundAt(tip, r, w) /\ tip[Req(r)] \in Files
      BY TreeFiles DEF Sound
    <2>2. /\ Rank(tip[Req(r)]) \in 0 .. 3 /\ Cost(tip[Req(r)]) \in Nat
      BY <2>1, RankIs
    <2>3. CASE wk[Req(r)] = tip[Req(r)]
      BY <1>1, <2>1, <2>2, <2>3 DEF ChangeAt, At, Accounted
    <2>4. CASE wk[Req(r)] # tip[Req(r)]
      <3>1. /\ wk[Req(r)] = First /\ r \notin w.seen /\ n = OnPrem /\ At(tip, r) = "none"
            /\ tip[Req(r)] = NoFile
        BY <1>1, <2>1, <2>4 DEF SoundAt
      <3>2. Cost(First) = 0 /\ Cost(NoFile) = 0
        BY SomeFiles, RankIs
      <3> QED BY <1>1, <3>1, <3>2 DEF ChangeAt
    <2> QED BY <2>3, <2>4
  <1> QED BY <1>1, <1>2, <1>3 DEF Sound, Within, Change, WorkFacts

-----------------------------------------------------------------------------
(* What the commands write.                                                *)

LEMMA FileGivenBack ==
    ASSUME NEW f \in Files, f.at = "claimed", NEW g, g = GivenBack(f)
    PROVE  /\ g \in Files /\ g.at \in {"pending", "failed"} /\ g # First /\ g # f
           /\ g.at = "pending" => g = Again
           /\ Rank(g) >= Rank(f) /\ Cost(g) <= Cost(f)
  <1>1. /\ f.attempts \in Nat /\ f.by \in Researchers \cup {NoOne} /\ f.since \in Nat
    BY DEF Files
  <1>2. Again = [at |-> "pending", attempts |-> 1, by |-> NoOne, since |-> 0]
    <2> DEFINE x == [at |-> "pending", attempts |-> 1, by |-> NoOne, since |-> 0]
    <2>1. /\ x \in Files /\ x.at = "pending" /\ x.attempts = 1 /\ x.by = NoOne /\ x.since = 0
      BY DEF Files
    <2> HIDE DEF x
    <2>2. Again = x
      BY <2>1, SomeFiles, FilesEqual
    <2> QED BY <2>2 DEF x
  <1>3. First.attempts = 0 /\ First.at = "pending"
    BY SomeFiles
  <1>4. CASE f.attempts + 1 >= MAX_REQUEST_ATTEMPTS
    <2>1. g = [at |-> "failed", attempts |-> f.attempts + 1, by |-> f.by, since |-> f.since]
      <3>1. g = [f EXCEPT !.at = "failed", !.attempts = @ + 1]
        BY <1>4 DEF GivenBack
      <3>2. f \in Files
        OBVIOUS
      <3> QED BY ONLY <3>1, <3>2 DEF Files
    <2>2. g \in Files /\ g.at = "failed" /\ g.attempts = f.attempts + 1
      BY <1>1, <2>1 DEF Files
    <2> HIDE <2>1
    <2> QED BY <1>3, <2>2, RankIs
  <1>5. CASE ~ (f.attempts + 1 >= MAX_REQUEST_ATTEMPTS)
    <2>1. f.attempts = 0
      BY <1>1, <1>5 DEF MAX_REQUEST_ATTEMPTS
    <2>2. g = Again
      BY <1>2, <1>5, <2>1 DEF GivenBack
    <2> QED BY <1>1, <1>3, <2>1, <2>2, SomeFiles, RankIs
  <1> QED BY <1>4, <1>5

\* The claims reclaimed.
LEMMA ReclaimTree ==
    ASSUME NEW n, NEW tip \in Trees, NEW wk \in Trees, NEW w, NEW A, WorkOK(n, tip, wk, w, A),
           Sound(tip, w), Within(tip, A), NEW q,
           q = [f \in Names |-> IF wk[f].at = "claimed" /\ w.now > wk[f].since
                                THEN GivenBack(wk[f]) ELSE wk[f]],
           w.now \in Nat
    PROVE  /\ q \in Trees /\ Sound(q, w) /\ Within(q, A) /\ Change(n, tip, q, w)
           /\ \A r \in Requests : At(tip, r) # "none" => At(q, r) # "none"
           /\ \A r \in Requests : At(tip, r) = "none" => q[Req(r)] = wk[Req(r)]
           /\ (\E f \in Names : wk[f].at = "claimed" /\ w.now > wk[f].since) => q # tip
  <1>1. \A f \in Names : wk[f] \in Files
    BY DEF Trees
  <1>2. /\ Sound(wk, w) /\ Within(wk, A) /\ Change(n, tip, wk, w)
        /\ \A r \in Requests :
              /\ At(tip, r) # "none" => wk[Req(r)] = tip[Req(r)]
              /\ wk[Req(r)] # tip[Req(r)] => wk[Req(r)] = First
    <2>1. WorkFacts(n, tip, wk, w, A)
      BY WorkIs
    <2> QED BY <2>1 DEF WorkFacts
  <1>3. q \in Trees
    <2>1. \A f \in Names : wk[f].at = "claimed" => GivenBack(wk[f]) \in Files
      BY <1>1, FileGivenBack
    <2> QED BY <1>1, <2>1 DEF Trees
  <1>4. ASSUME NEW r \in Requests
        PROVE  /\ q[Res(r)] = wk[Res(r)]
               /\ \/ q[Req(r)] = wk[Req(r)]
                  \/ /\ wk[Req(r)].at = "claimed" /\ wk[Req(r)].since < w.now
                     /\ q[Req(r)] = GivenBack(wk[Req(r)])
    <2>1. Req(r) \in Names /\ Res(r) \in Names /\ wk[Req(r)] \in Files
      BY TreeFiles
    <2>2. wk[Res(r)].at # "claimed"
      BY <1>2 DEF Sound, SoundAt
    <2>3. wk[Req(r)].since \in Nat
      BY <2>1 DEF Files
    <2> QED BY <2>1, <2>2, <2>3
  <1>5. ASSUME NEW r \in Requests
        PROVE  /\ SoundAt(q, r, w) /\ (At(q, r) # "none" => r \in A) /\ ChangeAt(n, tip, q, w, r)
               /\ At(tip, r) # "none" => At(q, r) # "none"
               /\ At(tip, r) = "none" => q[Req(r)] = wk[Req(r)]
    <2>1. /\ SoundAt(wk, r, w) /\ (At(wk, r) # "none" => r \in A) /\ ChangeAt(n, tip, wk, w, r)
          /\ At(tip, r) # "none" => wk[Req(r)] = tip[Req(r)]
      BY <1>2 DEF Sound, Within, Change
    <2>2. CASE q[Req(r)] = wk[Req(r)]
      <3>1. q[Res(r)] = wk[Res(r)]
        BY <1>4
      <3>2. At(tip, r) # "none" => Accounted(q, w, r)
        BY <2>1, <2>2 DEF Accounted, At
      <3> QED BY <2>1, <2>2, <3>1, <3>2 DEF SoundAt, ChangeAt, At, Done
    <2>3. CASE q[Req(r)] # wk[Req(r)]
      <3> DEFINE f == wk[Req(r)]
                 g == q[Req(r)]
      <3>1. f.at = "claimed" /\ f.since < w.now /\ g = GivenBack(f) /\ f \in Files
            /\ q[Res(r)] = wk[Res(r)]
        BY <1>4, <2>3, TreeFiles
      <3>2. tip[Req(r)] = f
        BY <1>2, <3>1, SomeFiles
      <3>3. /\ g \in Files /\ g.at \in {"pending", "failed"} /\ g # First /\ g # f
            /\ g.at = "pending" => g = Again
            /\ Rank(g) >= Rank(f) /\ Cost(g) <= Cost(f)
        BY <3>1, FileGivenBack
      <3>4. ~ Done(wk, r) /\ ~ Done(q, r) /\ At(tip, r) = "claimed" /\ At(wk, r) = "claimed"
        BY <2>1, <3>1, <3>2 DEF SoundAt, Done, At
      <3>5. /\ wk[Res(r)].at \in {"none", "results", "failed"}
            /\ Done(tip, r) => Done(wk, r) \/ r \in w.answered
        BY <2>1 DEF SoundAt, ChangeAt
      <3>6. At(q, r) = g.at /\ At(q, r) # "none"
        BY <3>3 DEF At
      <3>7. SoundAt(q, r, w)
        BY <3>1, <3>3, <3>4, <3>5, <3>6 DEF SoundAt
      <3>8. ChangeAt(n, tip, q, w, r)
        <4>1. Accounted(q, w, r)
          BY <3>6 DEF Accounted
        <4> HIDE DEF f, g
        <4> QED BY <3>1, <3>2, <3>3, <3>4, <3>5, <3>6, <4>1 DEF ChangeAt, g
      <3> QED BY <2>1, <3>4, <3>6, <3>7, <3>8
    <2> QED BY <2>2, <2>3
  <1>6. (\E f \in Names : wk[f].at = "claimed" /\ w.now > wk[f].since) => q # tip
    <2> SUFFICES ASSUME NEW f \in Names, wk[f].at = "claimed", w.now > wk[f].since
                 PROVE  q # tip
      OBVIOUS
    <2>1. PICK r \in Requests : f = Req(r) \/ f = Res(r)
      BY NamesAre
    <2>2. f = Req(r)
      BY <1>2, <2>1 DEF Sound, SoundAt
    <2>3. wk[f] = tip[f]
      BY <1>2, <2>2, SomeFiles
    <2>4. q[f] = GivenBack(wk[f]) /\ wk[f] \in Files
      BY <1>1
    <2>5. q[f] # wk[f]
      BY <2>4, FileGivenBack
    <2> QED BY <2>3, <2>5
  <1> QED BY <1>3, <1>5, <1>6 DEF Sound, Within, Change

\* A claim: the request is taken, and the older ones of its page go.
ClaimedOK(n, tip, q, r, w) ==
    /\ q \in Trees /\ Sound(q, w) /\ Within(q, w.seen) /\ Change(n, tip, q, w)
    /\ q # tip /\ r \in w.seen /\ q[Req(r)] \in Files
    /\ q[Req(r)].at = "claimed" /\ q[Req(r)].by = n /\ q[Req(r)].since = w.now

LEMMA ClaimTree ==
    ASSUME NEW n, n # OnPrem, n \in Researchers, NEW tip \in Trees, NEW w, Sound(tip, w),
           Within(tip, w.seen), w.now \in Nat, NEW r \in Requests, At(tip, r) = "pending",
           NEW q, q = [Without(tip, Older(r, tip)) EXCEPT
                          ![Req(r)] = [at |-> "claimed", attempts |-> tip[Req(r)].attempts,
                                       by |-> n, since |-> w.now]]
    PROVE  ClaimedOK(n, tip, q, r, w)
  <1> DEFINE file == [at |-> "claimed", attempts |-> tip[Req(r)].attempts,
                      by |-> n, since |-> w.now]
             old == Older(r, tip)
  <1>0. q = [Without(tip, old) EXCEPT ![Req(r)] = file]
    OBVIOUS
  <1> DEFINE f == tip[Req(r)]
  <1>1. f \in Files /\ f.at = "pending" /\ f \in {First, Again} /\ r \in w.seen
    BY TreeFiles DEF At, Sound, SoundAt, Within
  <1>4. /\ file \in Files /\ file.at = "claimed" /\ file.by = n /\ file.since = w.now
        /\ file.attempts = f.attempts
    BY <1>1 DEF Files
  <1> HIDE DEF file
  <1>5. old \subseteq Requests /\ r \notin old
        /\ \A s \in old : s \in Requests /\ At(tip, s) = "pending" /\ KeyOf[s] = KeyOf[r] /\ s < r
    <2>1. r \in Nat
      BY ExchangeAssumption
    <2> QED BY <2>1 DEF Older, Waiting, At
  <1> HIDE DEF old
  <1>6. /\ q \in Trees
        /\ \A s \in Requests :
              /\ q[Res(s)] = tip[Res(s)]
              /\ q[Req(s)] = IF s = r THEN file ELSE IF s \in old THEN NoFile ELSE tip[Req(s)]
    <2> DEFINE t == Without(tip, old)
    <2>1. t = [g \in Names |-> IF g[1] = "request" /\ g[2] \in old THEN NoFile ELSE tip[g]]
      BY DEF Without
    <2>2. t \in Trees
      <3>1. \A g \in Names : tip[g] \in Files
        BY DEF Trees
      <3> HIDE DEF t
      <3> QED BY <2>1, <3>1, SomeFiles DEF Trees
    <2>3. q = [t EXCEPT ![Req(r)] = file]
      BY <1>0
    <2> HIDE DEF t
    <2>4. q \in Trees
      BY <1>4, <2>2, <2>3 DEF Trees
    <2>5. ASSUME NEW s \in Requests
          PROVE  /\ q[Res(s)] = tip[Res(s)]
                 /\ q[Req(s)] = IF s = r THEN file ELSE IF s \in old THEN NoFile ELSE tip[Req(s)]
      <3>1. Req(s) \in Names /\ Res(s) \in Names /\ Req(r) \in Names
        BY TreeFiles
      <3>2. /\ Req(r) # Res(s) /\ (Req(r) = Req(s) => r = s)
            /\ Req(s)[1] = "request" /\ Req(s)[2] = s /\ Res(s)[1] = "result"
        BY NamesDiffer
      <3>3. t[Res(s)] = tip[Res(s)] /\ t[Req(s)] = IF s \in old THEN NoFile ELSE tip[Req(s)]
        BY <2>1, <3>1, <3>2
      <3>4. /\ DOMAIN t = Names
        BY <2>2 DEF Trees
      <3> QED BY <2>3, <3>1, <3>2, <3>3, <3>4
    <2> QED BY <2>4, <2>5
  <1> HIDE DEF f
  <1>7. ASSUME NEW s \in Requests
        PROVE  /\ SoundAt(q, s, w) /\ (At(q, s) # "none" => s \in w.seen)
               /\ ChangeAt(n, tip, q, w, s)
    <2>1. /\ SoundAt(tip, s, w) /\ (At(tip, s) # "none" => s \in w.seen)
          /\ tip[Req(s)] \in Files /\ q[Res(s)] = tip[Res(s)]
      BY <1>6, TreeFiles DEF Sound, Within
    <2>2. Rank(tip[Req(s)]) \in 0 .. 3 /\ Cost(tip[Req(s)]) \in Nat
      BY <2>1, RankIs
    <2>3. CASE s # r /\ s \notin old
      <3>1. q[Req(s)] = tip[Req(s)]
        BY <1>6, <2>3
      <3> QED BY <2>1, <2>2, <3>1 DEF SoundAt, ChangeAt, At, Done, Accounted
    <2>4. CASE s = r
      <3>1. q[Req(s)] = file /\ tip[Req(s)] = f
        BY <1>6, <2>4 DEF f
      <3>2. At(q, s) = "claimed" /\ At(tip, s) = "pending" /\ ~ Done(tip, s) /\ ~ Done(q, s)
        BY <1>1, <1>4, <2>1, <3>1 DEF At, SoundAt, Done
      <3>3. SoundAt(q, s, w)
        BY <2>1, <3>2 DEF SoundAt
      <3>4. Rank(file) = 1 /\ Cost(file) = f.attempts + 1 /\ Cost(f) = f.attempts /\ Rank(f) <= 1
            /\ f.attempts \in Nat /\ file # f
        BY <1>1, <1>4, RankIs DEF Files
      <3>5. Accounted(q, w, s)
        BY <3>2 DEF Accounted
      <3>6. Rank(f) \in 0 .. 3
        BY <1>1, RankIs
      <3>7. ChangeAt(n, tip, q, w, s)
        BY <3>1, <3>2, <3>4, <3>5, <3>6 DEF ChangeAt
      <3> QED BY <1>1, <2>4, <3>3, <3>7
    <2>5. CASE s \in old
      <3>1. q[Req(s)] = NoFile /\ At(tip, s) = "pending" /\ KeyOf[s] = KeyOf[r] /\ s < r
        BY <1>5, <1>6, <2>5
      <3>2. At(q, s) = "none" /\ ~ Done(tip, s) /\ ~ Done(q, s)
        BY <2>1, <3>1, SomeFiles DEF At, SoundAt, Done
      <3>3. Rank(NoFile) = 3 /\ Cost(NoFile) = 0
        BY SomeFiles, RankIs
      <3>4. Accounted(q, w, s)
        <4>1. At(q, r) # "none"
          BY <1>4, <1>6 DEF At
        <4> QED BY <3>1, <4>1 DEF Accounted
      <3>5. SoundAt(q, s, w)
        BY <2>1, <3>1, <3>2 DEF SoundAt
      <3>6. ChangeAt(n, tip, q, w, s)
        BY <2>2, <3>1, <3>2, <3>3, <3>4 DEF ChangeAt
      <3> QED BY <3>2, <3>5, <3>6
    <2> QED BY <2>3, <2>4, <2>5
  <1>8. q # tip /\ q[Req(r)] = file
    <2>1. q[Req(r)] = file /\ tip[Req(r)].at = "pending"
      BY <1>1, <1>6 DEF f
    <2> QED BY <1>4, <2>1
  <1> QED BY <1>1, <1>4, <1>6, <1>7, <1>8 DEF Sound, Within, Change, ClaimedOK

-----------------------------------------------------------------------------
(* What a step of one node leaves to the others.                           *)

\* What node n may do to its own state, and to what only grows.
OwnStep(n) ==
    /\ pc' \in [Nodes -> Steps] /\ job' \in [Researchers -> Jobs]
    /\ tries' \in [Researchers -> Nat] /\ failures' \in Nat /\ kills' \in Nat
    /\ UNCHANGED <<now, late, scenario>>
    /\ issued \subseteq issued' /\ issued' \subseteq Requests
    /\ answered' \in [Requests -> {"none", "applied", "rejected"}]
    /\ \A r \in Requests : answered[r] # "none" => answered'[r] # "none"
    /\ \A r \in Requests : answered'[r] # "none" => answered[r] # "none" \/ r \in seen
    /\ \A m \in Nodes \ {n} : pc'[m] = pc[m]
    /\ \A m \in Researchers \ {n} : job'[m] = job[m]

\* What node n may do to the exchange and to the clones of the others.
Moves(n) ==
    /\ WorldOK(World') /\ Onward(World, World')
    /\ seen' \subseteq issued' /\ (n # OnPrem => seen' = seen)
    /\ \A r \in Requests :
          /\ remote[Req(r)].at = "claimed" /\ ~ (remote[Req(r)].since < now) /\ r \notin late
          /\ n = OnPrem \/ remote[Req(r)].by # n
          => remote'[Req(r)] = remote[Req(r)]
    /\ clone' = [m \in Nodes |-> clone'[m]]
    /\ \A m \in Nodes \ {n} :
          /\ clone'[m] \in Clones
          /\ clone'[m].log = clone[m].log /\ clone'[m].work = clone[m].work
          /\ clone'[m].current => clone[m].current /\ remote' = remote

LEMMA Worlds ==
    /\ World.seen = seen /\ World.remote = remote /\ World.runs = runs /\ World.now = now
    /\ World.late = late /\ World.answered = {r \in Requests : answered[r] # "none"}
    /\ World'.seen = seen' /\ World'.remote = remote' /\ World'.runs = runs' /\ World'.now = now'
    /\ World'.late = late' /\ World'.answered = {r \in Requests : answered'[r] # "none"}
  BY DEF World

\* Nobody else minds.
LEMMA OthersKeep ==
    ASSUME ExchangeInv, NEW n \in Nodes, OwnStep(n), Moves(n), NEW m \in Nodes \ {n}
    PROVE  /\ CloneOK(m)'
           /\ pc'[m] = "reclaiming" => ReclaimOK(m)'
           /\ m \in Researchers => JobOK(m)'
  <1>1. CloneOK(m)'
    <2>1. Ready(m, clone[m], Known(m), World) /\ WorldOK(World)
      BY DEF ExchangeInv, CloneOK
    <2>2. /\ WorldOK(World') /\ Onward(World, World') /\ clone'[m] \in Clones
          /\ clone'[m].log = clone[m].log /\ clone'[m].work = clone[m].work
          /\ clone'[m].current => clone[m].current /\ World'.remote = World.remote
      BY Worlds DEF Moves
    <2>3. m = OnPrem => World'.seen = World.seen
      BY Worlds DEF Moves
    <2>4. Known(m) \subseteq Known(m)'
      BY Worlds DEF Known, Moves, OwnStep, Onward
    <2>5. Ready(m, clone'[m], Known(m)', World')
      BY <2>1, <2>2, <2>3, <2>4, ReadyLater
    <2> QED BY <2>5 DEF CloneOK
  <1>2. pc'[m] = "reclaiming" => ReclaimOK(m)'
    <2> SUFFICES ASSUME pc'[m] = "reclaiming" PROVE ReclaimOK(m)'
      OBVIOUS
    <2>1. ReclaimOK(m)
      BY DEF ExchangeInv, OwnStep
    <2>2. clone'[m].log = clone[m].log /\ Tip(m)' = Tip(m) /\ Work(m)' = Work(m)
      BY DEF Moves, Tip, Work
    <2> QED BY <2>1, <2>2 DEF ReclaimOK
  <1>3. m \in Researchers => JobOK(m)'
    <2> SUFFICES ASSUME m \in Researchers PROVE JobOK(m)'
      OBVIOUS
    <2>1. JobOK(m) /\ TypeOK /\ pc'[m] = pc[m] /\ job'[m] = job[m] /\ late' = late /\ now' = now
      BY DEF ExchangeInv, OwnStep
    <2>2. clone'[m].log = clone[m].log /\ Tip(m)' = Tip(m)
      BY DEF Moves, Tip
    <2>3. /\ seen \subseteq seen' /\ seen' \subseteq Requests
          /\ runs \in [Requests -> Nat] /\ runs' \in [Requests -> Nat]
          /\ \A r \in Requests : runs[r] <= runs'[r]
      BY <2>1, Worlds DEF Moves, Onward, WorldOK, TypeOK
    <2> DEFINE req == job[m].req
               file == job[m].file
    <2>4. file \in Files /\ now \in Nat
      BY <2>1 DEF TypeOK, Jobs
    <2>5. ASSUME req \in seen, file.at = "claimed", file.by = m, req \notin late,
                 file.since = now, remote[Req(req)] = file
          PROVE  remote'[Req(req)] = file
      <3>1. req \in Requests /\ n # m /\ ~ (file.since < now)
        BY <2>3, <2>4, <2>5
      <3> HIDE DEF req, file
      <3> QED BY <2>5, <3>1 DEF Moves
    <2>6. req \in seen => (Cost(file) <= runs[req] => Cost(file) <= runs'[req])
      <3>1. Cost(file) \in Nat
        BY <2>4, RankIs
      <3> HIDE DEF req, file
      <3> QED BY <2>3, <3>1
    <2>7. ASSUME NEW p, NEW q \in Trees, req \in seen, AnswerTo(req, p, q, World)
          PROVE  AnswerTo(req, p, q, World')
      <3>1. req \in Requests /\ q[Req(req)] \in Files
        BY <2>3, <2>7, TreeFiles
      <3>2. Cost(q[Req(req)]) \in Nat
        BY <3>1, RankIs
      <3> HIDE DEF req
      <3>3. Cost(q[Req(req)]) <= runs[req] => Cost(q[Req(req)]) <= runs'[req]
        BY <2>3, <3>1, <3>2
      <3> QED BY <2>7, <3>3, Worlds DEF AnswerTo
    <2>8. pc[m] = "answering" => clone[m].log[2] \in Trees
      <3>1. clone[m].log \in Seq(Trees)
        BY DEF ExchangeInv, CloneOK, Ready, LogOK
      <3> QED BY <2>1, <3>1 DEF JobOK
    <2> QED BY <2>1, <2>2, <2>3, <2>5, <2>6, <2>7, <2>8 DEF JobOK
  <1> QED BY <1>1, <1>2, <1>3

LEMMA MovesKeep ==
    ASSUME ExchangeInv, NEW n \in Nodes, OwnStep(n), Moves(n), CloneOK(n)',
           pc'[n] = "reclaiming" => ReclaimOK(n)',
           n \in Researchers => JobOK(n)'
    PROVE  ExchangeInv'
  <1>1. /\ \A m \in Nodes : CloneOK(m)'
        /\ \A m \in Nodes : pc'[m] = "reclaiming" => ReclaimOK(m)'
        /\ \A m \in Researchers : JobOK(m)'
    BY OthersKeep DEF Nodes
  <1>2. WorldOK(World') /\ seen' \subseteq issued'
    BY DEF Moves
  <1>3. TypeOK'
    <2>1. \A m \in Nodes : clone'[m] \in Clones
      BY <1>1 DEF CloneOK, Ready
    <2>2. clone' \in [Nodes -> Clones]
      <3>1. clone' = [m \in Nodes |-> clone'[m]]
        BY DEF Moves
      <3> QED BY <2>1, <3>1
    <2>3. remote' \in Trees /\ seen' \subseteq Requests /\ runs' \in [Requests -> Nat]
      BY <1>2, Worlds DEF WorldOK
    <2>4. TypeOK
      BY DEF ExchangeInv
    <2> QED BY <2>2, <2>3, <2>4 DEF OwnStep, TypeOK
  <1> QED BY <1>1, <1>2, <1>3 DEF ExchangeInv

\* A step that leaves the exchange alone.
LEMMA QuietWorld ==
    ASSUME ExchangeInv, NEW n \in Nodes, OwnStep(n), UNCHANGED <<remote, seen, runs>>
    PROVE  /\ WorldOK(World') /\ Onward(World, World')
           /\ World'.seen = World.seen /\ World'.remote = World.remote
  <1>1. TypeOK /\ WorldOK(World) /\ seen \subseteq issued
    BY DEF ExchangeInv
  <1>2. /\ World'.seen = World.seen /\ World'.remote = World.remote /\ World'.runs = World.runs
        /\ World'.now = World.now /\ World'.late = World.late
        /\ World.answered \subseteq World'.answered /\ World'.answered \subseteq World.seen
    <2>1. \A r \in Requests : answered'[r] # "none" => r \in seen
      <3>1. {r \in Requests : answered[r] # "none"} \subseteq seen
        BY <1>1, Worlds DEF WorldOK
      <3> QED BY <3>1 DEF OwnStep
    <2> QED BY <2>1, Worlds DEF OwnStep
  <1> DEFINE w == World
             w2 == World'
  <1>3. WorldOK(w)
    BY <1>1
  <1>4. /\ w2.seen = w.seen /\ w2.remote = w.remote /\ w2.runs = w.runs
        /\ w2.now = w.now /\ w2.late = w.late
        /\ w.answered \subseteq w2.answered /\ w2.answered \subseteq w.seen
    BY <1>2
  <1>5. WorldOK(w2) /\ Onward(w, w2)
    <2> HIDE DEF w, w2
    <2>1. /\ w.remote \in Trees /\ w.runs \in [Requests -> Nat] /\ w.now \in Nat
          /\ w.seen \subseteq Requests
      BY <1>3 DEF WorldOK
    <2>2. \A r \in Requests : Rank(w.remote[Req(r)]) \in 0 .. 3
      BY <2>1, TreeFiles, RankIs
    <2>3. Onward(w, w2)
      BY <1>4, <2>1, <2>2 DEF Onward
    <2>4. Sound(w2.remote, w2)
      BY <1>3, <1>4, <2>3, SoundLater DEF WorldOK
    <2>5. \A r \in w2.seen : Accounted(w2.remote, w2, r)
      BY <1>3, <1>4, <2>1, <2>3, AccountedLater DEF WorldOK
    <2> QED BY <1>3, <1>4, <2>3, <2>4, <2>5 DEF WorldOK
  <1> QED BY <1>2, <1>5

LEMMA QuietKeeps ==
    ASSUME ExchangeInv, NEW n \in Nodes, OwnStep(n), UNCHANGED <<remote, seen, runs>>,
           NEW c, clone' = [clone EXCEPT ![n] = c], Ready(n, c, Known(n)', World'),
           pc'[n] = "reclaiming" => ReclaimOK(n)',
           n \in Researchers => JobOK(n)'
    PROVE  ExchangeInv'
  <1>1. TypeOK /\ seen \subseteq issued
    BY DEF ExchangeInv
  <1>2. /\ clone' = [m \in Nodes |-> clone'[m]] /\ clone'[n] = c
        /\ \A m \in Nodes \ {n} : clone'[m] = clone[m] /\ clone[m] \in Clones
    BY <1>1 DEF TypeOK
  <1>3. WorldOK(World') /\ Onward(World, World')
    BY QuietWorld
  <1>4. Moves(n)
    BY <1>1, <1>2, <1>3 DEF Moves, OwnStep
  <1>5. CloneOK(n)'
    BY <1>2 DEF CloneOK
  <1> QED BY <1>4, <1>5, MovesKeep

\* A clone stays ready when its owner learns of more requests and answers.
LEMMA ReadyStill ==
    ASSUME ExchangeInv, NEW n \in Nodes, OwnStep(n), UNCHANGED <<remote, seen, runs>>,
           NEW c, Ready(n, c, Known(n), World)
    PROVE  Ready(n, c, Known(n)', World')
  <1>1. /\ WorldOK(World) /\ WorldOK(World') /\ Onward(World, World')
        /\ World'.seen = World.seen /\ World'.remote = World.remote
    BY QuietWorld DEF ExchangeInv
  <1>2. Known(n) \subseteq Known(n)'
    BY DEF Known, OwnStep
  <1>3. c \in Clones
    BY DEF Ready
  <1>4. n = OnPrem => World'.seen = World.seen
    BY <1>1
  <1>5. c.current => c.current /\ World'.remote = World.remote
    BY <1>1
  <1> QED BY <1>1, <1>2, <1>3, <1>4, <1>5, ReadyLater

\* A push that the remote takes.
LEMMA PushMoves ==
    ASSUME ExchangeInv, NEW n \in Nodes, OwnStep(n), UNCHANGED answered,
           NEW A, A = (IF n = OnPrem THEN issued' ELSE seen),
           NEW c, Ready(n, c, A, World), NEW after, AcceptedThen(n, c, after)
    PROVE  /\ Moves(n) /\ clone'[n] = after /\ Known(n)' = A
           /\ c.log[1] = remote /\ PushedTo(c.log, World, World')
           /\ PushOK(n, c.log, A, World, World')
  <1>1. TypeOK /\ WorldOK(World) /\ seen \subseteq issued
    BY DEF ExchangeInv
  <1>2. c.current /\ c.log[1] = remote /\ LogOK(n, c.log, A, World) /\ c \in Clones
    BY Worlds DEF Ready, AcceptedThen
  <1>3. PushedTo(c.log, World, World')
    <2>1. /\ remote' = c.log[Len(c.log)]
          /\ seen' = seen \cup {r \in Requests : remote'[Req(r)].at # "none"}
          /\ runs' = [r \in Requests |-> runs[r] + Cardinality(ClaimsIn(c.log, r))]
      BY DEF AcceptedThen, Publishes
    <2> QED BY <2>1, Worlds DEF PushedTo, At, OwnStep
  <1>4. PushOK(n, c.log, A, World, World')
    <2>1. World.seen \subseteq A /\ (n # OnPrem => A = World.seen) /\ c.log[1] = World.remote
      BY <1>1, <1>2, Worlds DEF OwnStep
    <2> QED BY <1>1, <1>2, <1>3, <2>1, Pushed
  <1>5. /\ WorldOK(World') /\ Onward(World, World') /\ seen' \subseteq A
        /\ n # OnPrem => seen' = seen
        /\ \A r \in Requests :
              /\ remote[Req(r)].at = "claimed" /\ ~ (remote[Req(r)].since < now) /\ r \notin late
              /\ n = OnPrem \/ remote[Req(r)].by # n
              => remote'[Req(r)] = remote[Req(r)]
    BY <1>4, Worlds DEF PushOK, At
  <1>6. clone' = [m \in Nodes |-> IF m = n THEN after
                                  ELSE [clone[m] EXCEPT !.current = @ /\ Len(c.log) = 1]]
    BY DEF AcceptedThen
  <1>7. clone'[n] = after /\ clone' = [m \in Nodes |-> clone'[m]]
    BY <1>6
  <1>8. ASSUME NEW m \in Nodes \ {n}
        PROVE  /\ clone'[m] \in Clones
               /\ clone'[m].log = clone[m].log /\ clone'[m].work = clone[m].work
               /\ clone'[m].current => clone[m].current /\ remote' = remote
    <2> DEFINE one == Len(c.log) = 1
               d == clone[m]
               e == clone'[m]
    <2>1. e = [d EXCEPT !.current = d.current /\ one] /\ d \in Clones
      BY <1>1, <1>6 DEF TypeOK
    <2>2. one => remote' = remote
      BY <1>2 DEF AcceptedThen, Publishes
    <2> HIDE DEF one, d, e
    <2>3. (d.current /\ one) \in BOOLEAN
      OBVIOUS
    <2> DEFINE both == d.current /\ one
    <2>4. e = [d EXCEPT !.current = both] /\ both \in BOOLEAN
      BY <2>1, <2>3
    <2>5. both => d.current /\ one
      OBVIOUS
    <2> HIDE DEF both
    <2>6. e \in Clones /\ e.log = d.log /\ e.work = d.work /\ e.current = both
      BY ONLY <2>1, <2>4 DEF Clones
    <2> QED BY <2>2, <2>5, <2>6 DEF d, e
  <1>9. Moves(n)
    <2>1. seen' \subseteq issued'
      BY <1>1, <1>5 DEF OwnStep
    <2> QED BY <1>5, <1>7, <1>8, <2>1 DEF Moves
  <1>10. Known(n)' = A
    BY <1>5 DEF Known
  <1> QED BY <1>2, <1>3, <1>4, <1>7, <1>9, <1>10

LEMMA PushKeeps ==
    ASSUME ExchangeInv, NEW n \in Nodes, OwnStep(n), UNCHANGED answered,
           NEW A, A = (IF n = OnPrem THEN issued' ELSE seen),
           NEW c, Ready(n, c, A, World), NEW after, AcceptedThen(n, c, after),
           Ready(n, after, A, World'), pc'[n] # "reclaiming",
           n \in Researchers => JobOK(n)'
    PROVE  ExchangeInv'
  <1>1. Moves(n) /\ clone'[n] = after /\ Known(n)' = A
    BY PushMoves
  <1>2. CloneOK(n)'
    BY <1>1 DEF CloneOK
  <1> QED BY <1>1, <1>2, MovesKeep

\* What a push leaves of the clone that pushed.
LEMMA AcceptKeeps ==
    ASSUME ExchangeInv, NEW n \in Nodes, OwnStep(n), UNCHANGED answered,
           NEW A, A = (IF n = OnPrem THEN issued' ELSE seen),
           NEW c, Ready(n, c, A, World), Accepts(n, c)
    PROVE  LET after == [c EXCEPT !.log = <<c.log[Len(c.log)]>>]
           IN  /\ AcceptedThen(n, c, after) /\ Ready(n, after, A, World')
  <1> DEFINE tip == c.log[Len(c.log)]
             after == [c EXCEPT !.log = <<tip>>]
  <1>1. AcceptedThen(n, c, after)
    BY DEF Accepts
  <1>2. PushedTo(c.log, World, World') /\ PushOK(n, c.log, A, World, World')
    BY <1>1, PushMoves
  <1>3. LogOK(n, <<tip>>, A, World') /\ World'.remote = tip
    BY <1>2 DEF PushOK, PushedTo
  <1>4. WorkOK(n, tip, c.work, World', A) /\ c \in Clones
    BY <1>2, WorkPushed DEF Ready
  <1> HIDE DEF tip
  <1> DEFINE one == <<tip>>
  <1>5. LogOK(n, one, A, World') /\ one[1] = tip /\ Len(one) = 1 /\ after = [c EXCEPT !.log = one]
    BY <1>3
  <1> HIDE DEF one, after
  <1>6. one \in Seq(Trees)
    BY <1>5 DEF LogOK
  <1>7. /\ after \in Clones /\ after.log = one /\ after.work = c.work
    BY ONLY <1>4, <1>5, <1>6 DEF Clones
  <1>8. Ready(n, after, A, World')
    BY <1>3, <1>4, <1>5, <1>7 DEF Ready
  <1> QED BY <1>1, <1>8 DEF after, tip

\* An answer: the request is gone, with its result in its place, or it failed.
AnsweredOK(n, tip, q, r, g, h, w) ==
    /\ q \in Trees /\ Sound(q, w) /\ Within(q, w.seen) /\ Change(n, tip, q, w)
    /\ AnswerTo(r, tip, q, w) /\ q # tip /\ q[Req(r)] = g /\ q[Res(r)] = h

LEMMA AnswerTree ==
    ASSUME NEW n \in Researchers, NEW tip \in Trees, NEW w, WorldOK(w), Sound(tip, w),
           Within(tip, w.seen), NEW r \in w.seen,
           At(tip, r) = "claimed", tip[Req(r)].by = n, Cost(tip[Req(r)]) <= w.runs[r],
           NEW g \in Files, NEW h \in Files,
           \/ g = NoFile /\ h.at = "results"
           \/ g = GivenBack(tip[Req(r)]) /\ h = tip[Res(r)],
           NEW q, q = [tip EXCEPT ![Req(r)] = g, ![Res(r)] = h]
    PROVE  AnsweredOK(n, tip, q, r, g, h, w)
  <1> DEFINE file == tip[Req(r)]
  <1>0. /\ file.at = "claimed" /\ file.by = n /\ Cost(file) <= w.runs[r] /\ file = tip[Req(r)]
        /\ \/ g = NoFile /\ h.at = "results"
           \/ g = GivenBack(file) /\ h = tip[Res(r)]
    BY DEF At
  <1>1. n # OnPrem /\ r \in Requests /\ file \in Files /\ w.runs[r] \in Nat
    BY TreeFiles, ExchangeAssumption DEF WorldOK
  <1> HIDE DEF file
  <1>2. /\ g \in Files /\ g.at \in {"none", "pending", "failed"} /\ g # First /\ g # file
        /\ g.at = "none" => g = NoFile
        /\ g.at = "pending" => g = Again
        /\ Rank(g) >= Rank(file) /\ Cost(g) <= Cost(file) /\ Cost(g) <= w.runs[r]
        /\ g.at = "none" => h.at = "results"
    <2>1. /\ Cost(g) \in Nat /\ Cost(file) \in Nat /\ Rank(file) \in 0 .. 3
          /\ w.runs[r] \in Nat /\ Cost(file) <= w.runs[r]
      BY <1>0, <1>1, RankIs
    <2>2. CASE g = NoFile /\ h.at = "results"
      <3>1. Rank(NoFile) = 3 /\ Cost(NoFile) = 0
        BY SomeFiles, RankIs
      <3> QED BY <1>0, <1>1, <2>1, <2>2, <3>1, SomeFiles
    <2>3. CASE g = GivenBack(file) /\ h = tip[Res(r)]
      <3>1. /\ g.at \in {"pending", "failed"} /\ g # First /\ g # file
            /\ g.at = "pending" => g = Again
            /\ Rank(g) >= Rank(file) /\ Cost(g) <= Cost(file)
        BY <1>0, <1>1, <2>3, FileGivenBack
      <3> QED BY <2>1, <3>1
    <2> QED BY <1>0, <2>2, <2>3
  <1>3. q \in Trees
    <2> HIDE DEF Trees
    <2>1. q = [[tip EXCEPT ![Req(r)] = g] EXCEPT ![Res(r)] = h]
      OBVIOUS
    <2> QED BY <1>1, <2>1 DEF Trees
  <1>4. ASSUME NEW s \in Requests
        PROVE  /\ q[Req(s)] = IF s = r THEN g ELSE tip[Req(s)]
               /\ q[Res(s)] = IF s = r THEN h ELSE tip[Res(s)]
    <2>1. /\ Req(s) \in Names /\ Res(s) \in Names /\ Req(r) \in Names /\ Res(r) \in Names
      BY <1>1, TreeFiles
    <2>2. /\ Req(r) # Res(s) /\ Req(s) # Res(r) /\ (Req(r) = Req(s) => r = s)
          /\ (Res(r) = Res(s) => r = s)
      BY NamesDiffer
    <2>3. DOMAIN tip = Names
      BY DEF Trees
    <2> QED BY <2>1, <2>2, <2>3
  <1>5. SoundAt(tip, r, w) /\ ~ Done(tip, r) /\ At(tip, r) = "claimed"
    BY <1>0, <1>1 DEF Sound, SoundAt, At
  <1>6. /\ h.at \in {"none", "results", "failed"}
        /\ h.at # "none" => h.at = "results" /\ g = NoFile
    BY <1>0, <1>5 DEF SoundAt, Done
  <1>7. ASSUME NEW s \in Requests
        PROVE  /\ SoundAt(q, s, w) /\ (At(q, s) # "none" => s \in w.seen)
               /\ ChangeAt(n, tip, q, w, s)
    <2>1. /\ SoundAt(tip, s, w) /\ (At(tip, s) # "none" => s \in w.seen) /\ tip[Req(s)] \in Files
      BY TreeFiles DEF Sound, Within
    <2>2. Rank(tip[Req(s)]) \in 0 .. 3 /\ Cost(tip[Req(s)]) \in Nat
      BY <2>1, RankIs
    <2>3. CASE s # r
      <3>1. q[Req(s)] = tip[Req(s)] /\ q[Res(s)] = tip[Res(s)]
        BY <1>4, <2>3
      <3> QED BY <2>1, <2>2, <3>1 DEF SoundAt, ChangeAt, At, Done, Accounted
    <2>4. CASE s = r
      <3>1. q[Req(s)] = g /\ q[Res(s)] = h /\ tip[Req(s)] = file
        BY <1>0, <1>4, <2>4
      <3>2. SoundAt(q, s, w)
        BY <1>2, <1>6, <2>4, <3>1, SomeFiles DEF SoundAt, At, Done
      <3>3. Done(q, s) \/ At(q, s) # "none"
        BY <1>2, <1>5, <3>1, SomeFiles DEF Done, At
      <3>4. Accounted(q, w, s)
        BY <3>3 DEF Accounted
      <3>5. ChangeAt(n, tip, q, w, s)
        BY <1>0, <1>1, <1>2, <1>5, <2>4, <3>1, <3>4 DEF ChangeAt
      <3> QED BY <2>4, <3>2, <3>5
    <2> QED BY <2>3, <2>4
  <1>8. AnswerTo(r, tip, q, w)
    <2>1. q[Req(r)] = g /\ tip[Req(r)] = file /\ q[Res(r)] = h
      BY <1>0, <1>1, <1>4
    <2>2. \A s \in Requests : q[Res(s)] # tip[Res(s)] => Done(q, s)
      BY <1>4, <1>5, <1>6 DEF Done
    <2>3. \A s \in Requests : s # r => q[Req(s)] = tip[Req(s)]
      BY <1>4
    <2> QED BY <1>0, <1>2, <2>1, <2>2, <2>3 DEF AnswerTo, At
  <1>9. q # tip
    BY <1>0, <1>1, <1>2, <1>4
  <1>10. q[Req(r)] = g /\ q[Res(r)] = h
    BY <1>1, <1>4
  <1> QED BY <1>3, <1>7, <1>8, <1>9, <1>10 DEF Sound, Within, Change, AnsweredOK

\* New requests, for pages that have none in flight.
NewTreeOK(tip, wk, w, A, new, q) ==
    /\ q \in Trees /\ WorkOK(OnPrem, tip, q, w, A \cup new)
    /\ \A r \in Requests : q[Req(r)] = IF r \in new THEN First ELSE wk[Req(r)]
    /\ new # {} => q # tip

LEMMA NewTree ==
    ASSUME NEW tip \in Trees, NEW wk \in Trees, NEW w, NEW A, WorkOK(OnPrem, tip, wk, w, A),
           Sound(tip, w), Within(tip, A), w.seen \subseteq A,
           NEW new, new \subseteq Requests, new \cap A = {},
           \A r \in new : Older(r, wk) = {},
           NEW q, q = WithRequests(wk, new)
    PROVE  NewTreeOK(tip, wk, w, A, new, q)
  <1> DEFINE gone == UNION {Older(r, wk) : r \in new}
  <1>1. \A r : r \notin gone
    OBVIOUS
  <1> HIDE DEF gone
  <1>2. \A f \in Names : wk[f] \in Files /\ Without(wk, gone)[f] = wk[f]
    BY <1>1 DEF Trees, Without
  <1>3. q = [f \in Names |-> IF f[1] = "request" /\ f[2] \in new THEN First
                             ELSE Without(wk, gone)[f]]
    BY DEF WithRequests, gone, First
  <1>4. q \in Trees
    BY <1>2, <1>3, SomeFiles DEF Trees
  <1>5. ASSUME NEW r \in Requests
        PROVE  /\ q[Req(r)] = IF r \in new THEN First ELSE wk[Req(r)]
               /\ q[Res(r)] = wk[Res(r)]
    <2>1. /\ Req(r) \in Names /\ Res(r) \in Names
          /\ Req(r)[1] = "request" /\ Req(r)[2] = r /\ Res(r)[1] = "result"
      BY <1>4, TreeFiles, NamesDiffer
    <2> QED BY <1>2, <1>3, <2>1
  <1>6. ASSUME NEW r \in new
        PROVE  At(tip, r) = "none" /\ r \notin w.seen
    BY DEF Within
  <1>7. WorkOK(OnPrem, tip, q, w, A \cup new)
    <2> SUFFICES ASSUME NEW r \in Requests
                 PROVE  /\ \/ q[Req(r)] = tip[Req(r)]
                           \/ /\ At(tip, r) = "none" /\ r \notin w.seen /\ r \in A \cup new
                              /\ q[Req(r)] = First
                        /\ \/ q[Res(r)] = tip[Res(r)]
                           \/ /\ Done(tip, r) /\ r \in w.answered
                              /\ q[Res(r)].at \in {"none", "failed"}
      BY DEF WorkOK
    <2> QED BY <1>5, <1>6 DEF WorkOK
  <1>8. new # {} => q # tip
    <2> SUFFICES ASSUME NEW r \in new PROVE q # tip
      OBVIOUS
    <2>1. q[Req(r)] = First /\ tip[Req(r)].at = "none"
      BY <1>5, <1>6 DEF At
    <2> QED BY <2>1, SomeFiles
  <1> QED BY <1>4, <1>5, <1>7, <1>8 DEF NewTreeOK

\* A result that was dealt with.
LEMMA FoldedWork ==
    ASSUME NEW tip \in Trees, NEW wk \in Trees, NEW w, NEW A, WorkOK(OnPrem, tip, wk, w, A),
           NEW r \in Results(wk), r \in w.answered,
           NEW h \in Files, h.at \in {"none", "failed"}, NEW q, q = [wk EXCEPT ![Res(r)] = h]
    PROVE  q \in Trees /\ WorkOK(OnPrem, tip, q, w, A)
  <1>1. r \in Requests /\ wk[Res(r)].at = "results"
    BY DEF Results
  <1>2. Done(tip, r)
    BY <1>1 DEF WorkOK, Done
  <1>3. q \in Trees
    BY DEF Trees
  <1>4. ASSUME NEW s \in Requests
        PROVE  q[Req(s)] = wk[Req(s)] /\ q[Res(s)] = IF s = r THEN h ELSE wk[Res(s)]
    <2>1. Req(s) \in Names /\ Res(s) \in Names /\ DOMAIN wk = Names
      BY TreeFiles DEF Trees
    <2> QED BY <2>1, NamesDiffer
  <1> QED BY <1>1, <1>2, <1>3, <1>4 DEF WorkOK

-----------------------------------------------------------------------------
(* The steps.  First what both nodes do.                                   *)

CloneFacts(n) ==
    LET c == clone[n]
    IN  /\ c \in Clones /\ Ready(n, c, Known(n), World)
        /\ LogOK(n, c.log, Known(n), World) /\ Len(c.log) \in Nat /\ Len(c.log) >= 1
        /\ Tip(n) = c.log[Len(c.log)] /\ Tip(n) \in Trees
        /\ Sound(Tip(n), World) /\ Within(Tip(n), Known(n))
        /\ Work(n) = c.work /\ Work(n) \in Trees /\ WorkOK(n, Tip(n), Work(n), World, Known(n))
        /\ n # OnPrem => Work(n) = Tip(n)

LEMMA CloneIs ==
    ASSUME ExchangeInv, NEW n \in Nodes
    PROVE  CloneFacts(n)
  <1> DEFINE c == clone[n]
             L == Len(c.log)
  <1>1. Ready(n, c, Known(n), World)
    BY DEF ExchangeInv, CloneOK
  <1>2. c \in Clones /\ LogOK(n, c.log, Known(n), World) /\ WorkOK(n, c.log[L], c.work, World, Known(n))
    BY <1>1 DEF Ready
  <1>3. L \in Nat /\ L >= 1 /\ L \in 1 .. L /\ c.log[L] \in Trees
    BY <1>2, LogTrees
  <1>4. Sound(c.log[L], World) /\ Within(c.log[L], Known(n))
    BY <1>2, <1>3 DEF LogOK
  <1>5. Tip(n) = c.log[L] /\ Work(n) = c.work /\ c.work \in Trees
    BY <1>2 DEF Tip, Work, Clones
  <1>6. n # OnPrem => c.work = c.log[L]
    BY <1>2 DEF WorkOK
  <1> HIDE DEF c, L
  <1>7. WorkOK(n, Tip(n), Work(n), World, Known(n))
    BY <1>2, <1>5
  <1> QED BY <1>1, <1>2, <1>3, <1>4, <1>5, <1>6, <1>7 DEF CloneFacts, c, L

\* A pull that does not stop.
LEMMA RebaseReady ==
    ASSUME ExchangeInv, NEW n \in Nodes, NEW favor, NEW a,
           ~ Dirty(n), ~ PullStops(n, favor),
           ~ clone[n].current => Replayable(n, clone[n].log, favor, a, World)
    PROVE  Ready(n, Rebased(n, favor), Known(n), World)
  <1> DEFINE c == clone[n]
             d == Rebased(n, favor)
             tip == c.log[Len(c.log)]
             log == IF c.current THEN c.log ELSE Rebase(c.log, remote, favor)
             wk == [f \in Names |-> IF c.work[f] = tip[f] THEN log[Len(log)][f] ELSE c.work[f]]
  <1>1. /\ Ready(n, c, Known(n), World) /\ c \in Clones /\ c.work \in Trees
        /\ Tip(n) = tip /\ Work(n) = c.work
    BY CloneIs DEF CloneFacts
  <1>2. d = [c EXCEPT !.log = log, !.current = TRUE, !.work = wk]
    BY <1>1 DEF Rebased
  <1>3. CASE c.current
    <2>1. log = c.log
      BY <1>3
    <2>2. wk = c.work
      <3>1. wk = [f \in Names |-> c.work[f]]
        BY <2>1
      <3>2. c.work = [f \in Names |-> c.work[f]]
        BY <1>1 DEF Trees
      <3> HIDE DEF wk, c
      <3> QED BY <3>1, <3>2
    <2> HIDE DEF log, wk, d, c
    <2>3. d \in Clones /\ d.log = c.log /\ d.work = c.work /\ d.current = TRUE
      <3>1. c \in Clones /\ d = [c EXCEPT !.log = log, !.current = TRUE, !.work = wk]
            /\ log = c.log /\ wk = c.work
        BY <1>1, <1>2, <2>1, <2>2
      <3> QED BY ONLY <3>1 DEF Clones
    <2>4. Ready(n, d, Known(n), World)
      <3>1. Ready(n, c, Known(n), World) /\ c.current
        BY <1>1, <1>3
      <3> QED BY <2>3, <3>1 DEF Ready
    <2> QED BY <2>4 DEF d
  <1>4. CASE ~ c.current
    <2>1. log = Rebase(c.log, remote, favor) /\ ~ Stops(c.log, remote, favor)
      BY <1>4 DEF PullStops
    <2>2. \A f \in Names : tip[f].at # "none" => c.work[f] = tip[f]
      BY <1>1 DEF Dirty
    <2>3. WorldOK(World) /\ World.seen \subseteq Known(n) /\ World.remote = remote
      BY Worlds DEF ExchangeInv, Known
    <2>4. Replayable(n, c.log, favor, a, World)
      BY <1>4
    <2>5. wk = [f \in Names |-> IF c.work[f] = tip[f] THEN log[Len(log)][f] ELSE c.work[f]]
      OBVIOUS
    <2> HIDE DEF log, wk, c, d
    <2>6. ~ Stops(c.log, World.remote, favor) /\ log = Rebase(c.log, World.remote, favor)
      BY <2>1, <2>3
    <2>7. Ready(n, [c EXCEPT !.log = log, !.current = TRUE, !.work = wk], Known(n), World)
      BY <1>1, <2>2, <2>3, <2>4, <2>5, <2>6, PulledReady
    <2> QED BY <1>2, <2>7 DEF d
  <1> QED BY <1>3, <1>4

LEMMA PulledClone ==
    ASSUME ExchangeInv, NEW n \in Nodes, NEW c, c \in {clone[n], Rebased(n, "none")}, Pulled(n, c)
    PROVE  Ready(n, c, Known(n), World)
  <1>1. Ready(n, clone[n], Known(n), World)
    BY CloneIs DEF CloneFacts
  <1>2. CASE ~ Dirty(n) /\ ~ PullStops(n, "none") /\ c = Rebased(n, "none")
    <2> DEFINE favor == "none"
    <2>1. Replayable(n, clone[n].log, favor, 0, World)
      BY DEF Replayable
    <2>2. ~ PullStops(n, favor)
      BY <1>2
    <2> HIDE DEF favor
    <2>3. Ready(n, Rebased(n, favor), Known(n), World)
      BY <1>2, <2>1, <2>2, RebaseReady
    <2> QED BY <1>2, <2>3 DEF favor
  <1>3. CASE c = clone[n]
    BY <1>1, <1>3
  <1> QED BY <1>2, <1>3 DEF Pulled

\* The claims of a clone that is ready, reclaimed.
LEMMA ReclaimReady ==
    ASSUME ExchangeInv, NEW n \in Nodes, NEW c, Ready(n, c, Known(n), World),
           NEW d, d = Commit(c, Reclaimed(c.work)), \E f \in Names : Stale(c.work[f])
    PROVE  /\ Ready(n, d, Known(n), World)
           /\ Len(d.log) >= 2 /\ Len(d.log) = Len(c.log) + 1 /\ d.work = d.log[Len(d.log)]
           /\ \A r \in Requests : At(d.log[Len(d.log) - 1], r) # "none" => At(d.work, r) # "none"
  <1> DEFINE L == Len(c.log)
             tip == c.log[L]
             wk == c.work
             q == Reclaimed(wk)
             w == World
             A == Known(n)
  <1>1. /\ tip \in Trees /\ Sound(tip, w) /\ Within(tip, A) /\ wk \in Trees
        /\ WorkOK(n, tip, wk, w, A) /\ L \in Nat /\ L >= 1
    <2>1. LogOK(n, c.log, A, w) /\ WorkOK(n, tip, wk, w, A) /\ wk \in Trees
      BY DEF Ready, Clones
    <2>2. L \in Nat /\ L >= 1 /\ L \in 1 .. L /\ tip \in Trees
      BY <2>1, LogTrees
    <2> QED BY <2>1, <2>2 DEF LogOK
  <1>2. w.now \in Nat /\ w.now = now
    BY Worlds DEF ExchangeInv, WorldOK
  <1>3. /\ q = [f \in Names |-> IF wk[f].at = "claimed" /\ w.now > wk[f].since
                                THEN GivenBack(wk[f]) ELSE wk[f]]
        /\ \E f \in Names : wk[f].at = "claimed" /\ w.now > wk[f].since
    BY <1>2 DEF Reclaimed, Stale
  <1> HIDE DEF q, w, A
  <1>4. /\ q \in Trees /\ Sound(q, w) /\ Within(q, A) /\ Change(n, tip, q, w)
        /\ \A r \in Requests : At(tip, r) # "none" => At(q, r) # "none"
        /\ q # tip
    <2> HIDE DEF L, tip, wk
    <2> QED BY ONLY <1>1, <1>2, <1>3, ReclaimTree
  <1>5. /\ Ready(n, d, A, w) /\ d.work = q /\ d.log[Len(d.log)] = q
        /\ Len(d.log) = L + 1 /\ d.log[L] = tip
    <2>1. d = Commit(c, q) /\ Ready(n, c, A, w)
      BY DEF q, A, w
    <2> QED BY <1>4, <2>1, CommitReady
  <1> HIDE DEF L, tip
  <1>6. Len(d.log) - 1 = L /\ Len(d.log) >= 2
    BY <1>1, <1>5
  <1> QED BY <1>4, <1>5, <1>6 DEF A, w, L

\* Which steps hold no job.
Idle == {"off", "reclaiming", "selecting", "fold", "folding", "enqueue"}

LEMMA IdleJob ==
    ASSUME NEW a, pc'[a] \in Idle, job'[a] = NoJob
    PROVE  JobOK(a)'
  BY DEF JobOK, Idle

LEMMA PullKeeps ==
    ASSUME ExchangeInv, NEW n \in Nodes, OwnStep(n), UNCHANGED job,
           NEW next \in Idle \ {"reclaiming"}, PullAndReclaim(n, next)
    PROVE  ExchangeInv'
  <1>1. PICK c \in {clone[n], Rebased(n, "none")} :
          /\ Pulled(n, c)
          /\ IF \E f \in Names : Stale(c.work[f])
             THEN Set(n, Commit(c, Reclaimed(c.work))) /\ Goto(n, "reclaiming")
             ELSE Set(n, c) /\ Goto(n, next)
    BY DEF PullAndReclaim
  <1>2. Ready(n, c, Known(n), World)
    BY <1>1, PulledClone
  <1>3. UNCHANGED <<remote, seen, runs>> /\ pc \in [Nodes -> Steps] /\ pc[n] = "off"
    BY DEF PullAndReclaim, Quiet, Step, ExchangeInv, TypeOK
  <1>4. pc'[n] \in Idle /\ (n \in Researchers => JobOK(n)')
    <2>1. pc'[n] \in Idle
      BY <1>1, <1>3 DEF Goto, Idle
    <2>2. n \in Researchers => job[n] = NoJob
      BY <1>3 DEF ExchangeInv, JobOK
    <2> QED BY <2>1, <2>2, IdleJob
  <1>5. CASE \E f \in Names : Stale(c.work[f])
    <2> DEFINE d == Commit(c, Reclaimed(c.work))
    <2>1. /\ Ready(n, d, Known(n), World)
          /\ Len(d.log) >= 2 /\ d.work = d.log[Len(d.log)]
          /\ \A r \in Requests : At(d.log[Len(d.log) - 1], r) # "none" => At(d.work, r) # "none"
      BY <1>2, <1>5, ReclaimReady
    <2>2. clone' = [clone EXCEPT ![n] = d]
      BY <1>1, <1>5 DEF Set
    <2> HIDE DEF d
    <2>3. Ready(n, d, Known(n)', World')
      BY <1>3, <2>1, ReadyStill
    <2>4. clone'[n] = d
      BY <2>2 DEF ExchangeInv, TypeOK
    <2>5. ReclaimOK(n)'
      BY <2>1, <2>4 DEF ReclaimOK, Tip, Work
    <2> QED BY <1>3, <1>4, <2>2, <2>3, <2>5, QuietKeeps
  <1>6. CASE ~ \E f \in Names : Stale(c.work[f])
    <2>1. clone' = [clone EXCEPT ![n] = c] /\ pc'[n] # "reclaiming"
      BY <1>1, <1>3, <1>6 DEF Set, Goto
    <2>2. Ready(n, c, Known(n)', World')
      BY <1>2, <1>3, ReadyStill
    <2> QED BY <1>3, <1>4, <2>1, <2>2, QuietKeeps
  <1> QED BY <1>5, <1>6

\* A clone whose last commit is dropped.
LEMMA DroppedReady ==
    ASSUME NEW n, NEW c, NEW A, NEW w, Ready(n, c, A, w), Len(c.log) >= 2
    PROVE  LET d == ResetTo(c, Shorter(c.log))
           IN  /\ Ready(n, d, A, w) /\ d.work = c.log[Len(c.log) - 1]
               /\ d = [log |-> Shorter(c.log), work |-> c.log[Len(c.log) - 1],
                       current |-> c.current, stopped |-> c.stopped]
  <1> DEFINE L == Len(c.log)
             new == Shorter(c.log)
             d == ResetTo(c, new)
  <1>1. /\ c \in Clones /\ LogOK(n, c.log, A, w) /\ (c.current => c.log[1] = w.remote)
        /\ L \in Nat /\ L >= 2
    BY LogTrees DEF Ready
  <1>2. /\ LogOK(n, new, A, w) /\ Len(new) = L - 1
        /\ \A i \in 1 .. L - 1 : new[i] = c.log[i]
    BY <1>1, Shortened
  <1>3. d = [c EXCEPT !.log = new, !.work = new[Len(new)]]
    BY DEF ResetTo
  <1>4. new \in Seq(Trees)
    BY <1>2 DEF LogOK
  <1> HIDE DEF L, new, d
  <1>5. new[1] = c.log[1] /\ new[Len(new)] = c.log[L - 1] /\ c.log[L - 1] \in Trees
    <2>1. 1 \in 1 .. L - 1 /\ L - 1 \in 1 .. L - 1 /\ L - 1 \in 1 .. L
      BY <1>1
    <2>2. c.log[L - 1] \in Trees
      BY <1>1, <2>1, LogTrees DEF L
    <2> QED BY <1>2, <2>1, <2>2
  <1>6. d = [log |-> new, work |-> c.log[L - 1], current |-> c.current, stopped |-> c.stopped]
    <2>1. d = [c EXCEPT !.log = new, !.work = c.log[L - 1]] /\ c \in Clones
      BY <1>1, <1>3, <1>5
    <2> QED BY ONLY <2>1 DEF Clones
  <1>7. d \in Clones
    BY <1>1, <1>4, <1>5, <1>6 DEF Clones
  <1>8. d.work = d.log[Len(d.log)] /\ (d.current => d.log[1] = w.remote) /\ d.log = new
    BY <1>1, <1>5, <1>6
  <1>9. Ready(n, d, A, w)
    BY <1>2, <1>7, <1>8, CleanReady
  <1> QED BY <1>6, <1>8, <1>9 DEF L, new, d

LEMMA ReclaimKeeps ==
    ASSUME ExchangeInv, NEW n \in Nodes, OwnStep(n), UNCHANGED <<job, answered, issued>>,
           NEW next \in Idle \ {"reclaiming"}, ReclaimPushed(n, next)
    PROVE  ExchangeInv'
  <1> DEFINE c == clone[n]
             L == Len(c.log)
             dropped == ResetTo(c, Shorter(c.log))
             t == c.log[L - 1]
             tip == c.log[L]
             A == IF n = OnPrem THEN issued' ELSE seen
             after == [dropped EXCEPT !.log = <<t>>, !.current = FALSE]
  <1>1. /\ pc[n] = "reclaiming" /\ pc'[n] = next /\ ReclaimOK(n) /\ TypeOK
        /\ n \in Researchers => job[n] = NoJob
    BY DEF ReclaimPushed, Step, Goto, ExchangeInv, TypeOK, JobOK
  <1>2. pc'[n] # "reclaiming" /\ (n \in Researchers => JobOK(n)')
    BY <1>1, IdleJob
  <1>3. /\ Ready(n, c, Known(n), World) /\ A = Known(n) /\ L \in Nat /\ L >= 2
        /\ LogOK(n, c.log, A, World) /\ c \in Clones
    <2>1. CloneFacts(n)
      BY CloneIs
    <2>2. A = Known(n)
      BY DEF Known
    <2> QED BY <1>1, <2>1, <2>2 DEF ReclaimOK, CloneFacts
  <1>4. /\ Ready(n, dropped, Known(n), World)
        /\ dropped = [log |-> Shorter(c.log), work |-> t, current |-> c.current,
                      stopped |-> c.stopped]
    BY <1>3, DroppedReady
  <1>5. CASE Accepts(n, c)
    <2> DEFINE one == [c EXCEPT !.log = <<c.log[Len(c.log)]>>]
    <2>1. AcceptedThen(n, c, one) /\ Ready(n, one, A, World')
      <3> HIDE DEF c, A
      <3> QED BY <1>3, <1>5, AcceptKeeps DEF A
    <2> HIDE DEF one, c, A
    <2> QED BY <1>2, <1>3, <2>1, PushKeeps DEF A
  <1>6. CASE Set(n, dropped) /\ Quiet
    <2>1. clone' = [clone EXCEPT ![n] = dropped] /\ UNCHANGED <<remote, seen, runs>>
      BY <1>6 DEF Set, Quiet
    <2> HIDE DEF dropped
    <2>2. Ready(n, dropped, Known(n)', World')
      BY <1>4, <2>1, ReadyStill
    <2> QED BY <1>2, <2>1, <2>2, QuietKeeps
  <1>7. CASE AcceptedThen(n, c, after)
    <2>1. PushedTo(c.log, World, World') /\ PushOK(n, c.log, A, World, World')
      <3> HIDE DEF c, A, after
      <3> QED BY <1>3, <1>7, PushMoves DEF A
    <2>2. /\ t \in Trees /\ tip \in Trees /\ Sound(t, World) /\ Within(t, A)
          /\ Change(n, t, tip, World)
      <3>1. L - 1 \in 1 .. L /\ L \in 1 .. L /\ L \in 2 .. L
        BY <1>3
      <3>2. /\ \A i \in 1 .. L : c.log[i] \in Trees /\ Sound(c.log[i], World) /\ Within(c.log[i], A)
            /\ \A i \in 2 .. L : Change(n, c.log[i - 1], c.log[i], World)
        BY <1>3, LogTrees DEF LogOK
      <3> HIDE DEF L, A
      <3> QED BY <3>1, <3>2
    <2>3. \A r \in Requests : At(t, r) # "none" => At(tip, r) # "none"
      BY <1>1 DEF ReclaimOK, Tip
    <2>4. World'.remote = tip /\ World'.seen = World.seen \cup {r \in Requests : At(tip, r) # "none"}
          /\ WorldOK(World') /\ Onward(World, World')
      BY <2>1 DEF PushedTo, PushOK
    <2> HIDE DEF c, L, t, tip, A, dropped
    <2>5. ASSUME NEW r \in Requests, At(t, r) # "none"
          PROVE  r \in World'.seen /\ Rank(World'.remote[Req(r)]) >= Rank(t[Req(r)])
      BY <2>2, <2>3, <2>4, <2>5 DEF Change, ChangeAt
    <2>6. Sound(t, World')
      BY <2>2, <2>4, SoundLater
    <2> DEFINE one == <<t>>
    <2>7. LogOK(n, one, A, World') /\ Len(one) = 1 /\ one[1] = t
      BY <2>2, <2>5, <2>6, OneTree
    <2>8. after = [dropped EXCEPT !.log = one, !.current = FALSE]
      OBVIOUS
    <2> HIDE DEF one, after
    <2>9. after = [log |-> one, work |-> t, current |-> FALSE, stopped |-> c.stopped]
      <3>1. /\ after = [dropped EXCEPT !.log = one, !.current = FALSE]
            /\ dropped = [log |-> Shorter(c.log), work |-> t, current |-> c.current,
                          stopped |-> c.stopped]
        BY <1>4, <2>8
      <3> QED BY ONLY <3>1
    <2>10. after \in Clones
      <3>1. one \in Seq(Trees) /\ c.stopped \in BOOLEAN
        BY <1>3, <2>7 DEF LogOK, Clones
      <3> QED BY <2>2, <2>9, <3>1 DEF Clones
    <2>11. /\ after.log = one /\ after.work = after.log[Len(after.log)] /\ ~ after.current
      BY <2>7, <2>9
    <2>12. Ready(n, after, A, World')
      BY <2>7, <2>10, <2>11, CleanReady
    <2>13. A = (IF n = OnPrem THEN issued' ELSE seen) /\ Ready(n, c, A, World)
      BY <1>3 DEF A
    <2> QED BY <1>2, <1>7, <2>12, <2>13, PushKeeps
  <1> QED BY <1>5, <1>6, <1>7 DEF ReclaimPushed

\* A push that may fail, of a clone that is ready.
LEMMA MaybePushed ==
    ASSUME ExchangeInv, NEW n \in Nodes, OwnStep(n), UNCHANGED answered,
           NEW A, A = (IF n = OnPrem THEN issued' ELSE seen),
           NEW c, Ready(n, c, A, World), Accepts(n, c) \/ (Set(n, c) /\ Quiet),
           pc'[n] # "reclaiming", n \in Researchers => JobOK(n)'
    PROVE  ExchangeInv'
  <1>1. CASE Accepts(n, c)
    <2> DEFINE one == [c EXCEPT !.log = <<c.log[Len(c.log)]>>]
    <2>1. AcceptedThen(n, c, one) /\ Ready(n, one, A, World')
      BY <1>1, AcceptKeeps
    <2> HIDE DEF one
    <2> QED BY <2>1, PushKeeps
  <1>2. CASE Set(n, c) /\ Quiet
    <2>1. clone' = [clone EXCEPT ![n] = c] /\ UNCHANGED <<remote, seen, runs>>
      BY <1>2 DEF Set, Quiet
    <2>2. /\ WorldOK(World) /\ WorldOK(World') /\ Onward(World, World')
          /\ World'.seen = World.seen /\ World'.remote = World.remote
      BY <2>1, QuietWorld DEF ExchangeInv
    <2>3. A = Known(n)' /\ c \in Clones
      BY <2>1 DEF Known, Ready
    <2>4. n = OnPrem => World'.seen = World.seen
      BY <2>2
    <2>5. c.current => c.current /\ World'.remote = World.remote
      BY <2>2
    <2>6. Ready(n, c, A, World')
      BY <2>2, <2>3, <2>4, <2>5, ReadyLater
    <2> QED BY <2>1, <2>3, <2>6, QuietKeeps
  <1> QED BY <1>1, <1>2

\* A clone whose rebase stops is left to a human, as it was.
LEMMA StoppedReady ==
    ASSUME NEW n, NEW c, NEW A, NEW w, Ready(n, c, A, w)
    PROVE  Ready(n, [c EXCEPT !.stopped = TRUE], A, w)
  <1> DEFINE d == [c EXCEPT !.stopped = TRUE]
  <1>1. c \in Clones
    BY DEF Ready
  <1>2. d \in Clones /\ d.log = c.log /\ d.work = c.work /\ d.current = c.current
    BY <1>1 DEF Clones
  <1> HIDE DEF d
  <1>3. Ready(n, d, A, w)
    BY <1>2 DEF Ready
  <1> QED BY <1>3 DEF d

\* A clone that nobody touches.
LEMMA SameClone ==
    ASSUME ExchangeInv, NEW n \in Nodes, OwnStep(n), UNCHANGED <<remote, seen, runs, clone>>
    PROVE  clone' = [clone EXCEPT ![n] = clone[n]] /\ Ready(n, clone[n], Known(n)', World')
  <1>1. Ready(n, clone[n], Known(n), World)
    BY CloneIs DEF CloneFacts
  <1>2. clone' = [clone EXCEPT ![n] = clone[n]]
    BY DEF ExchangeInv, TypeOK
  <1> QED BY <1>1, <1>2, ReadyStill

-----------------------------------------------------------------------------
(* The researchers.                                                        *)

LEMMA OwnResearcher ==
    ASSUME ExchangeInv, NEW a \in Researchers, NEW s \in Steps,
           pc' = [pc EXCEPT ![a] = s],
           NEW j \in Jobs, job' = [job EXCEPT ![a] = j],
           NEW k \in Nat, tries' = [tries EXCEPT ![a] = k],
           failures' \in Nat, kills' \in Nat, UNCHANGED <<onprem, clock>>
    PROVE  OwnStep(a) /\ a \in Nodes /\ a # OnPrem /\ pc'[a] = s /\ job'[a] = j
  <1>1. a \in Nodes /\ a # OnPrem
    BY ExchangeAssumption DEF Nodes
  <1>2. TypeOK
    BY DEF ExchangeInv
  <1>3. UNCHANGED <<issued, answered, now, late, scenario>>
    BY DEF onprem, clock
  <1>4. pc' \in [Nodes -> Steps] /\ job' \in [Researchers -> Jobs] /\ tries' \in [Researchers -> Nat]
    BY <1>1, <1>2 DEF TypeOK
  <1>5. /\ \A m \in Nodes \ {a} : pc'[m] = pc[m]
        /\ \A m \in Researchers \ {a} : job'[m] = job[m]
        /\ pc'[a] = s /\ job'[a] = j
    BY <1>1, <1>2 DEF TypeOK
  <1> QED BY <1>1, <1>2, <1>3, <1>4, <1>5 DEF OwnStep, TypeOK

LEMMA SameJob ==
    ASSUME ExchangeInv, NEW a \in Researchers
    PROVE  /\ job = [job EXCEPT ![a] = job[a]] /\ job[a] \in Jobs
           /\ tries = [tries EXCEPT ![a] = tries[a]] /\ tries[a] \in Nat
           /\ pc = [pc EXCEPT ![a] = pc[a]] /\ pc[a] \in Steps
           /\ failures \in Nat /\ kills \in Nat /\ NoJob \in Jobs
           /\ Fails => failures' \in Nat
           /\ kills > 0 => kills - 1 \in Nat
  <1>1. NoJob \in Jobs
    BY SomeFiles DEF NoJob, Jobs
  <1>2. TypeOK /\ a \in Nodes
    BY DEF ExchangeInv, Nodes
  <1> QED BY <1>1, <1>2 DEF TypeOK, Fails

LEMMA OwnSame ==
    ASSUME ExchangeInv, NEW a \in Researchers, NEW s \in Steps,
           pc' = [pc EXCEPT ![a] = s], UNCHANGED <<job, tries, onprem, clock>>,
           failures' \in Nat, kills' \in Nat
    PROVE  OwnStep(a) /\ a \in Nodes /\ a # OnPrem /\ pc'[a] = s /\ job'[a] = job[a]
  <1>1. /\ job[a] \in Jobs /\ job' = [job EXCEPT ![a] = job[a]]
        /\ tries[a] \in Nat /\ tries' = [tries EXCEPT ![a] = tries[a]]
    BY SameJob
  <1>2. UNCHANGED <<onprem, clock>>
    OBVIOUS
  <1> QED BY <1>1, <1>2, OwnResearcher

LEMMA PullStep ==
    ASSUME ExchangeInv, NEW a \in Researchers, Pull(a)
    PROVE  ExchangeInv'
  <1>1. CASE PullAndReclaim(a, "selecting") /\ UNCHANGED <<job, tries, onprem, clock, kills>>
    <2>1. PICK s \in {"reclaiming", "selecting"} : pc' = [pc EXCEPT ![a] = s]
      BY <1>1 DEF PullAndReclaim, Goto
    <2>2. failures' \in Nat
      <3>1. Works \/ Fails
        BY <1>1 DEF PullAndReclaim, Pulled
      <3> QED BY <3>1, SameJob DEF Works
    <2>3. OwnStep(a) /\ a \in Nodes
      <3>1. s \in Steps /\ kills' \in Nat
        BY <1>1, <2>1, SameJob DEF Steps
      <3> QED BY <1>1, <2>1, <2>2, <3>1, OwnSame
    <2> QED BY <1>1, <2>3, PullKeeps DEF Idle
  <1>2. CASE /\ Step(a, "off") /\ PullStopsHere(a)
             /\ UNCHANGED <<pc, job, tries, onprem, clock, kills>>
    <2> DEFINE c == clone[a]
               d == [c EXCEPT !.stopped = TRUE]
    <2>1. OwnStep(a) /\ a \in Nodes /\ pc'[a] = "off" /\ job'[a] = NoJob
      <3>1. pc[a] = "off" /\ failures' \in Nat /\ job[a] = NoJob
        BY <1>2, SameJob DEF Step, PullStopsHere, Works, ExchangeInv, JobOK
      <3>2. pc' = [pc EXCEPT ![a] = "off"] /\ kills' \in Nat /\ "off" \in Steps
        BY <1>2, <3>1, SameJob DEF Steps
      <3> QED BY <1>2, <3>1, <3>2, OwnSame
    <2>2. clone' = [clone EXCEPT ![a] = d] /\ UNCHANGED <<remote, seen, runs>>
      BY <1>2 DEF PullStopsHere, Set, Quiet
    <2>3. Ready(a, d, Known(a), World)
      BY <2>1, CloneIs, StoppedReady DEF CloneFacts
    <2> HIDE DEF d
    <2>4. Ready(a, d, Known(a)', World')
      BY <2>1, <2>2, <2>3, ReadyStill
    <2>5. pc'[a] # "reclaiming" /\ JobOK(a)'
      BY <2>1, IdleJob DEF Idle
    <2> QED BY <2>1, <2>2, <2>4, <2>5, QuietKeeps
  <1> QED BY <1>1, <1>2 DEF Pull

LEMMA ReclaimStep ==
    ASSUME ExchangeInv, NEW a \in Researchers, Reclaim(a)
    PROVE  ExchangeInv'
  <1>1. ReclaimPushed(a, "selecting") /\ UNCHANGED <<job, tries, onprem, clock, kills>>
    BY DEF Reclaim
  <1>2. pc' = [pc EXCEPT ![a] = "selecting"] /\ failures' \in Nat
    <2>1. Works \/ Fails
      BY <1>1 DEF ReclaimPushed
    <2> QED BY <1>1, <2>1, SameJob DEF ReclaimPushed, Goto, Works
  <1>3. OwnStep(a) /\ a \in Nodes
    <2>1. "selecting" \in Steps /\ kills' \in Nat
      BY <1>1, SameJob DEF Steps
    <2> QED BY <1>1, <1>2, <2>1, OwnSame
  <1>4. UNCHANGED <<job, answered, issued>>
    BY <1>1 DEF onprem
  <1> QED BY <1>1, <1>3, <1>4, ReclaimKeeps DEF Idle

\* A command ends, and its clone is ready.
LEMMA EndStep ==
    ASSUME ExchangeInv, NEW a \in Researchers, Ends(a), UNCHANGED <<onprem, clock>>,
           failures' \in Nat, kills' \in Nat
    PROVE  /\ OwnStep(a) /\ a \in Nodes /\ a # OnPrem /\ pc'[a] # "reclaiming" /\ JobOK(a)'
           /\ UNCHANGED answered
  <1>1. pc' = [pc EXCEPT ![a] = "off"] /\ job' = [job EXCEPT ![a] = NoJob]
        /\ tries' = [tries EXCEPT ![a] = 0]
    BY DEF Ends, Goto
  <1>2. OwnStep(a) /\ a \in Nodes /\ a # OnPrem /\ pc'[a] = "off" /\ job'[a] = NoJob
    BY <1>1, SameJob, OwnResearcher DEF Steps
  <1> QED BY <1>2, IdleJob DEF Idle, onprem

LEMMA ClaimSelectsStep ==
    ASSUME ExchangeInv, NEW a \in Researchers, ClaimSelects(a)
    PROVE  ExchangeInv'
  <1>1. PICK r \in Requests :
          /\ IsTarget(r, Work(a))
          /\ LET file == [Work(a)[Req(r)] EXCEPT !.at = "claimed", !.by = a, !.since = now]
                 tree == Without(Work(a), Older(r, Work(a)))
             IN  /\ Set(a, Commit(clone[a], [tree EXCEPT ![Req(r)] = file]))
                 /\ job' = [job EXCEPT ![a] = [req |-> r, file |-> file]]
    BY DEF ClaimSelects
  <1> DEFINE c == clone[a]
             L == Len(c.log)
             tip == Tip(a)
             w == World
             file == [tip[Req(r)] EXCEPT !.at = "claimed", !.by = a, !.since = w.now]
             old == Older(r, tip)
             q == [Without(tip, old) EXCEPT ![Req(r)] = file]
             d == Commit(c, q)
             j == [req |-> r, file |-> file]
  <1>2. /\ a \in Nodes /\ a # OnPrem /\ Work(a) = tip /\ tip = c.log[L] /\ tip \in Trees
        /\ Ready(a, c, seen, w) /\ Sound(tip, w) /\ Within(tip, w.seen) /\ w.now = now
        /\ w.now \in Nat /\ L \in Nat /\ L >= 1 /\ Known(a) = seen /\ w.seen = seen
    <2>1. a \in Nodes /\ a # OnPrem
      BY ExchangeAssumption DEF Nodes
    <2>2. CloneFacts(a) /\ Known(a) = seen
      BY <2>1, CloneIs DEF Known
    <2> QED BY <2>1, <2>2, Worlds DEF CloneFacts, ExchangeInv, TypeOK
  <1>3. At(tip, r) = "pending"
    BY <1>1, <1>2 DEF IsTarget, Newest, Waiting, At
  <1>4. clone' = [clone EXCEPT ![a] = d] /\ job' = [job EXCEPT ![a] = j]
    BY <1>1, <1>2 DEF Set
  <1>5. UNCHANGED <<remote, seen, runs, tries, onprem, clock, failures, kills>>
        /\ pc' = [pc EXCEPT ![a] = "claiming"]
    BY DEF ClaimSelects, Goto
  <1> HIDE DEF c, L, tip, w
  <1>6. /\ q \in Trees /\ Sound(q, w) /\ Within(q, w.seen) /\ Change(a, tip, q, w)
        /\ q # tip /\ q[Req(r)] = file /\ r \in w.seen
        /\ file \in Files /\ file.at = "claimed" /\ file.by = a /\ file.since = w.now
    <2> DEFINE g == tip[Req(r)]
               f == [at |-> "claimed", attempts |-> g.attempts, by |-> a, since |-> w.now]
    <2>1. file = f
      <3>1. file = [g EXCEPT !.at = "claimed", !.by = a, !.since = w.now] /\ g \in Files
        BY <1>2, TreeFiles
      <3> HIDE DEF file, g
      <3> QED BY ONLY <3>1 DEF Files
    <2>2. q = [Without(tip, Older(r, tip)) EXCEPT ![Req(r)] = f]
      BY <2>1
    <2>3. a \in Researchers /\ a # OnPrem /\ r \in Requests /\ At(tip, r) = "pending"
      BY <1>2, <1>3
    <2>4. tip \in Trees /\ Sound(tip, w) /\ Within(tip, w.seen) /\ w.now \in Nat
      BY <1>2
    <2> HIDE DEF file, q
    <2>5. ClaimedOK(a, tip, q, r, w)
      BY ONLY <2>2, <2>3, <2>4, ClaimTree
    <2>6. q[Req(r)] = file
      <3>1. Req(r) \in DOMAIN Without(tip, old)
        BY <2>4, TreeFiles DEF Without
      <3> QED BY <3>1 DEF q
    <2> QED BY <2>5, <2>6 DEF ClaimedOK
  <1> HIDE DEF file, old, q
  <1>7. /\ Ready(a, d, seen, w) /\ d.log[Len(d.log)] = q /\ Len(d.log) = L + 1
    <2>1. Change(a, c.log[Len(c.log)], q, w) /\ q # c.log[Len(c.log)]
      BY <1>2, <1>6 DEF L
    <2>2. Ready(a, c, seen, w) /\ Within(q, seen)
      BY <1>2, <1>6
    <2> QED BY <1>6, <2>1, <2>2, CommitReady DEF L
  <1> HIDE DEF d
  <1>8. OwnStep(a) /\ pc'[a] = "claiming" /\ job'[a] = j
    <2>1. j \in Jobs /\ "claiming" \in Steps
      BY <1>6 DEF Jobs, Steps
    <2>2. /\ failures' \in Nat /\ kills' \in Nat /\ tries[a] \in Nat
          /\ tries' = [tries EXCEPT ![a] = tries[a]] /\ UNCHANGED <<onprem, clock>>
      BY <1>5, SameJob
    <2> HIDE DEF j
    <2> QED BY <1>4, <1>5, <2>1, <2>2, OwnResearcher
  <1>9. Ready(a, d, Known(a)', World')
    BY <1>2, <1>5, <1>7, <1>8, ReadyStill DEF w
  <1>10. clone'[a] = d
    BY <1>2, <1>4 DEF ExchangeInv, TypeOK
  <1>11. JobOK(a)'
    <2>1. /\ job'[a].req = r /\ job'[a].file = file /\ Tip(a)' = q /\ seen' = seen /\ now' = now
          /\ Len(clone'[a].log) >= 2
      BY <1>2, <1>5, <1>7, <1>8, <1>10 DEF Tip, clock
    <2>2. /\ job'[a].req \in seen' /\ job'[a].file.at = "claimed" /\ job'[a].file.by = a
          /\ job'[a].file.since = now' /\ Tip(a)'[Req(job'[a].req)] = job'[a].file
      BY <1>2, <1>6, <2>1
    <2> QED BY <1>8, <2>1, <2>2 DEF JobOK
  <1> QED BY <1>2, <1>4, <1>5, <1>8, <1>9, <1>11, QuietKeeps

LEMMA NothingToClaimStep ==
    ASSUME ExchangeInv, NEW a \in Researchers, NothingToClaim(a)
    PROVE  ExchangeInv'
  <1>1. Ends(a) /\ UNCHANGED <<remote, seen, runs, clone, onprem, clock, failures, kills>>
    BY DEF NothingToClaim
  <1>2. OwnStep(a) /\ a \in Nodes /\ pc'[a] # "reclaiming" /\ JobOK(a)'
    BY <1>1, SameJob, EndStep
  <1>3. clone' = [clone EXCEPT ![a] = clone[a]] /\ Ready(a, clone[a], Known(a)', World')
    BY <1>1, <1>2, SameClone
  <1> QED BY <1>1, <1>2, <1>3, QuietKeeps

LEMMA ClaimPushedStep ==
    ASSUME ExchangeInv, NEW a \in Researchers, ClaimPushed(a)
    PROVE  ExchangeInv'
  <1> DEFINE c == clone[a]
             tip == c.log[Len(c.log)]
             after == [c EXCEPT !.log = <<tip>>]
             req == job[a].req
             file == job[a].file
  <1>1. /\ pc[a] = "claiming" /\ Accepts(a, c) /\ pc' = [pc EXCEPT ![a] = "running"]
        /\ tries' = [tries EXCEPT ![a] = 0]
        /\ UNCHANGED <<job, onprem, clock, failures, kills>>
    BY DEF ClaimPushed, Step, Goto
  <1>2. OwnStep(a) /\ a \in Nodes /\ a # OnPrem /\ pc'[a] = "running" /\ job'[a] = job[a]
    <2>1. /\ job[a] \in Jobs /\ job' = [job EXCEPT ![a] = job[a]]
          /\ failures' \in Nat /\ kills' \in Nat /\ "running" \in Steps
      BY <1>1, SameJob DEF Steps
    <2> QED BY <1>1, <2>1, OwnResearcher
  <1>3. UNCHANGED answered /\ seen = IF a = OnPrem THEN issued' ELSE seen
    BY <1>1, <1>2 DEF onprem
  <1>4. Ready(a, c, seen, World) /\ Tip(a) = tip /\ c \in Clones
    BY <1>2, CloneIs DEF CloneFacts, Known
  <1>5. AcceptedThen(a, c, after) /\ Ready(a, after, seen, World')
    BY <1>1, <1>2, <1>3, <1>4, AcceptKeeps
  <1>6. /\ clone'[a] = after /\ Known(a)' = seen /\ WorldOK(World') /\ seen \subseteq seen'
        /\ World'.remote = tip
    <2>1. /\ clone'[a] = after /\ PushedTo(c.log, World, World')
          /\ PushOK(a, c.log, seen, World, World')
      <3> HIDE DEF c, after
      <3> QED BY <1>2, <1>3, <1>4, <1>5, PushMoves
    <2> QED BY <1>2, <2>1, Worlds DEF PushedTo, PushOK, Onward, Known
  <1>7. after.log = <<tip>>
    BY <1>4 DEF Clones
  <1>8. /\ req \in seen /\ file.at = "claimed" /\ file.by = a
        /\ req \notin late => file.since = now
        /\ tip[Req(req)] = file
    BY <1>1, <1>4 DEF ExchangeInv, JobOK
  <1>9. Len(clone'[a].log) = 1 /\ Tip(a)' = tip
    BY <1>6, <1>7 DEF Tip
  <1>10. Cost(file) <= runs'[req] /\ remote'[Req(req)] = file
    <2>1. req \in Requests
      BY <1>8 DEF ExchangeInv, TypeOK
    <2>2. \A r \in Requests : Cost(tip[Req(r)]) <= runs'[r]
      BY <1>6, Worlds DEF WorldOK
    <2> HIDE DEF tip, req, file
    <2> QED BY <1>6, <1>8, <2>1, <2>2, Worlds
  <1>11. JobOK(a)'
    <2>1. now' = now /\ late' = late /\ job'[a] = job[a]
      BY <1>1, <1>2 DEF clock
    <2> HIDE DEF tip, after, c
    <2> QED BY <1>2, <1>6, <1>8, <1>9, <1>10, <2>1 DEF JobOK
  <1> HIDE DEF after, c
  <1> QED BY <1>2, <1>3, <1>4, <1>5, <1>11, PushKeeps

LEMMA ClaimRejectedStep ==
    ASSUME ExchangeInv, NEW a \in Researchers, ClaimRejected(a)
    PROVE  ExchangeInv'
  <1> DEFINE c == clone[a]
             one == <<remote>>
             d == [ResetTo(c, one) EXCEPT !.current = TRUE]
  <1>1. /\ clone' = [clone EXCEPT ![a] = d]
        /\ UNCHANGED <<remote, seen, runs, onprem, clock, failures, kills>>
    BY DEF ClaimRejected, Set
  <1>2. OwnStep(a) /\ a \in Nodes /\ a # OnPrem /\ pc'[a] # "reclaiming" /\ JobOK(a)'
    <2>1. CASE Ends(a)
      BY <1>1, <2>1, SameJob, EndStep
    <2>2. CASE /\ Goto(a, "selecting")
               /\ tries' = [tries EXCEPT ![a] = @ + 1]
               /\ job' = [job EXCEPT ![a] = NoJob]
      <3>1. /\ pc' = [pc EXCEPT ![a] = "selecting"] /\ "selecting" \in Steps /\ NoJob \in Jobs
            /\ tries' = [tries EXCEPT ![a] = tries[a] + 1] /\ tries[a] + 1 \in Nat
            /\ failures' \in Nat /\ kills' \in Nat
        BY <1>1, <2>2, SameJob DEF Goto, Steps
      <3>2. /\ OwnStep(a) /\ a \in Nodes /\ a # OnPrem /\ pc'[a] = "selecting"
            /\ job'[a] = NoJob
        BY <1>1, <2>2, <3>1, OwnResearcher
      <3> QED BY <3>2, IdleJob DEF Idle
    <2> QED BY <2>1, <2>2 DEF ClaimRejected
  <1>3. /\ one \in Seq(Trees) /\ Len(one) = 1 /\ one[1] = remote /\ remote \in Trees
        /\ LogOK(a, one, seen, World) /\ c \in Clones
    <2>1. WorldOK(World) /\ TypeOK
      BY DEF ExchangeInv
    <2>2. /\ remote \in Trees /\ Sound(remote, World) /\ Within(remote, seen)
          /\ \A r \in Requests : At(remote, r) # "none" => r \in World.seen
      BY <2>1, Worlds DEF WorldOK, Within
    <2>3. \A r \in Requests : Rank(World.remote[Req(r)]) >= Rank(remote[Req(r)])
      <3> TAKE r \in Requests
      <3>1. Rank(remote[Req(r)]) \in 0 .. 3
        BY <2>2, TreeFiles, RankIs
      <3> QED BY <3>1, Worlds
    <2> QED BY <1>2, <2>1, <2>2, <2>3, OneTree DEF TypeOK
  <1>4. d = [[c EXCEPT !.log = one, !.work = one[Len(one)]] EXCEPT !.current = TRUE]
    BY DEF ResetTo
  <1> HIDE DEF one, d, c
  <1>5. d = [log |-> one, work |-> remote, current |-> TRUE, stopped |-> c.stopped]
    <2>1. d = [[c EXCEPT !.log = one, !.work = remote] EXCEPT !.current = TRUE] /\ c \in Clones
      BY <1>3, <1>4
    <2> QED BY ONLY <2>1 DEF Clones
  <1>6. Ready(a, d, seen, World)
    <2>1. d \in Clones /\ d.log = one /\ d.work = d.log[Len(d.log)] /\ d.log[1] = World.remote
      BY <1>3, <1>5, Worlds DEF Clones
    <2> QED BY <1>3, <2>1, CleanReady
  <1>7. Ready(a, d, Known(a)', World')
    <2>1. Known(a) = seen
      BY <1>2 DEF Known
    <2> QED BY <1>1, <1>2, <1>6, <2>1, ReadyStill
  <1> QED BY <1>1, <1>2, <1>7, QuietKeeps

LEMMA ClaimPushFailsStep ==
    ASSUME ExchangeInv, NEW a \in Researchers, ClaimPushFails(a)
    PROVE  ExchangeInv'
  <1> DEFINE c == clone[a]
             d == ResetTo(c, Shorter(c.log))
  <1>1. /\ Ends(a) /\ UNCHANGED <<onprem, clock, kills>> /\ Fails
        /\ \/ Accepts(a, c) \/ (Set(a, c) /\ Quiet)
           \/ Set(a, d) /\ Quiet
        /\ pc[a] = "claiming"
    BY DEF ClaimPushFails, PushFails, Step
  <1>2. /\ OwnStep(a) /\ a \in Nodes /\ a # OnPrem /\ pc'[a] # "reclaiming" /\ JobOK(a)'
        /\ UNCHANGED answered
    <2>1. failures' \in Nat /\ kills' \in Nat
      BY <1>1, SameJob
    <2> QED BY <1>1, <2>1, EndStep
  <1>3. /\ Ready(a, c, seen, World) /\ Known(a) = seen
        /\ seen = IF a = OnPrem THEN issued' ELSE seen
    BY <1>2, CloneIs DEF CloneFacts, Known
  <1>4. CASE Accepts(a, c) \/ (Set(a, c) /\ Quiet)
    <2> HIDE DEF c
    <2> QED BY <1>2, <1>3, <1>4, MaybePushed
  <1>5. CASE Set(a, d) /\ Quiet
    <2>1. Ready(a, d, Known(a), World)
      <3>1. Len(c.log) >= 2
        BY <1>1 DEF ExchangeInv, JobOK
      <3> QED BY <1>3, <3>1, DroppedReady
    <2>2. clone' = [clone EXCEPT ![a] = d] /\ UNCHANGED <<remote, seen, runs>>
      BY <1>5 DEF Set, Quiet
    <2> HIDE DEF d
    <2>3. Ready(a, d, Known(a)', World')
      BY <1>2, <2>1, <2>2, ReadyStill
    <2> QED BY <1>2, <2>2, <2>3, QuietKeeps
  <1> QED BY <1>1, <1>4, <1>5

\* What complete and fail_request commit.
LEMMA AnswerStep ==
    ASSUME ExchangeInv, NEW a \in Researchers, pc[a] = "running",
           NEW g \in Files, NEW h \in Files,
           \/ g = NoFile /\ h.at = "results"
           \/ g = GivenBack(job[a].file) /\ h = Tip(a)[Res(job[a].req)],
           NEW q, q = [Tip(a) EXCEPT ![Req(job[a].req)] = g, ![Res(job[a].req)] = h],
           Set(a, Commit(clone[a], q)), Goto(a, "answering"),
           UNCHANGED <<remote, seen, runs, job, tries, onprem, clock, failures, kills>>
    PROVE  ExchangeInv'
  <1> DEFINE c == clone[a]
             tip == Tip(a)
             w == World
             r == job[a].req
             file == job[a].file
             d == Commit(c, q)
  <1>1. /\ a \in Nodes /\ a # OnPrem /\ Work(a) = tip /\ tip = c.log[Len(c.log)] /\ tip \in Trees
        /\ Ready(a, c, seen, w) /\ Sound(tip, w) /\ Within(tip, w.seen) /\ WorldOK(w)
        /\ Known(a) = seen /\ w.seen = seen /\ w.runs = runs
    <2>1. a \in Nodes /\ a # OnPrem
      BY ExchangeAssumption DEF Nodes
    <2>2. CloneFacts(a) /\ Known(a) = seen
      BY <2>1, CloneIs DEF Known
    <2> QED BY <2>1, <2>2, Worlds DEF CloneFacts, ExchangeInv
  <1>2. /\ r \in seen /\ file.at = "claimed" /\ file.by = a
        /\ r \notin late => file.since = now /\ remote[Req(r)] = file
        /\ Len(c.log) = 1 /\ tip[Req(r)] = file /\ Cost(file) <= runs[r]
    BY DEF ExchangeInv, JobOK
  <1>3. /\ OwnStep(a) /\ pc'[a] = "answering" /\ job'[a] = job[a]
        /\ clone' = [clone EXCEPT ![a] = d]
    <2>1. /\ pc' = [pc EXCEPT ![a] = "answering"] /\ "answering" \in Steps
          /\ failures' \in Nat /\ kills' \in Nat
      BY SameJob DEF Goto, Steps
    <2>2. UNCHANGED <<job, tries, onprem, clock>>
      OBVIOUS
    <2> QED BY <2>1, <2>2, OwnSame DEF Set
  <1>4. World' = World
    BY DEF World, onprem, clock
  <1>5. UNCHANGED <<remote, seen, runs, late, now>>
    BY DEF clock
  <1>6. q = [tip EXCEPT ![Req(r)] = g, ![Res(r)] = h]
    OBVIOUS
  <1>7. \/ g = NoFile /\ h.at = "results"
        \/ g = GivenBack(file) /\ h = tip[Res(r)]
    OBVIOUS
  <1> HIDE DEF c, tip, w, r, file
  <1>8. /\ q \in Trees /\ Sound(q, w) /\ Within(q, w.seen) /\ Change(a, tip, q, w)
        /\ AnswerTo(r, tip, q, w) /\ q # tip
    <2>1. /\ a \in Researchers /\ r \in w.seen /\ At(tip, r) = "claimed" /\ tip[Req(r)].by = a
          /\ Cost(tip[Req(r)]) <= w.runs[r] /\ g \in Files /\ h \in Files
          /\ tip \in Trees /\ Sound(tip, w) /\ Within(tip, w.seen) /\ WorldOK(w)
          /\ \/ g = NoFile /\ h.at = "results"
             \/ g = GivenBack(tip[Req(r)]) /\ h = tip[Res(r)]
      BY <1>1, <1>2, <1>7 DEF At
    <2>2. AnsweredOK(a, tip, q, r, g, h, w)
      BY ONLY <1>6, <2>1, AnswerTree
    <2> QED BY <2>2 DEF AnsweredOK
  <1>9. /\ Ready(a, d, seen, w) /\ d.log[Len(d.log)] = q /\ Len(d.log) = Len(c.log) + 1
        /\ d.log[1] = c.log[1]
    <2>1. Change(a, c.log[Len(c.log)], q, w) /\ q # c.log[Len(c.log)] /\ Within(q, seen)
      BY <1>1, <1>8
    <2> QED BY <1>1, <1>8, <2>1, CommitReady
  <1> HIDE DEF d
  <1>10. Ready(a, d, Known(a)', World')
    BY <1>1, <1>3, <1>5, <1>9, ReadyStill DEF w
  <1>11. clone'[a] = d
    BY <1>1, <1>3 DEF ExchangeInv, TypeOK
  <1>12. JobOK(a)'
    <2>1. /\ clone'[a].log[1] = tip /\ clone'[a].log[2] = q /\ Len(clone'[a].log) = 2
      BY <1>1, <1>2, <1>9, <1>11
    <2>2. AnswerTo(job'[a].req, clone'[a].log[1], clone'[a].log[2], World')
      BY <1>3, <1>4, <1>8, <2>1 DEF w, r
    <2>3. /\ job'[a].req = r /\ job'[a].file = file
      BY <1>3 DEF r, file
    <2> QED BY <1>2, <1>3, <1>5, <2>1, <2>2, <2>3 DEF JobOK
  <1> QED BY <1>1, <1>3, <1>5, <1>10, <1>12, QuietKeeps

LEMMA RunningTip ==
    ASSUME ExchangeInv, NEW a \in Researchers, pc[a] = "running"
    PROVE  /\ Work(a) = Tip(a) /\ Tip(a) \in Trees /\ job[a].req \in Requests
           /\ job[a].file \in Files /\ job[a].file.at = "claimed"
  <1>1. a \in Nodes /\ a # OnPrem
    BY ExchangeAssumption DEF Nodes
  <1>2. CloneFacts(a)
    BY <1>1, CloneIs
  <1>3. job[a].req \in seen /\ seen \subseteq Requests /\ job[a].file.at = "claimed" /\ job[a] \in Jobs
    BY DEF ExchangeInv, JobOK, TypeOK
  <1> QED BY <1>1, <1>2, <1>3 DEF CloneFacts, Jobs

LEMMA CompleteStep ==
    ASSUME ExchangeInv, NEW a \in Researchers, Complete(a)
    PROVE  ExchangeInv'
  <1> DEFINE file == job[a].file
             r == job[a].req
             h == [file EXCEPT !.at = "results"]
             q == [Tip(a) EXCEPT ![Req(r)] = NoFile, ![Res(r)] = h]
  <1>1. /\ pc[a] = "running" /\ Goto(a, "answering")
        /\ UNCHANGED <<remote, seen, runs, job, tries, onprem, clock, failures, kills>>
    BY DEF Complete, Step
  <1>2. Work(a) = Tip(a) /\ file \in Files
    BY <1>1, RunningTip
  <1>3. Set(a, Commit(clone[a], q))
    BY <1>2 DEF Complete
  <1>4. h \in Files /\ h.at = "results"
    <2> HIDE DEF file
    <2> QED BY <1>2 DEF Files
  <1> HIDE DEF h
  <1>5. NoFile \in Files
    BY SomeFiles
  <1>6. q = [Tip(a) EXCEPT ![Req(job[a].req)] = NoFile, ![Res(job[a].req)] = h]
    OBVIOUS
  <1> HIDE DEF q
  <1> QED BY <1>1, <1>3, <1>4, <1>5, <1>6, AnswerStep

LEMMA FailRequestStep ==
    ASSUME ExchangeInv, NEW a \in Researchers, FailRequest(a)
    PROVE  ExchangeInv'
  <1> DEFINE file == job[a].file
             r == job[a].req
             tip == Tip(a)
             g == GivenBack(file)
             h == tip[Res(r)]
             q == [tip EXCEPT ![Req(r)] = g]
  <1>1. /\ pc[a] = "running" /\ Goto(a, "answering")
        /\ UNCHANGED <<remote, seen, runs, job, tries, onprem, clock, failures, kills>>
    BY DEF FailRequest, Step
  <1>2. Work(a) = tip /\ tip \in Trees /\ file \in Files /\ file.at = "claimed" /\ r \in Requests
    BY <1>1, RunningTip
  <1>3. Set(a, Commit(clone[a], q))
    BY <1>2 DEF FailRequest
  <1>4. h \in Files /\ g \in Files
    BY <1>2, TreeFiles, FileGivenBack
  <1>5. q = [tip EXCEPT ![Req(r)] = g, ![Res(r)] = h]
    <2> HIDE DEF g, tip, r
    <2>1. Req(r) \in Names /\ Res(r) \in Names /\ Req(r) # Res(r) /\ DOMAIN tip = Names
      BY <1>2, TreeFiles, NamesDiffer DEF Trees
    <2>2. q = [q EXCEPT ![Res(r)] = h]
      <3>1. q[Res(r)] = h /\ q = [f \in Names |-> q[f]]
        BY <2>1
      <3> HIDE DEF q, h
      <3> QED BY <2>1, <3>1
    <2> QED BY <2>2
  <1>6. \/ g = NoFile /\ h.at = "results"
        \/ g = GivenBack(job[a].file) /\ h = Tip(a)[Res(job[a].req)]
    OBVIOUS
  <1>7. q = [Tip(a) EXCEPT ![Req(job[a].req)] = g, ![Res(job[a].req)] = h]
    BY <1>5
  <1> HIDE DEF q, g, h
  <1> QED BY <1>1, <1>3, <1>4, <1>6, <1>7, AnswerStep

LEMMA AnswerPushedStep ==
    ASSUME ExchangeInv, NEW a \in Researchers, AnswerPushed(a) \/ AnswerNotPushed(a)
    PROVE  ExchangeInv'
  <1> DEFINE c == clone[a]
  <1>1. /\ Ends(a) /\ UNCHANGED <<onprem, clock, kills>> /\ failures' \in Nat
        /\ \/ Accepts(a, c) \/ (Set(a, c) /\ Quiet)
           \/ UNCHANGED clone /\ Quiet
    BY SameJob DEF AnswerPushed, AnswerNotPushed, PushFails, Works
  <1>2. /\ OwnStep(a) /\ a \in Nodes /\ a # OnPrem /\ pc'[a] # "reclaiming" /\ JobOK(a)'
        /\ UNCHANGED answered
    <2>1. kills' \in Nat
      BY <1>1, SameJob
    <2> QED BY <1>1, <2>1, EndStep
  <1>3. /\ Ready(a, c, seen, World) /\ seen = IF a = OnPrem THEN issued' ELSE seen
    BY <1>2, CloneIs DEF CloneFacts, Known
  <1>4. CASE Accepts(a, c) \/ (Set(a, c) /\ Quiet)
    <2> HIDE DEF c
    <2> QED BY <1>2, <1>3, <1>4, MaybePushed
  <1>5. CASE UNCHANGED clone /\ Quiet
    <2>1. UNCHANGED <<remote, seen, runs, clone>>
      BY <1>5 DEF Quiet
    <2>2. clone' = [clone EXCEPT ![a] = clone[a]] /\ Ready(a, clone[a], Known(a)', World')
      BY <1>2, <2>1, SameClone
    <2> QED BY <1>2, <2>1, <2>2, QuietKeeps
  <1> QED BY <1>1, <1>4, <1>5

LEMMA AnswerRebasedStep ==
    ASSUME ExchangeInv, NEW a \in Researchers, AnswerRebased(a)
    PROVE  ExchangeInv'
  <1> DEFINE c == clone[a]
             d == Rebased(a, "theirs")
             r == job[a].req
             log == c.log
  <1>1. /\ pc[a] = "answering" /\ ~ c.current
        /\ UNCHANGED <<remote, seen, runs, onprem, clock, failures, kills>>
        /\ \/ /\ ~ PullStops(a, "theirs") /\ Set(a, d) /\ tries' = [tries EXCEPT ![a] = @ + 1]
              /\ UNCHANGED <<pc, job>>
           \/ Set(a, [c EXCEPT !.stopped = TRUE]) /\ Ends(a)
    BY DEF AnswerRebased, Step
  <1>2. CASE Set(a, [c EXCEPT !.stopped = TRUE]) /\ Ends(a)
    <2> DEFINE e == [c EXCEPT !.stopped = TRUE]
    <2>1. OwnStep(a) /\ a \in Nodes /\ a # OnPrem /\ pc'[a] # "reclaiming" /\ JobOK(a)'
      BY <1>1, <1>2, SameJob, EndStep
    <2>2. clone' = [clone EXCEPT ![a] = e]
      BY <1>2 DEF Set
    <2>3. Ready(a, e, Known(a), World)
      BY <2>1, CloneIs, StoppedReady DEF CloneFacts
    <2> HIDE DEF e
    <2>4. Ready(a, e, Known(a)', World')
      BY <1>1, <2>1, <2>3, ReadyStill
    <2> QED BY <1>1, <2>1, <2>2, <2>4, QuietKeeps
  <1>3. CASE /\ ~ PullStops(a, "theirs") /\ Set(a, d) /\ tries' = [tries EXCEPT ![a] = @ + 1]
             /\ UNCHANGED <<pc, job>>
    <2>1. a \in Nodes /\ a # OnPrem /\ CloneFacts(a) /\ Known(a) = seen
      BY ExchangeAssumption, CloneIs DEF Nodes, Known
    <2>2. /\ r \in seen /\ job[a].file.at = "claimed" /\ job[a].file.by = a
          /\ r \notin late => job[a].file.since = now /\ remote[Req(r)] = job[a].file
                              /\ log[1][Req(r)] = job[a].file
          /\ Cost(job[a].file) <= runs[r] /\ Len(log) = 2
          /\ AnswerTo(r, log[1], log[2], World) /\ r \in Requests
      BY <1>1 DEF ExchangeInv, JobOK, TypeOK
    <2> DEFINE favor == "theirs"
               new == Rebase(log, remote, favor)
    <2>3. Replayable(a, log, favor, r, World)
      BY <2>1, <2>2, Worlds DEF Replayable
    <2>4. ~ PullStops(a, favor) /\ d = Rebased(a, favor) /\ favor = "theirs"
      BY <1>3
    <2>5. ~ Dirty(a)
      BY <2>1 DEF Dirty, CloneFacts
    <2> HIDE DEF favor, d
    <2>6. Ready(a, d, Known(a), World)
      BY <2>1, <2>3, <2>4, <2>5, RebaseReady
    <2>7. d.log = new
      <3>1. c \in Clones
        BY <2>1 DEF CloneFacts
      <3> QED BY <1>1, <2>4, <3>1 DEF Rebased, Clones
    <2>8. /\ Len(new) = 2 /\ new[1] = remote /\ AnswerTo(r, remote, new[2], World)
      <3> DEFINE rem == World.remote
      <3>1. /\ LogOK(a, log, seen, World) /\ WorldOK(World) /\ World.seen \subseteq seen
            /\ ~ Stops(log, rem, favor) /\ rem = remote
        BY <1>1, <2>1, <2>4, Worlds DEF CloneFacts, ExchangeInv, PullStops
      <3>2. RebaseOK(a, log, Rebase(log, rem, favor), seen, World)
        <4> HIDE DEF log, r
        <4> QED BY <2>3, <3>1, RebasedLog
      <3>3. AnswerTo(r, rem, Rebase(log, rem, favor)[2], World)
        <4> HIDE DEF log, r
        <4> QED BY <2>3, <2>4, <3>1, RebasedAnswer
      <3> QED BY <2>2, <3>1, <3>2, <3>3 DEF RebaseOK
    <2> HIDE DEF new
    <2>9. OwnStep(a) /\ pc'[a] = "answering" /\ job'[a] = job[a]
      <3>1. /\ pc' = [pc EXCEPT ![a] = pc[a]] /\ pc[a] \in Steps
            /\ job[a] \in Jobs /\ job' = [job EXCEPT ![a] = job[a]]
            /\ tries[a] + 1 \in Nat /\ tries' = [tries EXCEPT ![a] = tries[a] + 1]
            /\ failures' \in Nat /\ kills' \in Nat /\ UNCHANGED <<onprem, clock>>
        BY <1>1, <1>3, SameJob
      <3>2. OwnStep(a) /\ pc'[a] = pc[a] /\ job'[a] = job[a]
        BY <3>1, OwnResearcher
      <3> QED BY <1>1, <3>2
    <2>10. clone' = [clone EXCEPT ![a] = d] /\ clone'[a] = d
      BY <1>3, <2>1 DEF Set, ExchangeInv, TypeOK
    <2>11. Ready(a, d, Known(a)', World')
      BY <1>1, <2>1, <2>6, <2>9, ReadyStill
    <2>12. World' = World /\ UNCHANGED <<late, now>>
      BY <1>1 DEF World, onprem, clock
    <2>13. JobOK(a)'
      <3>1. /\ clone'[a].log[1] = remote /\ clone'[a].log[2] = new[2] /\ Len(clone'[a].log) = 2
        BY <2>7, <2>8, <2>10
      <3>2. AnswerTo(job'[a].req, clone'[a].log[1], clone'[a].log[2], World')
        BY <2>8, <2>9, <2>12, <3>1
      <3> QED BY <1>1, <2>2, <2>9, <2>12, <3>1, <3>2 DEF JobOK
    <2> QED BY <1>1, <2>1, <2>9, <2>10, <2>11, <2>13, QuietKeeps
  <1> QED BY <1>1, <1>2, <1>3

LEMMA ResearcherKilledStep ==
    ASSUME ExchangeInv, NEW a \in Researchers, ResearcherKilled(a)
    PROVE  ExchangeInv'
  <1>1. /\ Ends(a) /\ UNCHANGED <<onprem, clock>> /\ failures' \in Nat /\ kills' \in Nat
        /\ UNCHANGED <<remote, seen, runs, clone>>
    BY SameJob DEF ResearcherKilled
  <1>2. OwnStep(a) /\ a \in Nodes /\ pc'[a] # "reclaiming" /\ JobOK(a)'
    BY <1>1, EndStep
  <1>3. clone' = [clone EXCEPT ![a] = clone[a]] /\ Ready(a, clone[a], Known(a)', World')
    BY <1>1, <1>2, SameClone
  <1> QED BY <1>1, <1>2, <1>3, QuietKeeps

-----------------------------------------------------------------------------
(* The on-prem node.                                                       *)

\* What the working tree may hold suits more requests too.
LEMMA ReadyWider ==
    ASSUME NEW n, NEW c, NEW A, NEW A2, NEW w, Ready(n, c, A, w), A \subseteq A2
    PROVE  Ready(n, c, A2, w)
  <1>1. LogOK(n, c.log, A2, w)
    <2>1. LogOK(n, c.log, A, w)
      BY DEF Ready
    <2> QED BY <2>1 DEF LogOK, Within
  <1>2. WorkOK(n, c.log[Len(c.log)], c.work, w, A2)
    <2> DEFINE tip == c.log[Len(c.log)]
               wk == c.work
    <2>1. WorkOK(n, tip, wk, w, A)
      BY DEF Ready
    <2> HIDE DEF tip, wk
    <2>2. WorkOK(n, tip, wk, w, A2)
      BY <2>1 DEF WorkOK
    <2> QED BY <2>2 DEF tip, wk
  <1> QED BY <1>1, <1>2 DEF Ready

\* A clone whose working tree changed.
LEMMA WorkReady ==
    ASSUME NEW n, NEW c, NEW A, NEW w, Ready(n, c, A, w), NEW q \in Trees,
           WorkOK(n, c.log[Len(c.log)], q, w, A)
    PROVE  Ready(n, [c EXCEPT !.work = q], A, w)
  <1> DEFINE d == [c EXCEPT !.work = q]
  <1>1. c \in Clones
    BY DEF Ready
  <1>2. d \in Clones /\ d.log = c.log /\ d.work = q /\ d.current = c.current
    BY <1>1 DEF Clones
  <1> HIDE DEF d
  <1>3. Ready(n, d, A, w)
    BY <1>2 DEF Ready
  <1> QED BY <1>3 DEF d

\* A commit of a working tree.
LEMMA WorkCommits ==
    ASSUME NEW n, NEW c, NEW A, NEW w, Ready(n, c, A, w), NEW q \in Trees,
           WorkOK(n, c.log[Len(c.log)], q, w, A)
    PROVE  Ready(n, Commit(c, q), A, w)
  <1> DEFINE tip == c.log[Len(c.log)]
  <1>1. tip \in Trees /\ Sound(tip, w) /\ Within(tip, A)
    <2>1. LogOK(n, c.log, A, w)
      BY DEF Ready
    <2>2. Len(c.log) \in 1 .. Len(c.log) /\ tip \in Trees
      BY <2>1, LogTrees
    <2> QED BY <2>1, <2>2 DEF LogOK
  <1>2. WorkOK(n, tip, q, w, A)
    OBVIOUS
  <1> HIDE DEF tip
  <1>3. WorkFacts(n, tip, q, w, A)
    BY <1>1, <1>2, WorkIs
  <1>4. Sound(q, w) /\ Within(q, A) /\ Change(n, tip, q, w)
    BY <1>3 DEF WorkFacts
  <1> QED BY <1>4, CommitReady DEF tip

LEMMA OwnOnPrem ==
    ASSUME ExchangeInv, NEW s \in Steps, pc' = [pc EXCEPT ![OnPrem] = s],
           UNCHANGED <<job, tries, clock>>, failures' \in Nat, kills' \in Nat,
           issued \subseteq issued', issued' \subseteq Requests,
           answered' \in [Requests -> {"none", "applied", "rejected"}],
           \A r \in Requests : answered[r] # "none" => answered'[r] # "none",
           \A r \in Requests : answered'[r] # "none" => answered[r] # "none" \/ r \in seen
    PROVE  /\ OwnStep(OnPrem) /\ OnPrem \in Nodes /\ OnPrem \notin Researchers
           /\ pc'[OnPrem] = s
  <1>1. OnPrem \in Nodes /\ OnPrem \notin Researchers
    BY ExchangeAssumption DEF Nodes
  <1>2. TypeOK /\ UNCHANGED <<now, late, scenario>>
    BY DEF ExchangeInv, clock
  <1>3. pc' \in [Nodes -> Steps] /\ pc'[OnPrem] = s /\ \A m \in Nodes \ {OnPrem} : pc'[m] = pc[m]
    BY <1>1, <1>2 DEF TypeOK
  <1> QED BY <1>1, <1>2, <1>3 DEF OwnStep, TypeOK

\* A step of the round that neither asks nor answers.
LEMMA OwnRound ==
    ASSUME ExchangeInv, NEW s \in Steps, pc' = [pc EXCEPT ![OnPrem] = s],
           UNCHANGED <<job, tries, clock, issued, answered>>, failures' \in Nat, kills' \in Nat
    PROVE  /\ OwnStep(OnPrem) /\ OnPrem \in Nodes /\ OnPrem \notin Researchers
           /\ pc'[OnPrem] = s
  <1>1. /\ issued \subseteq issued' /\ issued' \subseteq Requests
        /\ answered' \in [Requests -> {"none", "applied", "rejected"}]
        /\ \A r \in Requests : answered[r] # "none" => answered'[r] # "none"
        /\ \A r \in Requests : answered'[r] # "none" => answered[r] # "none" \/ r \in seen
    BY DEF ExchangeInv, TypeOK
  <1>2. UNCHANGED <<job, tries, clock>>
    OBVIOUS
  <1> QED BY <1>1, <1>2, OwnOnPrem

LEMMA OnPremIs ==
    ASSUME ExchangeInv
    PROVE  /\ OnPrem \in Nodes /\ OnPrem \notin Researchers /\ Known(OnPrem) = issued
           /\ CloneFacts(OnPrem) /\ failures \in Nat /\ kills \in Nat /\ seen \subseteq issued
           /\ pc = [pc EXCEPT ![OnPrem] = pc[OnPrem]] /\ pc[OnPrem] \in Steps
           /\ Fails => failures' \in Nat
           /\ kills > 0 => kills - 1 \in Nat
  <1>1. OnPrem \in Nodes /\ OnPrem \notin Researchers
    BY ExchangeAssumption DEF Nodes
  <1>2. CloneFacts(OnPrem) /\ Known(OnPrem) = issued
    BY <1>1, CloneIs DEF Known
  <1> QED BY <1>1, <1>2 DEF ExchangeInv, TypeOK, Fails

LEMMA RoundStartsStep ==
    ASSUME ExchangeInv, RoundStarts
    PROVE  ExchangeInv'
  <1>1. CASE /\ PullAndReclaim(OnPrem, "fold")
             /\ UNCHANGED <<issued, answered, clock, kills>> /\ Research
    <2>1. PICK s \in {"reclaiming", "fold"} : pc' = [pc EXCEPT ![OnPrem] = s]
      BY <1>1 DEF PullAndReclaim, Goto
    <2>2. failures' \in Nat /\ kills' \in Nat /\ s \in Steps
      <3>1. Works \/ Fails
        BY <1>1 DEF PullAndReclaim, Pulled
      <3> QED BY <1>1, <2>1, <3>1, OnPremIs DEF Works, Steps
    <2>3. UNCHANGED <<job, tries, clock, issued, answered>>
      BY <1>1 DEF Research
    <2>4. OwnStep(OnPrem) /\ OnPrem \in Nodes
      BY <2>1, <2>2, <2>3, OwnRound
    <2>5. UNCHANGED job /\ "fold" \in Idle \ {"reclaiming"}
      BY <2>3 DEF Idle
    <2> QED BY <1>1, <2>4, <2>5, PullKeeps
  <1>2. CASE /\ Step(OnPrem, "off") /\ PullStopsHere(OnPrem)
             /\ UNCHANGED <<pc, onprem, clock, kills>> /\ Research
    <2> DEFINE c == clone[OnPrem]
               d == [c EXCEPT !.stopped = TRUE]
    <2>1. OwnStep(OnPrem) /\ OnPrem \in Nodes /\ OnPrem \notin Researchers /\ pc'[OnPrem] = "off"
      <3>1. pc[OnPrem] = "off" /\ failures' \in Nat /\ kills' \in Nat
            /\ UNCHANGED <<job, tries, clock, issued, answered>>
        BY <1>2, OnPremIs DEF Step, PullStopsHere, Works, onprem, Research
      <3>2. pc' = [pc EXCEPT ![OnPrem] = "off"] /\ "off" \in Steps
        BY <1>2, <3>1, OnPremIs
      <3> QED BY <3>1, <3>2, OwnRound
    <2>2. clone' = [clone EXCEPT ![OnPrem] = d] /\ UNCHANGED <<remote, seen, runs>>
      BY <1>2 DEF PullStopsHere, Set, Quiet
    <2>3. Ready(OnPrem, d, Known(OnPrem), World)
      BY <2>1, OnPremIs, StoppedReady DEF CloneFacts
    <2> HIDE DEF d
    <2>4. Ready(OnPrem, d, Known(OnPrem)', World')
      BY <2>1, <2>2, <2>3, ReadyStill
    <2>5. pc'[OnPrem] # "reclaiming"
      BY <2>1
    <2> QED BY <2>1, <2>2, <2>4, <2>5, QuietKeeps
  <1> QED BY <1>1, <1>2 DEF RoundStarts

LEMMA RoundReclaimsStep ==
    ASSUME ExchangeInv, RoundReclaims
    PROVE  ExchangeInv'
  <1>1. ReclaimPushed(OnPrem, "fold") /\ UNCHANGED <<onprem, clock, kills, job, tries>>
    BY DEF RoundReclaims, Research
  <1>2. pc' = [pc EXCEPT ![OnPrem] = "fold"] /\ failures' \in Nat /\ kills' \in Nat
        /\ "fold" \in Steps /\ "fold" \in Idle \ {"reclaiming"}
    <2>1. Works \/ Fails
      BY <1>1 DEF ReclaimPushed
    <2> QED BY <1>1, <2>1, OnPremIs DEF ReclaimPushed, Goto, Works, Steps, Idle
  <1>3. UNCHANGED <<job, tries, clock, issued, answered>>
    BY <1>1 DEF onprem
  <1>4. OwnStep(OnPrem) /\ OnPrem \in Nodes
    BY <1>2, <1>3, OwnRound
  <1>5. UNCHANGED <<job, answered, issued>>
    BY <1>3
  <1> QED BY <1>1, <1>2, <1>4, <1>5, ReclaimKeeps

LEMMA FoldOneStep ==
    ASSUME ExchangeInv, FoldOne
    PROVE  ExchangeInv'
  <1> DEFINE c == clone[OnPrem]
             wk == c.work
             tip == c.log[Len(c.log)]
  <1>1. PICK r \in Results(Work(OnPrem)) :
          \/ /\ Set(OnPrem, [c EXCEPT !.work[Res(r)] = NoFile])
             /\ answered' = [answered EXCEPT ![r] = "applied"]
          \/ /\ Set(OnPrem, [c EXCEPT !.work[Res(r)].at = "failed"])
             /\ answered' = [answered EXCEPT ![r] = IF @ = "applied" THEN @ ELSE "rejected"]
    BY DEF FoldOne, Set
  <1>2. /\ pc' = [pc EXCEPT ![OnPrem] = "folding"] /\ "folding" \in Steps
        /\ UNCHANGED <<remote, seen, runs, issued, failures, kills>>
        /\ UNCHANGED <<job, tries, clock>>
    BY DEF FoldOne, Goto, Research, Steps
  <1>3. /\ c \in Clones /\ Ready(OnPrem, c, issued, World) /\ wk \in Trees /\ tip \in Trees
        /\ Sound(tip, World) /\ Work(OnPrem) = wk /\ WorkOK(OnPrem, tip, wk, World, issued)
    BY OnPremIs DEF CloneFacts
  <1>4. r \in Requests /\ r \in seen /\ wk[Res(r)] \in Files
    <2>1. r \in Requests /\ wk[Res(r)].at = "results"
      BY <1>3 DEF Results
    <2>2. Done(tip, r)
      BY <1>3, <2>1 DEF WorkOK, Done
    <2>3. r \in seen
      BY <1>3, <2>1, <2>2, Worlds DEF Sound, SoundAt
    <2> QED BY <1>3, <2>1, <2>3, TreeFiles
  <1>5. PICK h \in Files :
          /\ h.at \in {"none", "failed"}
          /\ clone' = [clone EXCEPT ![OnPrem] = [c EXCEPT !.work = [wk EXCEPT ![Res(r)] = h]]]
    <2>1. CASE Set(OnPrem, [c EXCEPT !.work[Res(r)] = NoFile])
      BY <2>1, SomeFiles DEF Set
    <2>2. CASE Set(OnPrem, [c EXCEPT !.work[Res(r)].at = "failed"])
      <3> DEFINE f == wk[Res(r)]
                 h == [f EXCEPT !.at = "failed"]
      <3>1. h \in Files /\ h.at = "failed"
        BY <1>4 DEF Files
      <3>2. clone' = [clone EXCEPT ![OnPrem] = [c EXCEPT !.work = [wk EXCEPT ![Res(r)] = h]]]
        BY <2>2 DEF Set
      <3> HIDE DEF h, c, wk
      <3> QED BY <3>1, <3>2
    <2> QED BY <1>1, <2>1, <2>2
  <1>6. /\ answered' \in [Requests -> {"none", "applied", "rejected"}] /\ answered'[r] # "none"
        /\ \A s \in Requests : answered[s] # "none" => answered'[s] # "none"
        /\ \A s \in Requests : answered'[s] # "none" => answered[s] # "none" \/ s \in seen
    <2>1. answered \in [Requests -> {"none", "applied", "rejected"}]
      BY DEF ExchangeInv, TypeOK
    <2>2. PICK v \in {"applied", "rejected"} : answered' = [answered EXCEPT ![r] = v]
      BY <1>1
    <2> QED BY <1>4, <2>1, <2>2
  <1>7. OwnStep(OnPrem) /\ OnPrem \in Nodes /\ OnPrem \notin Researchers /\ pc'[OnPrem] = "folding"
    <2>1. issued \subseteq issued' /\ issued' \subseteq Requests /\ failures' \in Nat /\ kills' \in Nat
      BY <1>2 DEF ExchangeInv, TypeOK
    <2> QED BY <1>2, <1>6, <2>1, OwnOnPrem
  <1> DEFINE q == [wk EXCEPT ![Res(r)] = h]
  <1>8. Ready(OnPrem, c, issued, World') /\ Known(OnPrem)' = issued
    <2>1. Known(OnPrem) = issued /\ Known(OnPrem)' = issued
      BY <1>2 DEF Known
    <2> HIDE DEF c
    <2> QED BY <1>2, <1>3, <1>7, <2>1, ReadyStill
  <1>9. q \in Trees /\ WorkOK(OnPrem, tip, q, World', issued)
    <2>1. WorkOK(OnPrem, tip, wk, World', issued)
      BY <1>8 DEF Ready
    <2>2. r \in World'.answered /\ r \in Results(wk)
      BY <1>3, <1>4, <1>6, Worlds
    <2>3. q = [wk EXCEPT ![Res(r)] = h]
      OBVIOUS
    <2> HIDE DEF q, tip, wk
    <2> QED BY <1>3, <1>5, <2>1, <2>2, <2>3, FoldedWork
  <1> HIDE DEF q
  <1>10. Ready(OnPrem, [c EXCEPT !.work = q], issued, World')
    <2> HIDE DEF c
    <2> QED BY <1>8, <1>9, WorkReady DEF tip
  <1> DEFINE d == [c EXCEPT !.work = q]
  <1>11. clone' = [clone EXCEPT ![OnPrem] = d]
    BY <1>5 DEF q
  <1>12. Ready(OnPrem, d, Known(OnPrem)', World') /\ pc'[OnPrem] # "reclaiming"
    BY <1>7, <1>8, <1>10
  <1> HIDE DEF d
  <1> QED BY <1>2, <1>7, <1>11, <1>12, QuietKeeps

\* A push that may be refused or fail is a push, or leaves the exchange alone.
LEMMA BestEffort ==
    ASSUME ExchangeInv, NEW c, PushBestEffort(OnPrem, c)
    PROVE  (Accepts(OnPrem, c) \/ (Set(OnPrem, c) /\ Quiet)) /\ failures' \in Nat
  BY OnPremIs DEF PushBestEffort, PushFails, Works

LEMMA FoldCommitsStep ==
    ASSUME ExchangeInv, FoldCommits
    PROVE  ExchangeInv'
  <1> DEFINE c == clone[OnPrem]
             d == Commit(c, c.work)
  <1>1. /\ Ready(OnPrem, c, issued, World) /\ c.work \in Trees /\ Work(OnPrem) = c.work
        /\ WorkOK(OnPrem, c.log[Len(c.log)], c.work, World, issued)
    BY OnPremIs DEF CloneFacts
  <1>2. PushBestEffort(OnPrem, d)
    BY <1>1 DEF FoldCommits
  <1>3. Ready(OnPrem, d, issued, World)
    <2> HIDE DEF c
    <2> QED BY <1>1, WorkCommits
  <1> HIDE DEF d
  <1>4. /\ Accepts(OnPrem, d) \/ (Set(OnPrem, d) /\ Quiet)
        /\ failures' \in Nat
    BY <1>2, BestEffort
  <1>5. /\ pc' = [pc EXCEPT ![OnPrem] = "enqueue"] /\ "enqueue" \in Steps /\ kills' \in Nat
        /\ UNCHANGED <<job, tries, clock, issued, answered>>
    BY OnPremIs DEF FoldCommits, Goto, Research, Steps, onprem
  <1>6. OwnStep(OnPrem) /\ OnPrem \in Nodes /\ OnPrem \notin Researchers /\ pc'[OnPrem] = "enqueue"
    BY <1>4, <1>5, OwnRound
  <1>7. issued = (IF OnPrem = OnPrem THEN issued' ELSE seen) /\ UNCHANGED answered
        /\ pc'[OnPrem] # "reclaiming"
    BY <1>5, <1>6
  <1> QED BY <1>3, <1>4, <1>6, <1>7, MaybePushed

LEMMA NothingToFoldStep ==
    ASSUME ExchangeInv, NothingToFold
    PROVE  ExchangeInv'
  <1>1. /\ pc' = [pc EXCEPT ![OnPrem] = "enqueue"] /\ "enqueue" \in Steps
        /\ failures' \in Nat /\ kills' \in Nat
        /\ UNCHANGED <<job, tries, clock, issued, answered>>
        /\ UNCHANGED <<remote, seen, runs, clone>>
    BY OnPremIs DEF NothingToFold, Goto, Research, Steps, onprem
  <1>2. OwnStep(OnPrem) /\ OnPrem \in Nodes /\ OnPrem \notin Researchers /\ pc'[OnPrem] = "enqueue"
    BY <1>1, OwnRound
  <1>3. /\ clone' = [clone EXCEPT ![OnPrem] = clone[OnPrem]]
        /\ Ready(OnPrem, clone[OnPrem], Known(OnPrem)', World')
    BY <1>1, <1>2, SameClone
  <1>4. pc'[OnPrem] # "reclaiming" /\ UNCHANGED <<remote, seen, runs>>
    BY <1>1, <1>2
  <1> QED BY <1>2, <1>3, <1>4, QuietKeeps

\* New requests are for pages that have none in flight, one for each.
NewOK(new, wk) ==
    /\ new \subseteq Requests /\ new \cap issued = {}
    /\ \A r \in new : Older(r, wk) = {}
    /\ \A r \in new : \A s \in Requests :
          KeyOf[s] = KeyOf[r] =>
             /\ wk[Req(s)].at \notin {"pending", "claimed"}
             /\ s \in new => s = r

LEMMA NewRequests ==
    ASSUME NEW keys, keys \cap InFlight = {}, NEW new, new = NextOfAll(keys)
    PROVE  NewOK(new, Work(OnPrem))
  <1>1. ASSUME NEW r \in new
        PROVE  /\ r \in Requests \ issued /\ KeyOf[r] \in keys
               /\ \A s \in Requests \ issued : KeyOf[s] = KeyOf[r] => r <= s
    BY DEF NextOfAll, NextOf
  <1>2. ASSUME NEW r \in new, NEW s \in Requests, KeyOf[s] = KeyOf[r]
        PROVE  /\ Work(OnPrem)[Req(s)].at \notin {"pending", "claimed"}
               /\ s \in new => s = r
    <2>1. KeyOf[s] \notin InFlight
      BY <1>1, <1>2
    <2>2. r \in Nat /\ s \in Nat
      BY <1>1, ExchangeAssumption
    <2>3. s \in new => s <= r /\ r <= s
      BY <1>1, <1>2
    <2>4. s \in new => s = r
      BY <2>2, <2>3
    <2>5. Work(OnPrem)[Req(s)].at \notin {"pending", "claimed"}
      BY <2>1 DEF InFlight
    <2> QED BY <2>4, <2>5
  <1>3. ASSUME NEW r \in new PROVE Older(r, Work(OnPrem)) = {}
    BY <1>2, <1>3 DEF Older, Waiting
  <1> QED BY <1>1, <1>2, <1>3 DEF NewOK

\* A working tree with new requests in it.
LEMMA Asked ==
    ASSUME ExchangeInv, NEW new, NewOK(new, Work(OnPrem)), NEW A, A = issued \cup new,
           NEW q, q = WithRequests(Work(OnPrem), new)
    PROVE  /\ Ready(OnPrem, clone[OnPrem], A, World) /\ q \in Trees
           /\ WorkOK(OnPrem, Tip(OnPrem), q, World, A)
           /\ Tip(OnPrem) = clone[OnPrem].log[Len(clone[OnPrem].log)]
           /\ \A r \in Requests : q[Req(r)] = IF r \in new THEN First ELSE Work(OnPrem)[Req(r)]
           /\ new # {} => q # Tip(OnPrem)
  <1> DEFINE c == clone[OnPrem]
             wk == Work(OnPrem)
             tip == Tip(OnPrem)
  <1>1. /\ Ready(OnPrem, c, issued, World) /\ tip = c.log[Len(c.log)] /\ tip \in Trees
        /\ Sound(tip, World) /\ Within(tip, issued) /\ wk \in Trees
        /\ WorkOK(OnPrem, tip, wk, World, issued) /\ World.seen \subseteq issued
    BY OnPremIs, Worlds DEF CloneFacts
  <1>2. /\ new \subseteq Requests /\ new \cap issued = {}
        /\ \A r \in new : Older(r, wk) = {}
    BY DEF NewOK
  <1>3. q = WithRequests(wk, new)
    OBVIOUS
  <1> DEFINE w == World
  <1> HIDE DEF c, wk, tip, w
  <1>4. NewTreeOK(tip, wk, w, issued, new, q)
    <2>1. /\ tip \in Trees /\ wk \in Trees /\ WorkOK(OnPrem, tip, wk, w, issued)
          /\ Sound(tip, w) /\ Within(tip, issued) /\ w.seen \subseteq issued
      BY <1>1 DEF w
    <2> QED BY ONLY <1>2, <1>3, <2>1, NewTree
  <1>6. /\ q \in Trees /\ WorkOK(OnPrem, tip, q, World, A)
        /\ \A r \in Requests : q[Req(r)] = IF r \in new THEN First ELSE wk[Req(r)]
        /\ new # {} => q # tip
    BY <1>4 DEF NewTreeOK, w
  <1>5. Ready(OnPrem, c, A, World)
    BY <1>1, ReadyWider
  <1> QED BY <1>1, <1>5, <1>6 DEF c, wk, tip

LEMMA EnqueueNew ==
    ASSUME ExchangeInv, Enqueue
    PROVE  \E new :
             /\ NewOK(new, Work(OnPrem)) /\ issued' = issued \cup new
             /\ \/ UNCHANGED clone /\ Quiet /\ failures' = failures
                \/ new # {} /\ PushBestEffort(OnPrem,
                      Commit(clone[OnPrem], WithRequests(Work(OnPrem), new)))
  <1> DEFINE keys == (ToResearch \ scenario.leaky) \cup ToReview
             new == NextOfAll(keys)
  <1>1. keys \cap InFlight = {}
    BY DEF ToResearch, ToReview
  <1>2. NewOK(new, Work(OnPrem))
    <2> HIDE DEF keys
    <2> QED BY <1>1, NewRequests
  <1>3. /\ issued' = issued \cup new
        /\ \/ UNCHANGED clone /\ Quiet /\ failures' = failures
           \/ new # {} /\ PushBestEffort(OnPrem,
                      Commit(clone[OnPrem], WithRequests(Work(OnPrem), new)))
    BY DEF Enqueue, Works
  <1> QED BY <1>2, <1>3

LEMMA EnqueueStep ==
    ASSUME ExchangeInv, Enqueue
    PROVE  ExchangeInv'
  <1> DEFINE c == clone[OnPrem]
  <1>1. PICK new :
          /\ NewOK(new, Work(OnPrem)) /\ issued' = issued \cup new
          /\ \/ UNCHANGED clone /\ Quiet /\ failures' = failures
             \/ new # {} /\ PushBestEffort(OnPrem, Commit(c, WithRequests(Work(OnPrem), new)))
    BY EnqueueNew
  <1> DEFINE q == WithRequests(Work(OnPrem), new)
             d == Commit(c, q)
  <1>2. /\ pc' = [pc EXCEPT ![OnPrem] = "off"] /\ "off" \in Steps /\ kills' \in Nat
        /\ UNCHANGED <<job, tries, clock>> /\ UNCHANGED answered
    BY OnPremIs DEF Enqueue, Goto, Research, Steps
  <1>3. failures' \in Nat
    BY <1>1, OnPremIs, BestEffort
  <1>4. OwnStep(OnPrem) /\ OnPrem \in Nodes /\ OnPrem \notin Researchers /\ pc'[OnPrem] = "off"
    <2>1. /\ issued \subseteq issued' /\ issued' \subseteq Requests
          /\ answered' \in [Requests -> {"none", "applied", "rejected"}]
          /\ \A r \in Requests : answered[r] # "none" => answered'[r] # "none"
          /\ \A r \in Requests : answered'[r] # "none" => answered[r] # "none" \/ r \in seen
      BY <1>1, <1>2 DEF ExchangeInv, TypeOK, NewOK
    <2> QED BY <1>2, <1>3, <2>1, OwnOnPrem
  <1>5. CASE UNCHANGED clone /\ Quiet
    <2>1. UNCHANGED <<remote, seen, runs, clone>>
      BY <1>5 DEF Quiet
    <2>2. /\ clone' = [clone EXCEPT ![OnPrem] = clone[OnPrem]]
          /\ Ready(OnPrem, clone[OnPrem], Known(OnPrem)', World')
      BY <1>4, <2>1, SameClone
    <2>3. pc'[OnPrem] # "reclaiming"
      BY <1>4
    <2> QED BY <1>4, <2>1, <2>2, <2>3, QuietKeeps
  <1>6. CASE PushBestEffort(OnPrem, d)
    <2> DEFINE A == issued'
    <2>1. /\ Ready(OnPrem, c, A, World) /\ q \in Trees
          /\ WorkOK(OnPrem, c.log[Len(c.log)], q, World, A)
      <3>1. A = issued \cup new
        BY <1>1
      <3> HIDE DEF A
      <3> QED BY <1>1, <3>1, Asked
    <2>2. Ready(OnPrem, d, A, World)
      <3> HIDE DEF c, q, A
      <3> QED BY <2>1, WorkCommits
    <2>3. Accepts(OnPrem, d) \/ (Set(OnPrem, d) /\ Quiet)
      <3> HIDE DEF d
      <3> QED BY <1>6, BestEffort
    <2>4. A = (IF OnPrem = OnPrem THEN issued' ELSE seen) /\ pc'[OnPrem] # "reclaiming"
          /\ UNCHANGED answered
      BY <1>2, <1>4
    <2> HIDE DEF d, A
    <2> QED BY <1>4, <2>2, <2>3, <2>4, MaybePushed
  <1> QED BY <1>1, <1>5, <1>6

\* A round that stops in the middle.
LEMMA WritesSomeKeeps ==
    ASSUME ExchangeInv, NEW new, NewOK(new, Work(OnPrem)), WritesSome(new),
           pc' = [pc EXCEPT ![OnPrem] = "off"],
           UNCHANGED <<remote, seen, runs, job, tries, clock, answered>>,
           failures' \in Nat, kills' \in Nat
    PROVE  ExchangeInv'
  <1> DEFINE c == clone[OnPrem]
             q == WithRequests(c.work, new)
             d == [c EXCEPT !.work = q]
             A == issued'
  <1>1. issued' = issued \cup new /\ clone' = [clone EXCEPT ![OnPrem] = d]
    BY DEF WritesSome, Set
  <1>2. OwnStep(OnPrem) /\ OnPrem \in Nodes /\ OnPrem \notin Researchers /\ pc'[OnPrem] = "off"
    <2>1. /\ issued \subseteq issued' /\ issued' \subseteq Requests
          /\ answered' \in [Requests -> {"none", "applied", "rejected"}]
          /\ \A r \in Requests : answered[r] # "none" => answered'[r] # "none"
          /\ \A r \in Requests : answered'[r] # "none" => answered[r] # "none" \/ r \in seen
      BY <1>1 DEF ExchangeInv, TypeOK, NewOK
    <2>2. "off" \in Steps /\ UNCHANGED <<job, tries, clock>>
      BY DEF Steps
    <2> QED BY <2>1, <2>2, OwnOnPrem
  <1>3. /\ Ready(OnPrem, c, A, World) /\ q \in Trees
        /\ WorkOK(OnPrem, c.log[Len(c.log)], q, World, A)
    <2>1. A = issued \cup new /\ q = WithRequests(Work(OnPrem), new)
      BY <1>1 DEF Work
    <2> HIDE DEF A, q
    <2> QED BY <2>1, Asked
  <1>4. Ready(OnPrem, d, A, World)
    <2> HIDE DEF c, q, A
    <2> QED BY <1>3, WorkReady
  <1>5. World' = World /\ Known(OnPrem)' = A /\ UNCHANGED <<remote, seen, runs>>
    BY DEF World, Known, clock
  <1>6. Ready(OnPrem, d, Known(OnPrem)', World') /\ pc'[OnPrem] # "reclaiming"
    BY <1>2, <1>4, <1>5
  <1> HIDE DEF d
  <1> QED BY <1>1, <1>2, <1>5, <1>6, QuietKeeps

LEMMA EnqueueRaisesStep ==
    ASSUME ExchangeInv, EnqueueRaises
    PROVE  ExchangeInv'
  <1>1. PICK some \in SUBSET (ToReview \ scenario.leaky) :
          WritesSome(NextOfAll((ToResearch \ scenario.leaky) \cup some))
    BY DEF EnqueueRaises
  <1> DEFINE keys == (ToResearch \ scenario.leaky) \cup some
             new == NextOfAll(keys)
  <1>2. keys \cap InFlight = {}
    BY DEF ToResearch, ToReview
  <1>3. NewOK(new, Work(OnPrem))
    <2> HIDE DEF keys
    <2> QED BY <1>2, NewRequests
  <1>4. /\ WritesSome(new) /\ pc' = [pc EXCEPT ![OnPrem] = "off"]
        /\ UNCHANGED <<remote, seen, runs, job, tries, clock, answered>>
        /\ failures' \in Nat /\ kills' \in Nat
    BY <1>1, OnPremIs DEF EnqueueRaises, Goto, Research
  <1> HIDE DEF new
  <1> QED BY <1>3, <1>4, WritesSomeKeeps

LEMMA RoundKilledStep ==
    ASSUME ExchangeInv, RoundKilled
    PROVE  ExchangeInv'
  <1>1. /\ pc' = [pc EXCEPT ![OnPrem] = "off"] /\ "off" \in Steps
        /\ UNCHANGED <<remote, seen, runs, job, tries, clock, answered>>
        /\ failures' \in Nat /\ kills' \in Nat
    BY OnPremIs DEF RoundKilled, Goto, Research, Steps
  <1>2. CASE UNCHANGED <<clone, issued>>
    <2>1. OwnStep(OnPrem) /\ OnPrem \in Nodes /\ OnPrem \notin Researchers /\ pc'[OnPrem] = "off"
      <3>1. UNCHANGED <<job, tries, clock, issued, answered>>
        BY <1>1, <1>2
      <3> QED BY <1>1, <3>1, OwnRound
    <2>2. UNCHANGED <<remote, seen, runs, clone>>
      BY <1>1, <1>2
    <2>3. /\ clone' = [clone EXCEPT ![OnPrem] = clone[OnPrem]]
          /\ Ready(OnPrem, clone[OnPrem], Known(OnPrem)', World')
      BY <2>1, <2>2, SameClone
    <2>4. pc'[OnPrem] # "reclaiming"
      BY <2>1
    <2> QED BY <2>1, <2>2, <2>3, <2>4, QuietKeeps
  <1>3. CASE \E some \in SUBSET (ToResearch \ scenario.leaky) :
                some # {} /\ WritesSome(NextOfAll(some))
    <2>1. PICK some \in SUBSET (ToResearch \ scenario.leaky) : WritesSome(NextOfAll(some))
      BY <1>3
    <2> DEFINE new == NextOfAll(some)
    <2>2. some \cap InFlight = {}
      BY DEF ToResearch
    <2>3. NewOK(new, Work(OnPrem)) /\ WritesSome(new)
      BY <2>1, <2>2, NewRequests
    <2> HIDE DEF new
    <2> QED BY <1>1, <2>3, WritesSomeKeeps
  <1> QED BY <1>2, <1>3 DEF RoundKilled

\* Time passes: every request that is being worked on is late now.
LEMMA LaterWorld ==
    ASSUME ExchangeInv, Elapses
    PROVE  /\ WorldOK(World') /\ Onward(World, World')
           /\ World'.seen = World.seen /\ World'.remote = World.remote
  <1> DEFINE w == World
             w2 == World'
  <1>1. /\ w2.seen = w.seen /\ w2.remote = w.remote /\ w2.runs = w.runs
        /\ w2.now = w.now + 1 /\ w.late \subseteq w2.late /\ w2.answered = w.answered
    BY Worlds DEF Elapses, onprem
  <1>2. WorldOK(w)
    BY DEF ExchangeInv
  <1> HIDE DEF w, w2
  <1>3. w.remote \in Trees /\ w.runs \in [Requests -> Nat] /\ w.now \in Nat /\ w.seen \subseteq Requests
    BY <1>2 DEF WorldOK
  <1>4. Onward(w, w2)
    <2>1. \A r \in Requests : Rank(w.remote[Req(r)]) \in 0 .. 3
      BY <1>3, TreeFiles, RankIs
    <2> QED BY <1>1, <1>3, <2>1 DEF Onward
  <1>5. Sound(w2.remote, w2)
    BY <1>1, <1>2, <1>4, SoundLater DEF WorldOK
  <1>6. \A r \in w2.seen : Accounted(w2.remote, w2, r)
    BY <1>1, <1>2, <1>3, <1>4, AccountedLater DEF WorldOK
  <1>7. WorldOK(w2)
    <2>1. w2.now \in Nat
      BY <1>1, <1>3
    <2> QED BY <1>1, <1>2, <1>5, <1>6, <2>1 DEF WorldOK
  <1> QED BY <1>1, <1>4, <1>7 DEF w, w2

LEMMA ElapsesStep ==
    ASSUME ExchangeInv, Elapses
    PROVE  ExchangeInv'
  <1>1. /\ TypeOK /\ seen \subseteq issued /\ seen \subseteq Requests
        /\ UNCHANGED <<remote, seen, runs, clone, pc, job, tries, issued, answered,
                       failures, kills, scenario>>
        /\ now' = now + 1 /\ late \subseteq late'
        /\ late' = late \cup {job[a].req : a \in {b \in Researchers : job[b] # NoJob}}
    BY DEF ExchangeInv, TypeOK, Elapses, onprem
  <1>2. /\ WorldOK(World') /\ WorldOK(World) /\ Onward(World, World')
        /\ World'.seen = World.seen /\ World'.remote = World.remote
    BY LaterWorld DEF ExchangeInv
  <1>3. ASSUME NEW a \in Researchers
        PROVE  /\ pc[a] \in {"claiming", "running", "answering"} =>
                     job[a].req \in late' /\ job[a].req \in seen
               /\ pc[a] \notin {"claiming", "running", "answering"} => job[a] = NoJob
    <2>1. JobOK(a)
      BY DEF ExchangeInv
    <2>2. ASSUME pc[a] \in {"claiming", "running", "answering"}
          PROVE  job[a].req \in late' /\ job[a].req \in seen
      <3>1. job[a].req \in seen
        BY <2>1, <2>2 DEF JobOK
      <3>2. job[a].req # 0
        BY <1>1, <3>1, ExchangeAssumption
      <3>3. job[a] # NoJob
        BY <3>2 DEF NoJob
      <3> QED BY <1>1, <3>1, <3>3
    <2> QED BY <2>1, <2>2 DEF JobOK
  <1>4. TypeOK'
    <2>1. late' \subseteq Requests
      <3> SUFFICES ASSUME NEW a \in Researchers, job[a] # NoJob
                   PROVE  job[a].req \in Requests
        BY <1>1 DEF TypeOK
      <3> QED BY <1>1, <1>3
    <2>2. now' \in Nat
      BY <1>1 DEF TypeOK
    <2> QED BY <1>1, <2>1, <2>2 DEF TypeOK
  <1>5. ASSUME NEW n \in Nodes PROVE CloneOK(n)'
    <2>1. Ready(n, clone[n], Known(n), World) /\ clone[n] \in Clones
      BY CloneIs DEF CloneFacts
    <2>2. Known(n) \subseteq Known(n)'
      BY <1>1 DEF Known
    <2> DEFINE w == World
               w2 == World'
               A == Known(n)
               A2 == Known(n)'
               c == clone[n]
    <2>3. /\ WorldOK(w) /\ WorldOK(w2) /\ Onward(w, w2) /\ w2.seen = w.seen /\ w2.remote = w.remote
          /\ A \subseteq A2 /\ Ready(n, c, A, w) /\ c \in Clones
      BY <1>2, <2>1, <2>2
    <2>4. Ready(n, c, A2, w2)
      <3> HIDE DEF w, w2, A, A2, c
      <3> QED BY <2>3, ReadyLater
    <2> QED BY <1>1, <2>4 DEF CloneOK
  <1>6. ASSUME NEW n \in Nodes, pc'[n] = "reclaiming" PROVE ReclaimOK(n)'
    <2>1. ReclaimOK(n)
      BY <1>1, <1>6 DEF ExchangeInv
    <2> QED BY <1>1, <2>1 DEF ReclaimOK, Tip, Work
  <1>7. ASSUME NEW a \in Researchers PROVE JobOK(a)'
    <2>1. JobOK(a)
      BY DEF ExchangeInv
    <2>2. ASSUME NEW p, NEW q, AnswerTo(job[a].req, p, q, World)
          PROVE  AnswerTo(job[a].req, p, q, World')
      BY <1>1, <2>2, Worlds DEF AnswerTo
    <2> QED BY <1>1, <1>3, <2>1, <2>2 DEF JobOK, Tip
  <1> QED BY <1>1, <1>2, <1>4, <1>5, <1>6, <1>7 DEF ExchangeInv

-----------------------------------------------------------------------------
(* All of them.                                                            *)

LEMMA Starts == Init => ExchangeInv
  <1> SUFFICES ASSUME Init PROVE ExchangeInv
    OBVIOUS
  <1> DEFINE w == World
             fresh == [log |-> <<EmptyTree>>, work |-> EmptyTree,
                       current |-> TRUE, stopped |-> FALSE]
  <1>1. NoFile \in Files /\ EmptyTree \in Trees
    BY SomeFiles DEF EmptyTree, Trees
  <1>2. ASSUME NEW r \in Requests
        PROVE  /\ EmptyTree[Req(r)] = NoFile /\ EmptyTree[Res(r)] = NoFile
               /\ At(EmptyTree, r) = "none" /\ ~ Done(EmptyTree, r)
    <2>1. Req(r) \in Names /\ Res(r) \in Names
      BY <1>1, TreeFiles
    <2>2. EmptyTree[Req(r)] = NoFile /\ EmptyTree[Res(r)] = NoFile
      BY <2>1 DEF EmptyTree
    <2> QED BY <2>2 DEF At, Done, NoFile
  <1>3. /\ w.seen = {} /\ w.remote = EmptyTree /\ w.runs = [r \in Requests |-> 0] /\ w.now = 0
        /\ w.answered = {}
    BY Worlds DEF Init
  <1>4. Sound(EmptyTree, w) /\ \A A : Within(EmptyTree, A)
    <2> HIDE DEF w
    <2>1. ASSUME NEW r \in Requests PROVE SoundAt(EmptyTree, r, w)
      BY <1>2 DEF SoundAt, NoFile
    <2> QED BY <1>2, <2>1 DEF Sound, Within
  <1>5. WorldOK(w)
    <2> HIDE DEF w
    <2>1. \A r \in Requests : Cost(w.remote[Req(r)]) <= w.runs[r]
      BY <1>2, <1>3 DEF Cost, NoFile
    <2> QED BY <1>1, <1>3, <1>4, <2>1 DEF WorldOK
  <1>6. fresh \in Clones /\ fresh.log = <<EmptyTree>> /\ fresh.work = EmptyTree
    BY <1>1 DEF Clones
  <1>7. ASSUME NEW n \in Nodes PROVE CloneOK(n)
    <2>1. clone[n] = fresh
      BY DEF Init
    <2> DEFINE one == <<EmptyTree>>
               A == Known(n)
    <2>2. LogOK(n, one, A, w) /\ Len(one) = 1 /\ one[1] = EmptyTree
      <3> HIDE DEF w, A
      <3> QED BY <1>1, <1>2, <1>4, OneTree
    <2>3. fresh.log = one /\ fresh.work = one[Len(one)] /\ fresh.log[1] = w.remote
      BY <1>3, <1>6, <2>2
    <2>4. Ready(n, fresh, A, w)
      <3> HIDE DEF w, A, fresh, one
      <3> QED BY <1>6, <2>2, <2>3, CleanReady
    <2> QED BY <2>1, <2>4 DEF CloneOK
  <1>8. TypeOK
    <2>1. scenario.failures \in Nat /\ scenario.kills \in Nat
      BY ExchangeAssumption DEF Init
    <2>2. clone \in [Nodes -> Clones]
      BY <1>6 DEF Init
    <2>3. job \in [Researchers -> Jobs]
      BY <1>1 DEF Init, NoJob, Jobs
    <2>4. "off" \in Steps
      BY DEF Steps
    <2> QED BY <1>1, <2>1, <2>2, <2>3, <2>4 DEF Init, TypeOK
  <1>9. \A n \in Nodes : pc[n] = "off"
    BY DEF Init
  <1>10. ASSUME NEW a \in Researchers PROVE JobOK(a)
    <2>1. pc[a] = "off" /\ job[a] = NoJob
      BY <1>9 DEF Init, Nodes
    <2> QED BY <2>1 DEF JobOK
  <1> QED BY <1>5, <1>7, <1>8, <1>9, <1>10 DEF ExchangeInv, Init

LEMMA Stutters ==
    ASSUME ExchangeInv, UNCHANGED vars
    PROVE  ExchangeInv'
  <1>1. UNCHANGED <<remote, seen, runs, late, clone, pc, job, tries, issued, answered, now,
                    failures, kills, scenario>>
    BY DEF vars
  <1>2. World' = World
    BY <1>1 DEF World
  <1>3. TypeOK' /\ WorldOK(World') /\ (seen \subseteq issued)'
    BY <1>1, <1>2 DEF ExchangeInv, TypeOK
  <1>4. ASSUME NEW n \in Nodes PROVE CloneOK(n)'
    BY <1>1, <1>2 DEF ExchangeInv, CloneOK, Known
  <1>5. ASSUME NEW n \in Nodes, pc'[n] = "reclaiming" PROVE ReclaimOK(n)'
    BY <1>1, <1>5 DEF ExchangeInv, ReclaimOK, Tip, Work
  <1>6. ASSUME NEW a \in Researchers PROVE JobOK(a)'
    BY <1>1, <1>2 DEF ExchangeInv, JobOK, Tip
  <1> QED BY <1>3, <1>4, <1>5, <1>6 DEF ExchangeInv

\* Whatever happens, the clones, the commands and the remote fit each other.
LEMMA EveryStep ==
    ASSUME ExchangeInv, Next
    PROVE  ExchangeInv'
  <1>1. scenario.team \subseteq Researchers
    <2>1. scenario \in Scenarios
      BY DEF ExchangeInv, TypeOK
    <2> QED BY <2>1, ExchangeAssumption
  <1>2. ASSUME NEW a \in scenario.team, Claim(a) PROVE ExchangeInv'
    BY <1>1, <1>2, PullStep, ReclaimStep, ClaimSelectsStep, NothingToClaimStep,
       ClaimPushedStep, ClaimRejectedStep, ClaimPushFailsStep DEF Claim
  <1>3. ASSUME NEW a \in scenario.team, Answer(a) PROVE ExchangeInv'
    BY <1>1, <1>3, CompleteStep, FailRequestStep, AnswerPushedStep, AnswerRebasedStep DEF Answer
  <1>4. ASSUME NEW a \in scenario.team, ResearcherKilled(a) PROVE ExchangeInv'
    BY <1>1, <1>4, ResearcherKilledStep
  <1>5. ASSUME Round PROVE ExchangeInv'
    BY <1>5, RoundStartsStep, RoundReclaimsStep, FoldOneStep, FoldCommitsStep,
       NothingToFoldStep, EnqueueStep, EnqueueRaisesStep DEF Round
  <1> QED BY <1>2, <1>3, <1>4, <1>5, RoundKilledStep, ElapsesStep DEF Next

\* The clones, the commands at work and the remote always fit each other, for
\* any number of researchers, requests and pages (ExchangeInv).
THEOREM ExchangeHolds == Spec => []ExchangeInv
  <1>1. ExchangeInv /\ [Next]_vars => ExchangeInv'
    BY EveryStep, Stutters
  <1> QED BY <1>1, Starts, PTL DEF Spec

\* Whatever Git merges, the exchange stays readable: every file holds what
\* exchange.py puts there (TypeOK).
THEOREM TypeCorrect == Spec => []TypeOK
  <1>1. ExchangeInv => TypeOK
    BY DEF ExchangeInv
  <1> QED BY <1>1, ExchangeHolds, PTL

\* As long as nobody was slower with it than the stale budget, the remote
\* shows the request a researcher works on as claimed by it, whatever the
\* others push, reclaim or enqueue, with stale clones too (exchange.claim).
THEOREM FreshClaimsStand == Spec => []FreshClaimStands
  <1>1. ExchangeInv => FreshClaimStands
    BY DEF ExchangeInv, JobOK, FreshClaimStands
  <1> QED BY <1>1, ExchangeHolds, PTL

\* A dead run counts once, although both sides reclaim it: the attempts of a
\* request never exceed the runs started for it (exchange.reclaim_stale).
THEOREM DeadRunsCountOnce == Spec => []AttemptsAreRuns
  <1>1. ExchangeInv => AttemptsAreRuns
    <2> SUFFICES ASSUME ExchangeInv, NEW r \in Requests
                 PROVE  remote[Req(r)].attempts <= runs[r]
      BY DEF AttemptsAreRuns
    <2>1. Cost(remote[Req(r)]) <= runs[r] /\ remote \in Trees /\ runs[r] \in Nat
      BY Worlds DEF ExchangeInv, TypeOK, WorldOK
    <2>2. remote[Req(r)] \in Files
      BY <2>1, TreeFiles
    <2>3. remote[Req(r)].attempts \in Nat
      BY <2>2 DEF Files
    <2> QED BY <2>1, <2>3 DEF Cost
  <1> QED BY <1>1, ExchangeHolds, PTL

\* A request that reached the exchange is not dropped by any merge, retry,
\* rejected push or kill: it or its result is there, its result was dealt
\* with, or a newer one of its page was asked (exchange.claim, .complete).
THEOREM NoRequestIsLost == Spec => []EveryRequestIsAccountedFor
  <1>1. ExchangeInv => EveryRequestIsAccountedFor
    <2> SUFFICES ASSUME ExchangeInv, NEW r \in seen
                 PROVE  \/ remote[Req(r)].at # "none"
                        \/ remote[Res(r)].at # "none"
                        \/ answered[r] # "none"
                        \/ \E s \in seen : KeyOf[s] = KeyOf[r] /\ r < s
      BY DEF EveryRequestIsAccountedFor
    <2>1. /\ Accounted(remote, World, r) /\ Within(remote, seen)
          /\ World.answered = {s \in Requests : answered[s] # "none"} /\ World.seen = seen
      BY Worlds DEF ExchangeInv, WorldOK
    <2> QED BY <2>1 DEF Accounted, At, Done, Within
  <1> QED BY <1>1, ExchangeHolds, PTL

-----------------------------------------------------------------------------
(* One request per page is out at a time.                                  *)
(*                                                                         *)
(* A replayed commit may bring a request that the clone never heard of, so *)
(* this holds because the on-prem clone has heard of every request that is *)
(* out: it is the only one that asks, and its commits drop none (Kept).    *)
(* It forgets only what it left uncommitted, when the reclaim that swept   *)
(* that up is dropped although its push got through (not Tidy).             *)

InFlightIn(t, r) == At(t, r) \in {"pending", "claimed"}
OneOut(t) ==
    \A r, s \in Requests :
        KeyOf[r] = KeyOf[s] /\ InFlightIn(t, r) /\ InFlightIn(t, s) => r = s

Kept(log) ==
    \A i \in 2 .. Len(log) : \A r \in Requests : At(log[i - 1], r) # "none" => At(log[i], r) # "none"

OneLog(log, w) ==
    /\ \A i \in 1 .. Len(log) : OneOut(log[i])
    /\ Kept(log)
    /\ \A r \in w.seen : At(log[1], r) = "none" => At(w.remote, r) = "none"

OneState(c, w) == OneOut(w.remote) /\ OneOut(c.work) /\ OneLog(c.log, w)

\* No request is left uncommitted, nor swept up by a reclaim.
Whole(c) == \A r \in Requests : c.work[Req(r)] = c.log[Len(c.log)][Req(r)]
NothingNew(log) ==
    \A r \in Requests : At(log[Len(log) - 1], r) = "none" => At(log[Len(log)], r) = "none"

OneInv ==
    /\ failures <= scenario.failures /\ kills <= scenario.kills
    /\ NeverHalf =>
         /\ Whole(clone[OnPrem])
         /\ pc[OnPrem] = "reclaiming" => NothingNew(clone[OnPrem].log)
    /\ Tidy => OneState(clone[OnPrem], World)

\* What a clone had heard of it still has.
LEMMA KeptAlong ==
    ASSUME NEW n, NEW log, NEW A, NEW w, LogOK(n, log, A, w), Kept(log), NEW r \in Requests,
           At(log[1], r) # "none"
    PROVE  \A i \in 1 .. Len(log) : At(log[i], r) # "none"
  <1> DEFINE L == Len(log)
             G == {i \in 1 .. L : At(log[i], r) # "none"}
  <1>1. L \in Nat /\ L >= 1
    BY LogTrees
  <1>2. \A i \in 2 .. L : At(log[i - 1], r) # "none" => At(log[i], r) # "none"
    BY DEF Kept
  <1> HIDE DEF L
  <1>3. 1 \in G
    BY <1>1
  <1>4. \A i \in 2 .. L : i - 1 \in G => i \in G
    BY <1>1, <1>2
  <1> HIDE DEF G
  <1>5. \A i \in 1 .. L : i \in G
    BY <1>1, <1>3, <1>4, Induction
  <1> QED BY <1>5 DEF G, L

\* What a replayed commit has in flight, the commit it replays had.
LEMMA StillInFlight ==
    ASSUME NEW log, NEW A, NEW w, LogOK(OnPrem, log, A, w), OneLog(log, w), WorldOK(w),
           NEW i \in 1 .. Len(log), NEW m \in Trees, Follows(m, log[i], w),
           NEW r \in Requests, InFlightIn(m, r)
    PROVE  InFlightIn(log[i], r)
  <1> DEFINE t == log[i]
  <1>1. t \in Trees /\ Sound(t, w)
    BY LogTrees DEF LogOK
  <1>2. CASE r \notin w.seen
    <2>1. m[Req(r)] = t[Req(r)]
      BY <1>2 DEF Follows, FollowsAt
    <2> QED BY <2>1 DEF InFlightIn, At
  <1>3. CASE r \in w.seen
    <2>1. At(m, r) # "none"
      BY DEF InFlightIn
    <2>2. At(w.remote, r) # "none"
      BY <1>3, <2>1 DEF Follows, FollowsAt
    <2>3. At(log[1], r) # "none"
      BY <1>3, <2>2 DEF OneLog
    <2>4. Kept(log)
      BY DEF OneLog
    <2>5. At(t, r) # "none"
      BY <2>3, <2>4, KeptAlong
    <2>6. Rank(m[Req(r)]) >= Rank(t[Req(r)])
      BY <2>5 DEF Follows, FollowsAt
    <2> DEFINE f == m[Req(r)]
               g == t[Req(r)]
    <2>7. f \in Files /\ g \in Files
      BY <1>1, TreeFiles
    <2>8. Rank(f) \in 0 .. 3 /\ Rank(g) \in 0 .. 3
      BY <2>7, RankIs
    <2>9. f.at \in {"pending", "claimed"} /\ Rank(f) >= Rank(g)
      BY <2>6 DEF InFlightIn, At
    <2>10. g.at \in {"none", "pending", "claimed", "failed"} /\ g.at # "none"
      BY <1>1, <2>5 DEF Sound, SoundAt, At
    <2> HIDE DEF f, g
    <2>11. Rank(f) <= 1
      BY <2>9 DEF Rank
    <2>12. g.at \in {"pending", "claimed"}
      <3>1. g.at = "failed" => Rank(g) = 2
        BY SomeFiles DEF Rank
      <3> QED BY <2>8, <2>9, <2>10, <2>11, <3>1
    <2> QED BY <2>12 DEF g, InFlightIn, At
  <1> QED BY <1>2, <1>3

LEMMA OneRebased ==
    ASSUME NEW log, NEW new, NEW A, NEW w, LogOK(OnPrem, log, A, w), OneLog(log, w), WorldOK(w),
           RebaseOK(OnPrem, log, new, A, w)
    PROVE  OneLog(new, w)
  <1> DEFINE L == Len(log)
  <1>1. L \in Nat /\ L >= 1
    BY LogTrees
  <1>2. LogOK(OnPrem, new, A, w) /\ Len(new) = L /\ new[1] = w.remote
        /\ \A i \in 1 .. L : Follows(new[i], log[i], w)
    BY DEF RebaseOK
  <1>3. \A i \in 1 .. L : new[i] \in Trees
    BY <1>2, LogTrees
  <1>4. ASSUME NEW i \in 1 .. L PROVE OneOut(new[i])
    <2>1. OneOut(log[i])
      BY DEF OneLog
    <2>2. \A r \in Requests : InFlightIn(new[i], r) => InFlightIn(log[i], r)
      BY <1>2, <1>3, StillInFlight
    <2> QED BY <2>1, <2>2 DEF OneOut
  <1>5. ASSUME NEW i \in 2 .. L, NEW r \in Requests,
               At(new[i - 1], r) # "none", At(new[i], r) = "none"
        PROVE  FALSE
    <2>1. i \in 1 .. L /\ i - 1 \in 1 .. L
      BY <1>1
    <2>2. FollowsAt(new[i], log[i], w, r) /\ FollowsAt(new[i - 1], log[i - 1], w, r)
      BY <1>2, <2>1 DEF Follows
    <2>3. At(log[i - 1], r) # "none" => At(log[i], r) # "none"
      BY DEF OneLog, Kept
    <2>4. r \in w.seen /\ At(w.remote, r) # "none"
      BY <1>5, <2>2, <2>3 DEF FollowsAt, At
    <2>5. At(log[1], r) # "none" /\ Kept(log)
      BY <2>4 DEF OneLog
    <2>6. At(log[i], r) # "none"
      BY <2>1, <2>5, KeptAlong
    <2> QED BY <1>5, <2>2, <2>4, <2>6 DEF FollowsAt
  <1>6. Kept(new)
    BY <1>2, <1>5 DEF Kept
  <1> HIDE DEF L
  <1> QED BY <1>2, <1>4, <1>6 DEF OneLog

\* The working tree keeps what it has of its own.
LEMMA OnePulled ==
    ASSUME NEW log, NEW new, NEW A, NEW w, LogOK(OnPrem, log, A, w), OneLog(log, w), WorldOK(w),
           RebaseOK(OnPrem, log, new, A, w), NEW old \in Trees, OneOut(old),
           NEW wk, \A r \in Requests : wk[Req(r)] = IF old[Req(r)] = log[Len(log)][Req(r)]
                                                    THEN new[Len(log)][Req(r)] ELSE old[Req(r)]
    PROVE  OneOut(wk)
  <1> DEFINE L == Len(log)
             tip == log[L]
             tip2 == new[L]
  <1>1. L \in 1 .. L
    BY LogTrees
  <1>2. tip2 \in Trees /\ Follows(tip2, tip, w)
    <2>1. LogOK(OnPrem, new, A, w) /\ Len(new) = L /\ Follows(tip2, tip, w)
      BY <1>1 DEF RebaseOK
    <2> QED BY <1>1, <2>1, LogTrees
  <1>3. \A r \in Requests : InFlightIn(tip2, r) => InFlightIn(tip, r)
    BY <1>1, <1>2, StillInFlight
  <1>4. \A r \in Requests : wk[Req(r)] = IF old[Req(r)] = tip[Req(r)] THEN tip2[Req(r)] ELSE old[Req(r)]
    OBVIOUS
  <1> HIDE DEF L, tip, tip2
  <1>5. ASSUME NEW r \in Requests, InFlightIn(wk, r) PROVE InFlightIn(old, r)
    <2>1. CASE old[Req(r)] = tip[Req(r)]
      <3>1. InFlightIn(tip2, r)
        BY <1>4, <1>5, <2>1 DEF InFlightIn, At
      <3> QED BY <1>3, <2>1, <3>1 DEF InFlightIn, At
    <2>2. CASE old[Req(r)] # tip[Req(r)]
      BY <1>4, <1>5, <2>2 DEF InFlightIn, At
    <2> QED BY <2>1, <2>2
  <1> QED BY <1>5 DEF OneOut

\* A commit of the on-prem node.
CommittedAs(c, q, d) ==
    LET L == Len(c.log)
    IN  /\ d.work = q /\ d.log[Len(d.log)] = q /\ Len(d.log) >= L
        /\ \A i \in 1 .. L : d.log[i] = c.log[i]
        /\ q = c.log[L] => Len(d.log) = L
        /\ q # c.log[L] => Len(d.log) = L + 1

LEMMA CommitIs ==
    ASSUME NEW c \in Clones, Len(c.log) >= 1, NEW q, NEW d, d = Commit(c, q)
    PROVE  CommittedAs(c, q, d)
  <1> DEFINE L == Len(c.log)
             log == IF q = c.log[L] THEN c.log ELSE Append(c.log, q)
  <1>1. L \in Nat /\ L >= 1 /\ c.log \in Seq(Trees)
    BY DEF Clones
  <1>2. d.log = log /\ d.work = q
    BY DEF Commit, Clones
  <1>3. CASE q = c.log[L]
    BY <1>1, <1>2, <1>3 DEF CommittedAs
  <1>4. CASE q # c.log[L]
    <2> DEFINE s == c.log
               new == Append(s, q)
    <2>1. Len(new) = Len(s) + 1 /\ new[Len(s) + 1] = q /\ \A i \in 1 .. Len(s) : new[i] = s[i]
      <3>1. s \in Seq(Trees \cup {q}) /\ q \in Trees \cup {q}
        BY <1>1
      <3> HIDE DEF s
      <3> QED BY <3>1
    <2>2. d.log = new
      BY <1>2, <1>4
    <2> HIDE DEF new
    <2> QED BY <1>1, <1>2, <1>4, <2>1, <2>2 DEF CommittedAs
  <1> QED BY <1>3, <1>4

LEMMA OneCommit ==
    ASSUME NEW c \in Clones, Len(c.log) >= 1, NEW w, OneState(c, w), NEW q, OneOut(q),
           \A r \in Requests : At(c.log[Len(c.log)], r) # "none" => At(q, r) # "none",
           NEW d, CommittedAs(c, q, d)
    PROVE  OneState(d, w)
  <1> DEFINE L == Len(c.log)
             M == Len(d.log)
  <1>1. /\ L \in Nat /\ L >= 1
        /\ d.work = q /\ d.log[M] = q /\ \A i \in 1 .. L : d.log[i] = c.log[i]
        /\ M = L \/ M = L + 1
        /\ \A r \in Requests : At(c.log[L], r) # "none" => At(q, r) # "none"
    BY DEF CommittedAs, Clones
  <1>2. /\ OneOut(w.remote) /\ \A i \in 1 .. L : OneOut(c.log[i])
        /\ \A i \in 2 .. L : \A r \in Requests : At(c.log[i - 1], r) # "none" => At(c.log[i], r) # "none"
        /\ \A r \in w.seen : At(c.log[1], r) = "none" => At(w.remote, r) = "none"
    BY DEF OneState, OneLog, Kept
  <1> HIDE DEF L, M
  <1>3. ASSUME NEW i \in 1 .. M PROVE OneOut(d.log[i])
    BY <1>1, <1>2
  <1>4. ASSUME NEW i \in 2 .. M, NEW r \in Requests, At(d.log[i - 1], r) # "none"
        PROVE  At(d.log[i], r) # "none"
    <2>1. CASE i \in 2 .. L
      <3>1. i \in 1 .. L /\ i - 1 \in 1 .. L
        BY <1>1, <2>1
      <3>2. d.log[i] = c.log[i] /\ d.log[i - 1] = c.log[i - 1]
        BY <1>1, <3>1
      <3> QED BY <1>2, <1>4, <2>1, <3>2
    <2>2. CASE i \notin 2 .. L
      <3>1. i = M /\ i - 1 = L /\ L \in 1 .. L
        BY <1>1, <2>2
      <3>2. d.log[i - 1] = c.log[L] /\ d.log[i] = q
        BY <1>1, <3>1
      <3> QED BY <1>1, <1>4, <3>2
    <2> QED BY <2>1, <2>2
  <1>5. \A r \in w.seen : At(d.log[1], r) = "none" => At(w.remote, r) = "none"
    BY <1>1, <1>2
  <1>6. OneLog(d.log, w)
    BY <1>3, <1>4, <1>5 DEF OneLog, Kept, M
  <1> QED BY <1>1, <1>2, <1>6 DEF OneState

\* A push that the remote takes leaves one commit; a reclaim that is dropped
\* leaves the commits before it.
LEMMA OneTip ==
    ASSUME NEW t, OneOut(t), NEW w, w.remote = t, NEW wk, OneOut(wk),
           NEW c, c.log = <<t>>, c.work = wk
    PROVE  OneState(c, w)
  <1> DEFINE one == <<t>>
  <1>1. Len(one) = 1 /\ one[1] = t
    OBVIOUS
  <1> HIDE DEF one
  <1>2. OneLog(one, w)
    BY <1>1 DEF OneLog, Kept
  <1>3. c.log = one
    BY DEF one
  <1> QED BY <1>2, <1>3 DEF OneState

LEMMA OneShorter ==
    ASSUME NEW c \in Clones, Len(c.log) >= 2, NEW w, OneState(c, w),
           NEW d, d.log = Shorter(c.log), d.work = c.log[Len(c.log) - 1]
    PROVE  OneState(d, w)
  <1> DEFINE L == Len(c.log)
             s == c.log
             new == Shorter(s)
  <1>1. L \in Nat /\ L >= 2 /\ s \in Seq(Trees) /\ L = Len(s)
    BY DEF Clones
  <1>2. /\ OneOut(w.remote) /\ \A i \in 1 .. L : OneOut(s[i])
        /\ \A i \in 2 .. L : \A r \in Requests : At(s[i - 1], r) # "none" => At(s[i], r) # "none"
        /\ \A r \in w.seen : At(s[1], r) = "none" => At(w.remote, r) = "none"
    BY DEF OneState, OneLog, Kept
  <1> HIDE DEF s, L
  <1>3. Len(new) = L - 1 /\ \A i \in 1 .. L - 1 : new[i] = s[i]
    BY <1>1 DEF Shorter
  <1>4. d.log = new /\ d.work = s[L - 1]
    BY DEF s, L
  <1> HIDE DEF new
  <1>5. \A i \in 1 .. L - 1 : OneOut(new[i])
    BY <1>1, <1>2, <1>3
  <1>6. ASSUME NEW i \in 2 .. L - 1, NEW r \in Requests, At(new[i - 1], r) # "none"
        PROVE  At(new[i], r) # "none"
    <2>1. i \in 1 .. L - 1 /\ i - 1 \in 1 .. L - 1 /\ i \in 2 .. L
      BY <1>1
    <2>2. new[i] = s[i] /\ new[i - 1] = s[i - 1]
      BY <1>3, <2>1
    <2> QED BY <1>2, <1>6, <2>1, <2>2
  <1>7. 1 \in 1 .. L - 1 /\ L - 1 \in 1 .. L
    BY <1>1
  <1>8. OneLog(new, w)
    BY <1>1, <1>2, <1>3, <1>5, <1>6, <1>7 DEF OneLog, Kept
  <1> QED BY <1>2, <1>4, <1>7, <1>8 DEF OneState

-----------------------------------------------------------------------------
(* The steps.                                                              *)

\* Bounds only run down.
Spends ==
    /\ Works \/ Fails
    /\ UNCHANGED kills \/ (kills > 0 /\ kills' = kills - 1)
    /\ UNCHANGED scenario

LEMMA Untidies ==
    ASSUME ExchangeInv, OneInv, Spends
    PROVE  /\ failures' <= scenario'.failures /\ kills' <= scenario'.kills
           /\ NeverHalf' => NeverHalf
           /\ Tidy' => Tidy
  <1>1. /\ failures \in Nat /\ kills \in Nat
        /\ scenario.failures \in Nat /\ scenario.kills \in Nat
    BY ExchangeAssumption DEF ExchangeInv, TypeOK
  <1>2. /\ failures' <= failures /\ failures <= scenario.failures /\ failures' \in Int
        /\ kills' <= kills /\ kills <= scenario.kills /\ kills' \in Int
    BY <1>1 DEF OneInv, Spends, Works, Fails
  <1>3. scenario' = scenario
    BY DEF Spends
  <1>4. NeverHalf' => NeverHalf
    BY <1>1, <1>2, <1>3 DEF NeverHalf
  <1>5. failures' = scenario.failures => failures = scenario.failures
    BY <1>1, <1>2
  <1> QED BY <1>1, <1>2, <1>3, <1>4, <1>5 DEF Tidy

LEMMA OneKeeps ==
    ASSUME ExchangeInv, OneInv, Spends,
           NeverHalf' => /\ Whole(clone'[OnPrem])
                         /\ pc'[OnPrem] = "reclaiming" => NothingNew(clone'[OnPrem].log),
           Tidy' => OneState(clone'[OnPrem], World')
    PROVE  OneInv'
  BY Untidies DEF OneInv

\* The remote has nothing out that it had not, and forgets nothing.
LEMMA OneElsewhere ==
    ASSUME ExchangeInv, OneInv, Spends, pc'[OnPrem] = pc[OnPrem], seen' = seen,
           clone'[OnPrem].log = clone[OnPrem].log, clone'[OnPrem].work = clone[OnPrem].work,
           \A r \in Requests : InFlightIn(remote', r) => InFlightIn(remote, r),
           \A r \in seen : At(remote, r) = "none" => At(remote', r) = "none"
    PROVE  OneInv'
  <1> DEFINE c == clone[OnPrem]
             d == clone'[OnPrem]
             w == World
             w2 == World'
  <1>1. /\ w2.seen = w.seen /\ w.remote = remote /\ w2.remote = remote'
        /\ d.log = c.log /\ d.work = c.work /\ w.seen = seen
    BY Worlds
  <1>2. ASSUME OneState(c, w) PROVE OneState(d, w2)
    <2> HIDE DEF c, d, w, w2
    <2>1. OneOut(w2.remote)
      BY <1>1, <1>2 DEF OneState, OneOut
    <2>2. OneLog(d.log, w2)
      BY <1>1, <1>2 DEF OneState, OneLog
    <2> QED BY <1>1, <1>2, <2>1, <2>2 DEF OneState
  <1>3. Whole(c) => Whole(d)
    <2> HIDE DEF c, d
    <2> QED BY <1>1 DEF Whole
  <1>4. NothingNew(c.log) => NothingNew(d.log)
    BY <1>1
  <1> HIDE DEF c, d, w, w2
  <1>5. NeverHalf => Whole(d) /\ (pc'[OnPrem] = "reclaiming" => NothingNew(d.log))
    BY <1>3, <1>4 DEF OneInv, c
  <1>6. Tidy => OneState(d, w2)
    BY <1>2 DEF OneInv, c, w
  <1> QED BY <1>5, <1>6, Untidies, OneKeeps DEF d, w2

LEMMA RankInFlight ==
    ASSUME NEW f \in Files, NEW g \in Files, Rank(f) >= Rank(g), f.at \in {"pending", "claimed"},
           g.at \in {"pending", "claimed", "failed"}
    PROVE  g.at \in {"pending", "claimed"}
  BY RankIs

\* What a researcher may do: push its clone, or change it.
Acts(a) ==
    /\ Spends /\ pc'[OnPrem] = pc[OnPrem]
    /\ (\E c : Set(a, c) /\ Quiet) \/ (\E after : AcceptedThen(a, clone[a], after))

LEMMA ResearcherActs ==
    ASSUME ExchangeInv, NEW a \in Researchers, Claim(a) \/ Answer(a) \/ ResearcherKilled(a)
    PROVE  Acts(a)
  <1>1. TypeOK /\ a \in Nodes /\ OnPrem \in Nodes /\ a # OnPrem
    BY ExchangeAssumption DEF ExchangeInv, Nodes
  <1>2. UNCHANGED clone => Set(a, clone[a])
    BY <1>1 DEF TypeOK, Set
  <1>3. \A s : Goto(a, s) => pc'[OnPrem] = pc[OnPrem]
    BY <1>1 DEF TypeOK, Goto
  <1>4. CASE Pull(a)
    BY <1>3, <1>4 DEF Pull, PullAndReclaim, PullStopsHere, Pulled, Acts, Spends, clock, Works
  <1>5. CASE Reclaim(a)
    BY <1>3, <1>5 DEF Reclaim, ReclaimPushed, Accepts, Acts, Spends, clock
  <1>6. CASE ClaimSelects(a)
    BY <1>3, <1>6 DEF ClaimSelects, Acts, Spends, clock, Quiet, Works
  <1>7. CASE NothingToClaim(a)
    BY <1>2, <1>3, <1>7 DEF NothingToClaim, Ends, Acts, Spends, clock, Quiet, Works
  <1>8. CASE ClaimPushed(a)
    BY <1>3, <1>8 DEF ClaimPushed, Accepts, Acts, Spends, clock, Works
  <1>9. CASE ClaimRejected(a)
    BY <1>3, <1>9 DEF ClaimRejected, Ends, Acts, Spends, clock, Quiet, Works
  <1>10. CASE ClaimPushFails(a)
    BY <1>3, <1>10 DEF ClaimPushFails, PushFails, Accepts, Ends, Acts, Spends, clock
  <1>11. CASE Complete(a)
    BY <1>3, <1>11 DEF Complete, Acts, Spends, clock, Quiet, Works
  <1>12. CASE FailRequest(a)
    BY <1>3, <1>12 DEF FailRequest, Acts, Spends, clock, Quiet, Works
  <1>13. CASE AnswerPushed(a)
    BY <1>3, <1>13 DEF AnswerPushed, Accepts, Ends, Acts, Spends, clock, Works
  <1>14. CASE AnswerRebased(a)
    BY <1>3, <1>14 DEF AnswerRebased, Ends, Acts, Spends, clock, Quiet, Works
  <1>15. CASE AnswerNotPushed(a)
    BY <1>2, <1>3, <1>15 DEF AnswerNotPushed, PushFails, Accepts, Ends, Acts, Spends, clock
  <1>16. CASE ResearcherKilled(a)
    BY <1>2, <1>3, <1>16 DEF ResearcherKilled, Ends, Acts, Spends, clock, Quiet, Works
  <1> QED BY <1>4, <1>5, <1>6, <1>7, <1>8, <1>9, <1>10, <1>11, <1>12, <1>13, <1>14, <1>15, <1>16
          DEF Claim, Answer

LEMMA ResearcherOne ==
    ASSUME ExchangeInv, OneInv, NEW a \in Researchers, Acts(a)
    PROVE  OneInv'
  <1>1. /\ TypeOK /\ a \in Nodes /\ OnPrem \in Nodes /\ a # OnPrem /\ WorldOK(World)
        /\ clone[OnPrem] \in Clones
    BY ExchangeAssumption DEF ExchangeInv, TypeOK, Nodes
  <1>2. Spends /\ pc'[OnPrem] = pc[OnPrem]
    BY DEF Acts
  <1>3. ASSUME NEW c, Set(a, c), Quiet PROVE OneInv'
    <2>1. clone'[OnPrem] = clone[OnPrem] /\ remote' = remote /\ seen' = seen
      BY <1>1, <1>3 DEF Set, Quiet, TypeOK
    <2> QED BY <1>2, <2>1, OneElsewhere
  <1>4. ASSUME NEW after, AcceptedThen(a, clone[a], after) PROVE OneInv'
    <2> DEFINE log == clone[a].log
               tip == log[Len(log)]
    <2>1. /\ LogOK(a, log, seen, World) /\ log[1] = remote /\ remote' = tip
          /\ seen' = seen \cup {r \in Requests : At(tip, r) # "none"}
      <3>1. Ready(a, clone[a], Known(a), World) /\ Known(a) = seen
        BY <1>1, CloneIs DEF CloneFacts, Known
      <3> QED BY <1>4, <3>1, Worlds DEF Ready, AcceptedThen, Publishes, At
    <2>2. /\ Sound(remote, World) /\ Within(remote, seen) /\ seen \subseteq Requests
          /\ World.answered \subseteq World.seen /\ World.seen = seen /\ remote \in Trees
      BY <1>1, Worlds DEF WorldOK
    <2>3. Len(log) \in 1 .. Len(log) /\ tip \in Trees
      BY <2>1, LogTrees
    <2>4. \A r \in Requests : AlongOK(a, remote, tip, World, r)
      BY <2>1, <2>2, <2>3, AlongTheLog
    <2> HIDE DEF log, tip
    <2>5. \A r \in Requests : At(remote, r) = "none" => At(remote', r) = "none"
      BY <1>1, <2>1, <2>4 DEF AlongOK
    <2>6. seen' = seen
      BY <2>1, <2>2, <2>5 DEF Within
    <2>7. ASSUME NEW r \in Requests, InFlightIn(remote', r) PROVE InFlightIn(remote, r)
      <3> DEFINE f == tip[Req(r)]
                 g == remote[Req(r)]
      <3>1. f \in Files /\ g \in Files
        BY <2>2, <2>3, TreeFiles
      <3>2. At(remote, r) # "none" /\ f.at \in {"pending", "claimed"}
        BY <2>1, <2>5, <2>7 DEF InFlightIn, At
      <3>3. Rank(f) >= Rank(g)
        BY <2>2, <2>4, <3>2 DEF Within, AlongOK
      <3>4. g.at \in {"pending", "claimed", "failed"}
        BY <2>2, <3>2 DEF Sound, SoundAt, At
      <3> HIDE DEF f, g
      <3>5. g.at \in {"pending", "claimed"}
        BY <3>1, <3>2, <3>3, <3>4, RankInFlight
      <3> QED BY <3>5 DEF g, InFlightIn, At
    <2>8. clone'[OnPrem].log = clone[OnPrem].log /\ clone'[OnPrem].work = clone[OnPrem].work
      <3> DEFINE c == clone[OnPrem]
                 d == clone'[OnPrem]
                 still == c.current /\ Len(clone[a].log) = 1
      <3>1. d = [c EXCEPT !.current = still]
        BY <1>1, <1>4 DEF AcceptedThen
      <3> HIDE DEF still
      <3>2. c \in Clones
        BY <1>1
      <3> HIDE DEF c, d
      <3>3. d.log = c.log /\ d.work = c.work
        BY ONLY <3>1, <3>2 DEF Clones
      <3> QED BY <3>3 DEF c, d
    <2> QED BY <1>2, <2>2, <2>5, <2>6, <2>7, <2>8, OneElsewhere
  <1> QED BY <1>3, <1>4 DEF Acts

LEMMA ElapsesOne ==
    ASSUME ExchangeInv, OneInv, Elapses
    PROVE  OneInv'
  <1>1. Spends /\ pc' = pc /\ clone' = clone /\ remote' = remote /\ seen' = seen
    BY DEF Elapses, Spends, Works
  <1> QED BY <1>1, OneElsewhere

-----------------------------------------------------------------------------
(* The steps of the round.                                                 *)

\* A step that leaves the exchange alone.
LEMMA QuietHalf ==
    ASSUME ExchangeInv, OneInv, Spends, Quiet, NEW d, Set(OnPrem, d),
           NeverHalf' => Whole(d) /\ (pc'[OnPrem] = "reclaiming" => NothingNew(d.log)),
           Tidy => OneState(d, World)
    PROVE  OneInv'
  <1>1. clone'[OnPrem] = d
    BY OnPremIs DEF Set, ExchangeInv, TypeOK
  <1>2. World'.remote = World.remote /\ World'.seen = World.seen
    BY Worlds DEF Quiet
  <1> DEFINE w == World
             w2 == World'
  <1>3. w2.remote = w.remote /\ w2.seen = w.seen
    BY <1>2
  <1>4. OneState(d, w) => OneState(d, w2)
    <2> HIDE DEF w, w2
    <2> QED BY <1>3 DEF OneState, OneLog
  <1>5. Tidy => OneState(d, w2)
    BY <1>4
  <1> HIDE DEF w2
  <1>6. Tidy' => OneState(d, w2)
    BY <1>5, Untidies
  <1>7. NeverHalf' => Whole(d) /\ (pc'[OnPrem] = "reclaiming" => NothingNew(d.log))
    OBVIOUS
  <1>8. NeverHalf' => /\ Whole(clone'[OnPrem])
                      /\ pc'[OnPrem] = "reclaiming" => NothingNew(clone'[OnPrem].log)
    BY <1>1, <1>7
  <1>9. Tidy' => OneState(clone'[OnPrem], World')
    BY <1>1, <1>6 DEF w2
  <1> QED BY <1>8, <1>9, OneKeeps

LEMMA QuietOne ==
    ASSUME ExchangeInv, OneInv, Spends, Quiet, NEW d, Set(OnPrem, d),
           NeverHalf => Whole(d) /\ (pc'[OnPrem] = "reclaiming" => NothingNew(d.log)),
           Tidy => OneState(d, World)
    PROVE  OneInv'
  <1>1. NeverHalf' => Whole(d) /\ (pc'[OnPrem] = "reclaiming" => NothingNew(d.log))
    BY Untidies
  <1> QED BY <1>1, QuietHalf

\* A push that may be refused or fail, of a clone that fits.
LEMMA PushOne ==
    ASSUME ExchangeInv, OneInv, Spends, pc'[OnPrem] # "reclaiming", NEW c \in Clones,
           Accepts(OnPrem, c) \/ (Set(OnPrem, c) /\ Quiet),
           Len(c.log) >= 1, NeverHalf => Whole(c), Tidy => OneState(c, World)
    PROVE  OneInv'
  <1>1. CASE Set(OnPrem, c) /\ Quiet
    BY <1>1, QuietOne
  <1>2. CASE Accepts(OnPrem, c)
    <2> DEFINE t == c.log[Len(c.log)]
               one == <<t>>
               d == [c EXCEPT !.log = one]
               w2 == World'
    <2>1. clone'[OnPrem] = d /\ w2.remote = t
      BY <1>2, OnPremIs, Worlds DEF Accepts, AcceptedThen, Publishes
    <2>2. d.log = one /\ d.work = c.work
      BY DEF Clones
    <2>3. Tidy => OneOut(t) /\ OneOut(c.work)
      <3>1. Len(c.log) \in 1 .. Len(c.log)
        BY DEF Clones
      <3> QED BY <3>1 DEF OneState, OneLog
    <2>4. Whole(c) => Whole(d)
      <3>1. one[Len(one)] = t
        OBVIOUS
      <3> HIDE DEF one, d
      <3>2. d.log[Len(d.log)] = t
        BY <2>2, <3>1
      <3> QED BY <2>2, <3>2 DEF Whole
    <2> HIDE DEF t, w2
    <2>5. d.log = <<t>> /\ d.work = c.work
      BY <2>2
    <2> HIDE DEF d
    <2>6. Tidy => OneState(d, w2)
      BY <2>1, <2>3, <2>5, OneTip
    <2> QED BY <2>1, <2>4, <2>6, Untidies, OneKeeps DEF w2
  <1> QED BY <1>1, <1>2

LEMMA CloneTrees ==
    ASSUME ExchangeInv
    PROVE  LET c == clone[OnPrem]
               tip == c.log[Len(c.log)]
           IN  /\ c \in Clones /\ Len(c.log) \in Nat /\ Len(c.log) >= 1
               /\ LogOK(OnPrem, c.log, issued, World) /\ WorldOK(World)
               /\ tip \in Trees /\ c.work \in Trees /\ WorkOK(OnPrem, tip, c.work, World, issued)
               /\ Work(OnPrem) = c.work /\ Tip(OnPrem) = tip
               /\ World.seen \subseteq issued
  BY OnPremIs, Worlds DEF CloneFacts, ExchangeInv

\* A clone that pulled.
LEMMA RebasedOne ==
    ASSUME ExchangeInv, NEW favor, favor = "none", ~ PullStops(OnPrem, favor),
           NEW d, d = Rebased(OnPrem, favor)
    PROVE  /\ Whole(clone[OnPrem]) => Whole(d)
           /\ OneState(clone[OnPrem], World) => OneState(d, World)
  <1> DEFINE c == clone[OnPrem]
             old == c.work
             tip == c.log[Len(c.log)]
             log == IF c.current THEN c.log ELSE Rebase(c.log, remote, favor)
             wk == [f \in Names |-> IF old[f] = tip[f] THEN log[Len(log)][f] ELSE old[f]]
             w == World
             A == issued
  <1>1. /\ c \in Clones /\ LogOK(OnPrem, c.log, A, w) /\ WorldOK(w) /\ old \in Trees
        /\ w.seen \subseteq A /\ w.remote = remote /\ Tip(OnPrem) = tip
    BY CloneTrees, Worlds
  <1>2. d = [c EXCEPT !.log = log, !.current = TRUE, !.work = wk]
    BY <1>1 DEF Rebased
  <1>3. \A r \in Requests : wk[Req(r)] = IF old[Req(r)] = tip[Req(r)] THEN log[Len(log)][Req(r)]
                                         ELSE old[Req(r)]
    <2>1. \A r \in Requests : Req(r) \in Names
      BY <1>1, TreeFiles
    <2> QED BY <2>1
  <1>4. d.log = log /\ d.work = wk
    <2> HIDE DEF c, log, wk
    <2> QED BY ONLY <1>1, <1>2 DEF Clones
  <1>5. CASE c.current
    <2>1. log = c.log /\ log[Len(log)] = tip
      BY <1>5
    <2> HIDE DEF c, log, wk, tip, old, w
    <2>2. \A r \in Requests : wk[Req(r)] = old[Req(r)]
      BY <1>3, <2>1
    <2>3. OneOut(old) => OneOut(wk)
      BY <2>2 DEF OneOut, InFlightIn, At
    <2>4. d.log = c.log /\ d.work = wk /\ c.work = old
      BY <1>4, <2>1 DEF old
    <2>5. Whole(c) => Whole(d)
      BY <2>2, <2>4 DEF Whole
    <2>6. OneState(c, w) => OneState(d, w)
      BY <2>3, <2>4 DEF OneState
    <2> QED BY <2>5, <2>6 DEF c, w
  <1>6. CASE ~ c.current
    <2>1. log = Rebase(c.log, w.remote, favor) /\ ~ Stops(c.log, w.remote, favor)
      BY <1>1, <1>6 DEF PullStops
    <2>2. Replayable(OnPrem, c.log, favor, 0, w)
      BY DEF Replayable
    <2>3. RebaseOK(OnPrem, c.log, log, A, w)
      <3> HIDE DEF c, log, w, A
      <3> QED BY <1>1, <2>1, <2>2, RebasedLog
    <2> HIDE DEF log, wk, w, A
    <2>4. Len(log) = Len(c.log)
      BY <2>3 DEF RebaseOK
    <2>5. Whole(c) => Whole(d)
      BY <1>3, <1>4 DEF Whole
    <2>6. ASSUME OneState(c, w) PROVE OneState(d, w)
      <3>1. OneLog(c.log, w) /\ OneOut(old) /\ OneOut(w.remote)
        BY <2>6 DEF OneState
      <3>2. OneLog(log, w)
        <4> HIDE DEF c
        <4> QED BY <1>1, <2>3, <3>1, OneRebased
      <3>3. \A r \in Requests : wk[Req(r)] = IF old[Req(r)] = c.log[Len(c.log)][Req(r)]
                                             THEN log[Len(c.log)][Req(r)] ELSE old[Req(r)]
        BY <1>3, <2>4
      <3>4. OneOut(wk)
        <4> HIDE DEF c, old
        <4> QED BY <1>1, <2>3, <3>1, <3>3, OnePulled
      <3> QED BY <1>4, <3>1, <3>2, <3>4 DEF OneState
    <2> QED BY <2>5, <2>6 DEF w
  <1> QED BY <1>5, <1>6

LEMMA PulledOne ==
    ASSUME ExchangeInv, OneInv, NEW c, c \in {clone[OnPrem], Rebased(OnPrem, "none")},
           Pulled(OnPrem, c)
    PROVE  /\ NeverHalf => Whole(c)
           /\ Tidy => OneState(c, World)
  <1>1. CASE c = clone[OnPrem]
    BY <1>1 DEF OneInv
  <1>2. CASE ~ PullStops(OnPrem, "none") /\ c = Rebased(OnPrem, "none")
    <2> DEFINE favor == "none"
    <2>1. favor = "none" /\ ~ PullStops(OnPrem, favor) /\ c = Rebased(OnPrem, favor)
      BY <1>2
    <2> HIDE DEF favor
    <2>2. /\ Whole(clone[OnPrem]) => Whole(c)
          /\ OneState(clone[OnPrem], World) => OneState(c, World)
      BY <2>1, RebasedOne
    <2> QED BY <2>2 DEF OneInv
  <1> QED BY <1>1, <1>2 DEF Pulled

\* What is reclaimed is out as before, or is not any more.
LEMMA ReclaimedOne ==
    ASSUME NEW wk \in Trees
    PROVE  /\ OneOut(wk) => OneOut(Reclaimed(wk))
           /\ \A r \in Requests : At(wk, r) = "none" => At(Reclaimed(wk), r) = "none"
  <1> DEFINE q == Reclaimed(wk)
  <1>1. ASSUME NEW r \in Requests
        PROVE  q[Req(r)] = wk[Req(r)] \/ At(wk, r) = "claimed"
    <2>1. Req(r) \in Names
      BY TreeFiles
    <2> QED BY <2>1 DEF Reclaimed, Stale, At
  <1> HIDE DEF q
  <1>2. \A r \in Requests : InFlightIn(q, r) => InFlightIn(wk, r)
    BY <1>1 DEF InFlightIn, At
  <1>3. \A r \in Requests : At(wk, r) = "none" => At(q, r) = "none"
    BY <1>1 DEF At
  <1> QED BY <1>2, <1>3 DEF OneOut, q

LEMMA StartsOne ==
    ASSUME ExchangeInv, OneInv, NEW c, c \in {clone[OnPrem], Rebased(OnPrem, "none")},
           Pulled(OnPrem, c), \E f \in Names : Stale(c.work[f]),
           NEW d, d = Commit(c, Reclaimed(c.work))
    PROVE  /\ NeverHalf => Whole(d) /\ NothingNew(d.log)
           /\ Tidy => OneState(d, World)
  <1> DEFINE q == Reclaimed(c.work)
             L == Len(c.log)
             M == Len(d.log)
             tip == c.log[L]
             w == World
  <1>1. Ready(OnPrem, c, Known(OnPrem), World) /\ OnPrem \in Nodes
    BY PulledClone, OnPremIs
  <1>2. /\ M >= 2 /\ M = L + 1 /\ d.work = d.log[M]
        /\ \A r \in Requests : At(d.log[M - 1], r) # "none" => At(d.work, r) # "none"
    BY <1>1, ReclaimReady
  <1>3. c \in Clones /\ L \in Nat /\ L >= 1 /\ c.work \in Trees
    BY <1>1, LogTrees DEF Ready, Clones
  <1>4. CommittedAs(c, q, d)
    BY <1>3, CommitIs
  <1>5. d.work = q /\ d.log[M] = q /\ d.log[M - 1] = tip
    <2>1. L \in 1 .. L /\ M - 1 = L
      BY <1>2, <1>3
    <2> QED BY <1>4, <2>1 DEF CommittedAs
  <1>6. /\ OneOut(c.work) => OneOut(q)
        /\ \A r \in Requests : At(c.work, r) = "none" => At(q, r) = "none"
    BY <1>3, ReclaimedOne
  <1>7. (NeverHalf => Whole(c)) /\ (Tidy => OneState(c, w))
    BY PulledOne
  <1> HIDE DEF q, M
  <1>8. ASSUME Whole(c) PROVE Whole(d) /\ NothingNew(d.log)
    <2>1. \A r \in Requests : c.work[Req(r)] = tip[Req(r)]
      BY <1>8 DEF Whole
    <2>2. \A r \in Requests : At(tip, r) = "none" => At(q, r) = "none"
      BY <1>6, <2>1 DEF At
    <2> HIDE DEF tip
    <2> QED BY <1>2, <1>5, <2>2 DEF Whole, NothingNew, M
  <1> HIDE DEF w
  <1>9. ASSUME OneState(c, w) PROVE OneState(d, w)
    <2>1. OneOut(q)
      BY <1>6, <1>9 DEF OneState
    <2>2. \A r \in Requests : At(c.log[Len(c.log)], r) # "none" => At(q, r) # "none"
      BY <1>2, <1>5
    <2> HIDE DEF L
    <2> QED BY <1>3, <1>4, <1>9, <2>1, <2>2, OneCommit DEF L
  <1> QED BY <1>7, <1>8, <1>9 DEF w

LEMMA RoundStartsOne ==
    ASSUME ExchangeInv, OneInv, RoundStarts
    PROVE  OneInv'
  <1>1. CASE /\ PullAndReclaim(OnPrem, "fold")
             /\ UNCHANGED <<issued, answered, clock, kills>>
    <2>1. PICK c \in {clone[OnPrem], Rebased(OnPrem, "none")} :
            /\ Pulled(OnPrem, c)
            /\ IF \E f \in Names : Stale(c.work[f])
               THEN Set(OnPrem, Commit(c, Reclaimed(c.work))) /\ Goto(OnPrem, "reclaiming")
               ELSE Set(OnPrem, c) /\ Goto(OnPrem, "fold")
      BY <1>1 DEF PullAndReclaim
    <2>2. Spends /\ Quiet
      BY <1>1, <2>1 DEF PullAndReclaim, Pulled, Spends, clock
    <2>3. CASE \E f \in Names : Stale(c.work[f])
      <3> DEFINE d == Commit(c, Reclaimed(c.work))
      <3>1. /\ NeverHalf => Whole(d) /\ NothingNew(d.log)
            /\ Tidy => OneState(d, World)
        BY <2>1, <2>3, StartsOne
      <3>2. Set(OnPrem, d)
        BY <2>1, <2>3
      <3> HIDE DEF d
      <3> QED BY <2>2, <3>1, <3>2, QuietOne
    <2>4. CASE ~ \E f \in Names : Stale(c.work[f])
      <3>1. Set(OnPrem, c) /\ pc'[OnPrem] # "reclaiming"
        BY <2>1, <2>4, OnPremIs DEF Goto, ExchangeInv, TypeOK
      <3>2. /\ NeverHalf => Whole(c)
            /\ Tidy => OneState(c, World)
        BY <2>1, PulledOne
      <3> QED BY <2>2, <3>1, <3>2, QuietOne
    <2> QED BY <2>3, <2>4
  <1>2. CASE /\ Step(OnPrem, "off") /\ PullStopsHere(OnPrem)
             /\ UNCHANGED <<pc, onprem, clock, kills>>
    <2> DEFINE c == clone[OnPrem]
               d == [c EXCEPT !.stopped = TRUE]
    <2>1. Spends /\ Quiet /\ Set(OnPrem, d) /\ pc'[OnPrem] # "reclaiming"
      BY <1>2 DEF PullStopsHere, Spends, clock, Step
    <2>2. d.log = c.log /\ d.work = c.work
      BY CloneTrees DEF Clones
    <2>3. (NeverHalf => Whole(c)) /\ (Tidy => OneState(c, World))
      BY DEF OneInv
    <2> HIDE DEF c, d
    <2>4. (NeverHalf => Whole(d)) /\ (Tidy => OneState(d, World))
      BY <2>2, <2>3 DEF Whole, OneState
    <2> QED BY <2>1, <2>4, QuietOne
  <1> QED BY <1>1, <1>2 DEF RoundStarts

LEMMA RoundReclaimsOne ==
    ASSUME ExchangeInv, OneInv, RoundReclaims
    PROVE  OneInv'
  <1> DEFINE c == clone[OnPrem]
             L == Len(c.log)
             t == c.log[L - 1]
             tip == c.log[L]
             dropped == ResetTo(c, Shorter(c.log))
             after == [dropped EXCEPT !.log = <<t>>, !.current = FALSE]
  <1>1. ReclaimPushed(OnPrem, "fold") /\ UNCHANGED <<clock, kills>>
    BY DEF RoundReclaims
  <1>2. /\ pc[OnPrem] = "reclaiming" /\ pc'[OnPrem] # "reclaiming" /\ Spends
        /\ ReclaimOK(OnPrem) /\ OnPrem \in Nodes
    BY <1>1, OnPremIs DEF ReclaimPushed, Step, Goto, ExchangeInv, TypeOK, Spends, clock
  <1>3. c \in Clones /\ L \in Nat /\ L >= 2 /\ Ready(OnPrem, c, Known(OnPrem), World)
    BY <1>2, CloneTrees, OnPremIs DEF ReclaimOK, CloneFacts
  <1>4. /\ NeverHalf => Whole(c) /\ NothingNew(c.log)
        /\ Tidy => OneState(c, World)
    BY <1>2 DEF OneInv
  <1>5. dropped = [log |-> Shorter(c.log), work |-> t, current |-> c.current,
                   stopped |-> c.stopped]
    BY <1>3, DroppedReady
  <1>6. CASE Accepts(OnPrem, c)
    <2>1. Len(c.log) >= 1
      BY <1>3
    <2> HIDE DEF c
    <2> QED BY <1>2, <1>3, <1>4, <1>6, <2>1, PushOne
  <1>7. CASE Set(OnPrem, dropped) /\ Quiet
    <2>1. dropped.log = Shorter(c.log) /\ dropped.work = c.log[Len(c.log) - 1]
      BY <1>5
    <2>2. Whole(dropped)
      <3> DEFINE s == c.log
                 new == Shorter(s)
      <3>1. s \in Seq(Trees) /\ Len(s) = L /\ L >= 2
        BY <1>3 DEF Clones
      <3> HIDE DEF s, L
      <3>2. new[Len(new)] = s[L - 1]
        BY <3>1 DEF Shorter
      <3>3. dropped.log = new /\ dropped.work = s[L - 1]
        BY <2>1 DEF s, L
      <3> HIDE DEF new, dropped
      <3> QED BY <3>2, <3>3 DEF Whole
    <2>3. OneState(c, World) => OneState(dropped, World)
      <3>1. Len(c.log) >= 2
        BY <1>3
      <3> HIDE DEF c, dropped
      <3> QED BY <1>3, <2>1, <3>1, OneShorter
    <2>4. Tidy => OneState(dropped, World)
      BY <1>4, <2>3
    <2> HIDE DEF dropped
    <2> QED BY <1>2, <1>7, <2>2, <2>4, QuietOne
  <1>8. CASE Fails /\ AcceptedThen(OnPrem, c, after)
    <2> DEFINE one == <<t>>
               w2 == World'
    <2>1. after.log = one /\ after.work = t /\ one[Len(one)] = t /\ Len(one) = 1 /\ one[1] = t
      <3> DEFINE new == Shorter(c.log)
      <3>1. dropped = [log |-> new, work |-> t, current |-> c.current, stopped |-> c.stopped]
            /\ after = [dropped EXCEPT !.log = one, !.current = FALSE]
        BY <1>5
      <3> HIDE DEF new, c, t, one, dropped, after
      <3>2. after.log = one /\ after.work = t
        BY ONLY <3>1
      <3> QED BY <3>2 DEF one
    <2>2. clone'[OnPrem] = after /\ w2.remote = tip
      BY <1>8, <1>2, Worlds DEF AcceptedThen, Publishes
    <2>3. Tidy' => NeverHalf /\ Tidy
      <3>1. failures \in Nat /\ scenario.failures \in Nat /\ failures <= scenario.failures
        BY ExchangeAssumption DEF ExchangeInv, TypeOK, OneInv
      <3>2. failures' = failures - 1 /\ scenario' = scenario
        BY <1>2, <1>8 DEF Fails, Spends
      <3>3. failures' # scenario'.failures
        BY <3>1, <3>2
      <3> QED BY <1>2, <3>3, Untidies DEF Tidy
    <2>4. w2.seen \subseteq Requests
      <3>1. seen' \subseteq Requests
        BY <1>8 DEF AcceptedThen, Publishes, ExchangeInv, TypeOK
      <3> QED BY <3>1, Worlds
    <2>5. OneState(c, World) => OneOut(t) /\ OneOut(tip)
      <3>1. L - 1 \in 1 .. L /\ L \in 1 .. L
        BY <1>3
      <3> QED BY <3>1 DEF OneState, OneLog
    <2>6. NothingNew(c.log) => \A r \in Requests : At(t, r) = "none" => At(tip, r) = "none"
      BY DEF NothingNew
    <2> HIDE DEF after, one, w2, t, tip, c, L
    <2>7. Whole(after)
      BY <2>1 DEF Whole
    <2>8. ASSUME Tidy' PROVE OneState(after, w2)
      <3>1. /\ OneOut(t) /\ OneOut(tip)
            /\ \A r \in Requests : At(t, r) = "none" => At(tip, r) = "none"
        BY <1>4, <2>3, <2>5, <2>6, <2>8
      <3>2. OneLog(one, w2)
        BY <2>1, <2>2, <2>4, <3>1 DEF OneLog, Kept
      <3> QED BY <2>1, <2>2, <3>1, <3>2 DEF OneState
    <2>9. Tidy' => OneState(after, w2)
      BY <2>8
    <2> QED BY <1>2, <2>2, <2>7, <2>9, OneKeeps DEF w2
  <1> QED BY <1>1, <1>6, <1>7, <1>8 DEF ReclaimPushed

\* A result is dealt with: no request changes.
LEMMA FoldOneOne ==
    ASSUME ExchangeInv, OneInv, FoldOne
    PROVE  OneInv'
  <1> DEFINE c == clone[OnPrem]
             wk == c.work
  <1>1. PICK r \in Results(Work(OnPrem)) :
          \/ Set(OnPrem, [c EXCEPT !.work[Res(r)] = NoFile])
          \/ Set(OnPrem, [c EXCEPT !.work[Res(r)].at = "failed"])
    BY DEF FoldOne
  <1>2. Spends /\ Quiet /\ pc'[OnPrem] # "reclaiming"
    BY OnPremIs DEF FoldOne, Spends, clock, Works, Quiet, Goto, ExchangeInv, TypeOK
  <1>3. PICK h : Set(OnPrem, [c EXCEPT !.work = [wk EXCEPT ![Res(r)] = h]])
    BY <1>1
  <1> DEFINE q == [wk EXCEPT ![Res(r)] = h]
             d == [c EXCEPT !.work = q]
  <1>4. c \in Clones /\ wk \in Trees /\ r \in Requests
    BY CloneTrees DEF Results
  <1>5. \A s \in Requests : q[Req(s)] = wk[Req(s)]
    BY <1>4, TreeFiles, NamesDiffer DEF Trees
  <1>6. d.log = c.log /\ d.work = q
    <2>1. c \in Clones
      BY <1>4
    <2> HIDE DEF c, q
    <2> QED BY ONLY <2>1 DEF Clones
  <1>7. (NeverHalf => Whole(c)) /\ (Tidy => OneState(c, World))
    BY DEF OneInv
  <1>8. Set(OnPrem, d)
    BY <1>3
  <1> HIDE DEF c, q, d
  <1>9. Whole(c) => Whole(d)
    BY <1>5, <1>6 DEF Whole
  <1>10. OneState(c, World) => OneState(d, World)
    <2>1. OneOut(wk) => OneOut(q)
      <3> HIDE DEF wk
      <3> QED BY <1>5 DEF OneOut, InFlightIn, At
    <2> QED BY <1>6, <2>1 DEF OneState
  <1> QED BY <1>2, <1>7, <1>8, <1>9, <1>10, QuietOne

\* The working tree becomes a commit.
LEMMA WorkOne ==
    ASSUME NEW c \in Clones, Len(c.log) >= 1, NEW q, NEW w,
           OneState(c, w) => OneOut(q),
           \A r \in Requests : At(c.log[Len(c.log)], r) # "none" => At(q, r) # "none",
           NEW d, d = Commit(c, q)
    PROVE  Whole(d) /\ (OneState(c, w) => OneState(d, w))
  <1>1. CommittedAs(c, q, d)
    BY CommitIs
  <1>2. Whole(d)
    BY <1>1 DEF CommittedAs, Whole
  <1>3. OneState(c, w) => OneState(d, w)
    BY <1>1, OneCommit
  <1> QED BY <1>2, <1>3

\* A clone that committed.
LEMMA CommittedClone ==
    ASSUME ExchangeInv, NEW q \in Trees, NEW A,
           Ready(OnPrem, clone[OnPrem], A, World),
           WorkOK(OnPrem, Tip(OnPrem), q, World, A)
    PROVE  /\ Commit(clone[OnPrem], q) \in Clones
           /\ Len(Commit(clone[OnPrem], q).log) >= 1
           /\ \A r \in Requests : At(Tip(OnPrem), r) # "none" => At(q, r) # "none"
  <1> DEFINE c == clone[OnPrem]
             tip == c.log[Len(c.log)]
             d == Commit(c, q)
  <1>1. Tip(OnPrem) = tip /\ Ready(OnPrem, c, A, World) /\ WorkOK(OnPrem, tip, q, World, A)
    BY DEF Tip
  <1> HIDE DEF c
  <1>2. Ready(OnPrem, d, A, World)
    BY <1>1, WorkCommits
  <1> HIDE DEF d
  <1>3. d \in Clones /\ Len(d.log) >= 1
    BY <1>2 DEF Ready, LogOK
  <1> HIDE DEF tip
  <1>4. \A r \in Requests : At(tip, r) # "none" => At(q, r) # "none"
    BY <1>1 DEF WorkOK, At
  <1> QED BY <1>1, <1>3, <1>4 DEF c, d

LEMMA CommitPushedOne ==
    ASSUME ExchangeInv, OneInv, Spends, pc'[OnPrem] # "reclaiming",
           NEW q \in Trees, NEW A, Ready(OnPrem, clone[OnPrem], A, World),
           WorkOK(OnPrem, Tip(OnPrem), q, World, A),
           Tidy => OneOut(q), PushBestEffort(OnPrem, Commit(clone[OnPrem], q))
    PROVE  OneInv'
  <1> DEFINE c == clone[OnPrem]
             d == Commit(c, q)
  <1>1. c \in Clones /\ Len(c.log) >= 1 /\ Tip(OnPrem) = c.log[Len(c.log)]
    BY CloneTrees
  <1>2. /\ d \in Clones /\ Len(d.log) >= 1
        /\ \A r \in Requests : At(c.log[Len(c.log)], r) # "none" => At(q, r) # "none"
    BY <1>1, CommittedClone
  <1>3. PushBestEffort(OnPrem, d) /\ d = Commit(c, q) /\ (Tidy => OneState(c, World))
    BY DEF OneInv
  <1> HIDE DEF c, d
  <1>4. Accepts(OnPrem, d) \/ (Set(OnPrem, d) /\ Quiet)
    BY <1>3, BestEffort
  <1>5. CASE Tidy
    <2>1. OneState(c, World) => OneOut(q)
      BY <1>5
    <2>2. Whole(d) /\ OneState(d, World)
      BY <1>1, <1>2, <1>3, <1>5, <2>1, WorkOne
    <2> QED BY <1>2, <1>4, <2>2, PushOne
  <1>6. CASE ~ Tidy
    <2>1. ~ NeverHalf
      BY <1>6 DEF Tidy
    <2> QED BY <1>2, <1>4, <1>6, <2>1, PushOne
  <1> QED BY <1>5, <1>6

LEMMA FoldCommitsOne ==
    ASSUME ExchangeInv, OneInv, FoldCommits
    PROVE  OneInv'
  <1> DEFINE c == clone[OnPrem]
             q == c.work
  <1>1. /\ Ready(OnPrem, c, issued, World) /\ q \in Trees /\ Work(OnPrem) = q
        /\ WorkOK(OnPrem, Tip(OnPrem), q, World, issued)
    BY OnPremIs DEF CloneFacts
  <1>2. PushBestEffort(OnPrem, Commit(c, q))
    BY <1>1 DEF FoldCommits
  <1>3. Spends /\ pc'[OnPrem] # "reclaiming"
    BY <1>2, OnPremIs DEF FoldCommits, PushBestEffort, PushFails, Spends, clock, Goto, ExchangeInv, TypeOK
  <1>4. Tidy => OneOut(q)
    BY DEF OneInv, OneState
  <1> HIDE DEF q
  <1> QED BY <1>1, <1>2, <1>3, <1>4, CommitPushedOne

\* A clone that nobody touches.
LEMMA SameOne ==
    ASSUME ExchangeInv, OneInv, Spends, Quiet, UNCHANGED clone, pc'[OnPrem] # "reclaiming"
    PROVE  OneInv'
  <1>1. Set(OnPrem, clone[OnPrem])
    BY OnPremIs DEF Set, ExchangeInv, TypeOK
  <1>2. /\ NeverHalf => Whole(clone[OnPrem])
        /\ Tidy => OneState(clone[OnPrem], World)
    BY DEF OneInv
  <1> QED BY <1>1, <1>2, QuietOne

LEMMA NothingToFoldOne ==
    ASSUME ExchangeInv, OneInv, NothingToFold
    PROVE  OneInv'
  <1>1. Spends /\ Quiet /\ UNCHANGED clone /\ pc'[OnPrem] # "reclaiming"
    BY OnPremIs DEF NothingToFold, Spends, clock, Works, Quiet, Goto, ExchangeInv, TypeOK
  <1> QED BY <1>1, SameOne

\* What is asked is for pages that have nothing out.
LEMMA NewOne ==
    ASSUME NEW wk, OneOut(wk), NEW new, NewOK(new, wk),
           NEW q, \A r \in Requests : q[Req(r)] = IF r \in new THEN First ELSE wk[Req(r)]
    PROVE  OneOut(q)
  <1>1. ASSUME NEW r \in Requests, InFlightIn(q, r) PROVE r \in new \/ InFlightIn(wk, r)
    BY <1>1 DEF InFlightIn, At
  <1>2. ASSUME NEW r \in new, NEW s \in Requests, KeyOf[s] = KeyOf[r]
        PROVE  ~ InFlightIn(wk, s) /\ (s \in new => s = r)
    BY <1>2 DEF NewOK, InFlightIn, At
  <1> SUFFICES ASSUME NEW r \in Requests, NEW s \in Requests, KeyOf[r] = KeyOf[s],
                      InFlightIn(q, r), InFlightIn(q, s)
               PROVE  r = s
    BY DEF OneOut
  <1>3. CASE r \in new
    BY <1>1, <1>2, <1>3
  <1>4. CASE s \in new
    BY <1>1, <1>2, <1>4
  <1>5. CASE r \notin new /\ s \notin new
    BY <1>1, <1>5 DEF OneOut
  <1> QED BY <1>3, <1>4, <1>5

LEMMA EnqueueOne ==
    ASSUME ExchangeInv, OneInv, Enqueue
    PROVE  OneInv'
  <1>1. PICK new :
          /\ NewOK(new, Work(OnPrem)) /\ issued' = issued \cup new
          /\ \/ UNCHANGED clone /\ Quiet /\ failures' = failures
             \/ new # {} /\ PushBestEffort(OnPrem,
                   Commit(clone[OnPrem], WithRequests(Work(OnPrem), new)))
    BY EnqueueNew
  <1>2. Spends /\ pc'[OnPrem] # "reclaiming"
    <2>1. Works \/ Fails
      BY <1>1 DEF PushBestEffort, PushFails, Works
    <2> QED BY <2>1, OnPremIs DEF Enqueue, Spends, clock, Goto, ExchangeInv, TypeOK
  <1> DEFINE q == WithRequests(Work(OnPrem), new)
             A == issued \cup new
             wk == Work(OnPrem)
  <1>3. CASE UNCHANGED clone /\ Quiet
    BY <1>2, <1>3, SameOne
  <1>4. CASE PushBestEffort(OnPrem, Commit(clone[OnPrem], q))
    <2>1. q = WithRequests(Work(OnPrem), new) /\ A = issued \cup new
      OBVIOUS
    <2>2. OneOut(wk) \/ ~ Tidy
      BY CloneTrees DEF OneInv, OneState
    <2> HIDE DEF q, A
    <2>3. /\ Ready(OnPrem, clone[OnPrem], A, World) /\ q \in Trees
          /\ WorkOK(OnPrem, Tip(OnPrem), q, World, A)
          /\ \A r \in Requests : q[Req(r)] = IF r \in new THEN First ELSE wk[Req(r)]
      BY <1>1, <2>1, Asked
    <2>4. NewOK(new, wk)
      BY <1>1
    <2> HIDE DEF wk
    <2>5. Tidy => OneOut(q)
      BY <2>2, <2>3, <2>4, NewOne
    <2> QED BY <1>2, <1>4, <2>3, <2>5, CommitPushedOne
  <1> QED BY <1>1, <1>3, <1>4

\* A round stops half way.
LEMMA WritesSomeOne ==
    ASSUME ExchangeInv, OneInv, Spends, Quiet, pc'[OnPrem] # "reclaiming",
           NEW new, NewOK(new, Work(OnPrem)), WritesSome(new), ~ NeverHalf'
    PROVE  OneInv'
  <1> DEFINE c == clone[OnPrem]
             wk == Work(OnPrem)
             q == WithRequests(wk, new)
             A == issued \cup new
             d == [c EXCEPT !.work = q]
  <1>1. c \in Clones /\ wk = c.work /\ (Tidy => OneState(c, World))
    BY CloneTrees DEF OneInv
  <1>2. Set(OnPrem, d)
    BY DEF WritesSome, Work
  <1>3. q \in Trees /\ \A r \in Requests : q[Req(r)] = IF r \in new THEN First ELSE wk[Req(r)]
    <2>1. /\ q = WithRequests(Work(OnPrem), new) /\ A = issued \cup new
          /\ ExchangeInv /\ NewOK(new, Work(OnPrem))
      OBVIOUS
    <2> HIDE DEF q, A
    <2>2. /\ q \in Trees
          /\ \A r \in Requests : q[Req(r)] = IF r \in new THEN First ELSE Work(OnPrem)[Req(r)]
      BY ONLY <2>1, Asked
    <2> QED BY <2>2
  <1>4. NewOK(new, wk)
    OBVIOUS
  <1>5. d.log = c.log /\ d.work = q
    <2>1. c \in Clones
      BY <1>1
    <2> HIDE DEF c, q
    <2> QED BY ONLY <2>1 DEF Clones
  <1> HIDE DEF c, wk, q, d
  <1>6. OneState(c, World) => OneState(d, World)
    <2>1. OneOut(wk) => OneOut(q)
      BY <1>3, <1>4, NewOne
    <2> QED BY <1>1, <1>5, <2>1 DEF OneState
  <1> QED BY <1>1, <1>2, <1>6, QuietHalf

LEMMA EnqueueRaisesOne ==
    ASSUME ExchangeInv, OneInv, EnqueueRaises
    PROVE  OneInv'
  <1>1. PICK some \in SUBSET (ToReview \ scenario.leaky) :
          WritesSome(NextOfAll((ToResearch \ scenario.leaky) \cup some))
    BY DEF EnqueueRaises
  <1> DEFINE keys == (ToResearch \ scenario.leaky) \cup some
             new == NextOfAll(keys)
  <1>2. keys \cap InFlight = {}
    BY DEF ToResearch, ToReview
  <1>3. NewOK(new, Work(OnPrem))
    <2> HIDE DEF keys
    <2> QED BY <1>2, NewRequests
  <1>5. Spends /\ Quiet /\ pc'[OnPrem] # "reclaiming"
    BY OnPremIs DEF EnqueueRaises, Spends, clock, Works, Quiet, Goto, ExchangeInv, TypeOK
  <1>4. WritesSome(new) /\ ~ NeverHalf'
    BY <1>1, <1>5 DEF EnqueueRaises, NeverHalf, Spends
  <1> HIDE DEF new
  <1> QED BY <1>3, <1>4, <1>5, WritesSomeOne

LEMMA RoundKilledOne ==
    ASSUME ExchangeInv, OneInv, RoundKilled
    PROVE  OneInv'
  <1>1. Spends /\ Quiet /\ pc'[OnPrem] # "reclaiming"
    BY OnPremIs DEF RoundKilled, Spends, clock, Works, Quiet, Goto, ExchangeInv, TypeOK
  <1>2. ~ NeverHalf'
    <2>1. /\ kills \in Nat /\ kills' = kills - 1 /\ kills <= scenario.kills
          /\ scenario.kills \in Nat /\ scenario' = scenario
      BY <1>1, ExchangeAssumption DEF RoundKilled, Spends, OneInv, ExchangeInv, TypeOK
    <2> QED BY <2>1 DEF NeverHalf
  <1>3. CASE UNCHANGED <<clone, issued>>
    BY <1>1, <1>3, SameOne
  <1>4. CASE \E some \in SUBSET (ToResearch \ scenario.leaky) :
                some # {} /\ WritesSome(NextOfAll(some))
    <2>1. PICK some \in SUBSET (ToResearch \ scenario.leaky) : WritesSome(NextOfAll(some))
      BY <1>4
    <2> DEFINE new == NextOfAll(some)
    <2>2. some \cap InFlight = {}
      BY DEF ToResearch
    <2>3. NewOK(new, Work(OnPrem)) /\ WritesSome(new)
      BY <2>1, <2>2, NewRequests
    <2> HIDE DEF new
    <2> QED BY <1>1, <1>2, <2>3, WritesSomeOne
  <1> QED BY <1>3, <1>4 DEF RoundKilled

LEMMA EveryStepOne ==
    ASSUME ExchangeInv, OneInv, Next
    PROVE  OneInv'
  <1>1. scenario.team \subseteq Researchers
    <2>1. scenario \in Scenarios
      BY DEF ExchangeInv, TypeOK
    <2> QED BY <2>1, ExchangeAssumption
  <1>2. ASSUME NEW a \in scenario.team, Claim(a) \/ Answer(a) \/ ResearcherKilled(a)
        PROVE  OneInv'
    <2>1. a \in Researchers /\ Acts(a)
      BY <1>1, <1>2, ResearcherActs
    <2> QED BY <2>1, ResearcherOne
  <1>3. ASSUME Round PROVE OneInv'
    BY <1>3, RoundStartsOne, RoundReclaimsOne, FoldOneOne, FoldCommitsOne, NothingToFoldOne,
       EnqueueOne, EnqueueRaisesOne DEF Round
  <1> QED BY <1>2, <1>3, RoundKilledOne, ElapsesOne DEF Next

LEMMA StuttersOne ==
    ASSUME ExchangeInv, OneInv, UNCHANGED vars
    PROVE  OneInv'
  <1>1. UNCHANGED <<remote, seen, clone, pc, failures, kills, scenario>> /\ World' = World
    BY DEF vars, World
  <1> QED BY <1>1 DEF OneInv, NeverHalf, Tidy

LEMMA StartsOut == Init => OneInv
  <1> SUFFICES ASSUME Init PROVE OneInv
    OBVIOUS
  <1> DEFINE c == clone[OnPrem]
             w == World
  <1>1. ExchangeInv
    BY Starts
  <1>2. /\ failures = scenario.failures /\ kills = scenario.kills
        /\ scenario.failures \in Nat /\ scenario.kills \in Nat
    BY ExchangeAssumption DEF Init
  <1>3. c.log = <<EmptyTree>> /\ c.work = EmptyTree /\ pc[OnPrem] = "off" /\ w.remote = EmptyTree
    BY <1>1, OnPremIs, Worlds DEF Init
  <1>4. \A r \in Requests : At(EmptyTree, r) = "none"
    <2>1. remote = EmptyTree /\ remote \in Trees
      BY <1>1 DEF Init, ExchangeInv, TypeOK
    <2>2. \A r \in Requests : Req(r) \in Names
      BY <2>1, TreeFiles
    <2> QED BY <2>2, SomeFiles DEF EmptyTree, At
  <1>5. OneOut(EmptyTree)
    BY <1>4 DEF OneOut, InFlightIn
  <1>6. Whole(c)
    BY <1>3 DEF Whole
  <1> HIDE DEF c, w
  <1>7. OneState(c, w)
    BY <1>3, <1>5, OneTip
  <1> QED BY <1>2, <1>3, <1>6, <1>7 DEF OneInv, c, w

\* The request commits of the on-prem clone never bring two requests of a
\* page together (OneInv), as long as the exchange is tidy.
THEOREM OneHolds == Spec => []OneInv
  <1>1. ExchangeInv /\ OneInv /\ [Next]_vars => OneInv'
    BY EveryStepOne, StuttersOne
  <1> QED BY <1>1, StartsOut, ExchangeHolds, PTL DEF Spec

\* One request per page is out at a time, whatever the merges, the lost races
\* and the late answers, until both a round stopped half way and a Git command
\* failed (in_flight, orchestrate.py).
THEOREM OneRequestPerPage == Spec => []OneRequestInFlight
  <1>1. OneInv => OneRequestInFlight
    <2> SUFFICES ASSUME OneInv, Tidy PROVE OneRequestInFlight
      BY DEF OneRequestInFlight
    <2>1. OneOut(remote)
      BY Worlds DEF OneInv, OneState
    <2> QED BY <2>1 DEF OneOut, InFlightIn, At, OneRequestInFlight
  <1> QED BY <1>1, OneHolds, PTL
=============================================================================
