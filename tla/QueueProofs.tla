----------------------------- MODULE QueueProofs -----------------------------
(***************************************************************************)
(* What AnalystQueue promises of requests and their answers, for any       *)
(* number of requests, analysts, attempts, steps and restarts, any         *)
(* interleaving of their pushes, and any merge git may make of them:       *)
(* no request is lost, none is folded twice or asked again when done, a    *)
(* fresh claim stands, and a placeholder never replaces an analysis.       *)
(*                                                                         *)
(* The state an answer or a fold ends in is a rebase, a value defined by   *)
(* recursion along a log of commits. What holds of every commit of a log   *)
(* is proved by the least index at which it fails, LeastNatural, which     *)
(* exists because < is well founded on Nat.                                *)
(***************************************************************************)
EXTENDS AnalystQueue, WellFoundedInduction, TLAPS

\* A set of naturals that has a member has a least one.
LEMMA LeastNatural ==
    ASSUME NEW S \in SUBSET Nat, S # {}
    PROVE  \E m \in S : \A k \in S : m <= k
  <1>1. \E m \in S : \A k \in S : ~ (<<k, m>> \in OpToRel(<, Nat))
    BY NatLessThanWellFounded, WFMin
  <1>2. PICK m \in S : \A k \in S : ~ (<<k, m>> \in OpToRel(<, Nat))
    BY <1>1
  <1>3. ASSUME NEW k \in S PROVE m <= k
    <2>1. ~ (k < m)
      BY <1>2 DEF OpToRel
    <2> QED BY <2>1
  <1> QED BY <1>3

\* Rebase is the recursive function its definition writes.
LEMMA RebaseIs ==
    ASSUME NEW log, NEW L \in Nat, DOMAIN log = 1 .. L, NEW upstream, NEW favor
    PROVE  /\ DOMAIN Rebase(log, upstream, favor) = 1 .. L
           /\ \A i \in 1 .. L : Rebase(log, upstream, favor)[i] =
                IF i = 1 THEN upstream
                ELSE Merge(log[i - 1], Rebase(log, upstream, favor)[i - 1], log[i], favor)
  <1> DEFINE Next1(f, i) == IF i = 1 THEN upstream ELSE Merge(log[i - 1], f[i - 1], log[i], favor)
             Good(n) == \E f : f = [i \in 1 .. n |-> Next1(f, i)]
  <1>1. Good(L)
    <2> SUFFICES ASSUME ~ Good(L) PROVE FALSE
      OBVIOUS
    <2> DEFINE Bad == {n \in Nat : ~ Good(n)}
    <2>1. Bad \in SUBSET Nat /\ Bad # {}
      OBVIOUS
    <2> HIDE DEF Bad
    <2>2. PICK m \in Bad : \A k \in Bad : m <= k
      BY <2>1, LeastNatural
    <2>3. m \in Nat /\ ~ Good(m)
      BY <2>2 DEF Bad
    <2>4. CASE m = 0
      <3> DEFINE e == [i \in 1 .. 0 |-> upstream]
      <3>1. e = [i \in 1 .. 0 |-> Next1(e, i)]
        OBVIOUS
      <3>2. Good(0)
        BY <3>1
      <3> HIDE DEF Good
      <3> QED BY <2>3, <2>4, <3>2
    <2>5. CASE m # 0
      <3>1. m - 1 \in Nat /\ m - 1 \notin Bad
        BY <2>2, <2>3, <2>5
      <3>2. Good(m - 1)
        BY <3>1 DEF Bad
      <3>3. PICK f : f = [i \in 1 .. (m - 1) |-> Next1(f, i)]
        BY <3>2
      <3> DEFINE g == [i \in 1 .. m |-> Next1(f, i)]
      <3>4. ASSUME NEW i \in 1 .. (m - 1) PROVE g[i] = f[i]
        <4>1. g[i] = Next1(f, i)
          BY <2>3
        <4>2. f[i] = Next1(f, i)
          BY <3>3
        <4> QED BY <4>1, <4>2
      <3>5. ASSUME NEW i \in 1 .. m PROVE Next1(g, i) = Next1(f, i)
        <4>1. CASE i = 1
          BY <4>1
        <4>2. CASE i # 1
          <5>1. i - 1 \in 1 .. (m - 1)
            BY <2>3, <4>2
          <5>2. g[i - 1] = f[i - 1]
            BY <3>4, <5>1
          <5> HIDE DEF g
          <5> QED BY <5>2
        <4> QED BY <4>1, <4>2
      <3>6. g = [i \in 1 .. m |-> Next1(g, i)]
        <4>1. g = [i \in 1 .. m |-> Next1(f, i)]
          OBVIOUS
        <4> HIDE DEF g, Next1
        <4> QED BY <3>5, <4>1
      <3>7. Good(m)
        <4> HIDE DEF g, Next1
        <4> QED BY <3>6
      <3> QED BY <2>3, <3>7
    <2> QED BY <2>4, <2>5
  <1> DEFINE new == CHOOSE f : f = [i \in 1 .. L |-> Next1(f, i)]
  <1>2. new = [i \in 1 .. L |-> Next1(new, i)]
    <2> HIDE DEF Next1
    <2> QED BY <1>1
  <1>3. Rebase(log, upstream, favor) = [i \in 1 .. L |-> new[i]]
    BY DEF Rebase, Replay
  <1>4. \A i \in 1 .. L : Rebase(log, upstream, favor)[i] = new[i]
    <2> HIDE DEF new
    <2> QED BY <1>3
  <1>5. ASSUME NEW i \in 1 .. L
        PROVE  Rebase(log, upstream, favor)[i] =
                IF i = 1 THEN upstream
                ELSE Merge(log[i - 1], Rebase(log, upstream, favor)[i - 1], log[i], favor)
    <2>1. new[i] = Next1(new, i)
      <3> HIDE DEF new, Next1
      <3> QED BY <1>2
    <2> HIDE DEF new
    <2>2. CASE i = 1
      BY <1>4, <2>1, <2>2
    <2>3. CASE i # 1
      <3>1. i - 1 \in 1 .. L
        BY <2>3
      <3>2. Rebase(log, upstream, favor)[i - 1] = new[i - 1]
        BY <1>4, <3>1
      <3> QED BY <1>4, <2>1, <2>3, <3>2
    <2> QED BY <2>2, <2>3
  <1> QED BY <1>3, <1>5

-----------------------------------------------------------------------------
(* What a clone may hold.  Everything here is a matter of trees, so that   *)
(* what git makes of them can be settled without a state: S stands for     *)
(* seen, rem for the remote, fresh for "no claim can be stale yet".        *)

At(t, r) == t.queue[r].at
Done(t, r) == t.page[r] = "analysis"

\* A tree has an analysis only of a request that was seen and that is no
\* longer asked for.
Sound(t, S) == \A r \in Requests : Done(t, r) => r \in S /\ At(t, r) = "none"
Within(t, A) == \A r \in Requests : At(t, r) # "none" => r \in A

Accounted(t, S, day, r) ==
    \/ At(t, r) # "none"
    \/ Done(t, r)
    \/ \E s \in Requests : day[s] = day[r] /\ r < s /\ (s \in S \/ At(t, s) # "none")

\* What a commit of node n makes of its parent p: analyses stay, only an
\* analyst adds one, only the on-prem node adds a request, of which nobody
\* knows, a request goes with its analysis or for a newer one, and nobody
\* touches the fresh claim of another.
Change(n, p, q, S, rem, fresh, day) ==
    \A r \in Requests :
      /\ Done(p, r) => Done(q, r)
      /\ ~ Done(p, r) /\ Done(q, r) =>
           n # OnPrem /\ (At(p, r) = "none" => At(rem, r) = "none")
      /\ At(p, r) = "none" /\ At(q, r) # "none" => n = OnPrem /\ r \notin S
      /\ At(p, r) # "none" => Accounted(q, S, day, r)
      /\ fresh /\ p.queue[r] # q.queue[r] =>
           \/ At(p, r) \in {"none", "pending"}
           \/ n # OnPrem /\ At(p, r) = "claimed" /\ p.queue[r].by = n

\* The commit of an answer to request a: nothing but the request and its page.
AnswerTo(a, p, q) ==
    \A r \in Requests :
      /\ r # a => q.queue[r] = p.queue[r]
      /\ q.page[r] # p.page[r] => Done(q, r)

LogOK(n, log, A, S, rem, fresh, day) ==
    /\ log \in Seq(Trees) /\ Len(log) >= 1
    /\ \A i \in 1 .. Len(log) : Sound(log[i], S) /\ Within(log[i], A)
    /\ Within(log[1], S)
    /\ \A i \in 2 .. Len(log) : Change(n, log[i - 1], log[i], S, rem, fresh, day)

\* How a replayed tree m compares with the local one, t, that it stands for.
Follows(m, t, S, rem) ==
    \A r \in Requests :
      /\ At(rem, r) # "none" /\ At(m, r) = "none" => At(t, r) = "none"
      /\ r \notin S => At(m, r) = At(t, r)
      /\ r \in S /\ At(rem, r) = "none" => At(m, r) = "none"
      /\ Done(m, r) => Done(rem, r) \/ Done(t, r)

-----------------------------------------------------------------------------
(* Merging                                                                 *)

LEMMA TreeFields ==
    ASSUME NEW t \in Trees
    PROVE  /\ t.queue \in [Requests -> Files] /\ t.page \in [Requests -> Pages]
           /\ t.results \in SUBSET Events
           /\ \A r \in Requests : t.queue[r] \in Files /\ t.page[r] \in Pages
  BY DEF Trees

\* What a file of the merge is, m, of the ancestor's b and the sides' o and t.
PickedOK(m, b, o, t, favor) ==
    /\ m \in Files
    /\ m.at = IF o.at = b.at THEN t.at ELSE o.at
    /\ t = b => m = o
    /\ o = b => m = t
    /\ o = t => m = o
    /\ favor = "ours" /\ o.at # b.at => m = o

LEMMA PickedFile ==
    ASSUME NEW b \in Files, NEW o \in Files, NEW t \in Files, NEW favor
    PROVE  PickedOK(PickFile(b, o, t, favor), b, o, t, favor)
  <1> DEFINE p == Pick(b, o, t, favor)
             at == IF o.at = b.at THEN t.at ELSE o.at
             m == PickFile(b, o, t, favor)
  <1>1. p \in Files /\ (p = o \/ p = t)
    BY DEF Pick
  <1>2. m = [p EXCEPT !.at = at]
    BY DEF PickFile
  <1>3. m = [at |-> at, attempts |-> p.attempts, by |-> p.by, since |-> p.since]
    <2> HIDE DEF p, at, m
    <2> QED BY <1>1, <1>2 DEF Files
  <1>4. m \in Files /\ m.at = at
    BY <1>1, <1>3 DEF Files
  <1>5. \A f \in Files : p = f /\ at = f.at => m = f
    <2> HIDE DEF p, at, m
    <2> QED BY <1>3 DEF Files
  <1>6. /\ t = b => p = o /\ at = o.at
        /\ o = b => p = t /\ at = t.at
        /\ o = t => p = o /\ at = o.at
        /\ favor = "ours" /\ o.at # b.at => p = o /\ at = o.at
    BY DEF Pick
  <1>7. m.at = IF o.at = b.at THEN t.at ELSE o.at
    BY <1>4
  <1>8. /\ t = b => m = o
        /\ o = b => m = t
        /\ o = t => m = o
        /\ favor = "ours" /\ o.at # b.at => m = o
    <2> HIDE DEF p, at, m
    <2> QED BY <1>5, <1>6
  <1> HIDE DEF p, at, m
  <1> QED BY <1>4, <1>7, <1>8 DEF PickedOK, m

LEMMA MergeTypes ==
    ASSUME NEW b \in Trees, NEW o \in Trees, NEW t \in Trees, NEW favor
    PROVE  /\ Merge(b, o, t, favor) \in Trees
           /\ \A r \in Requests :
                /\ Merge(b, o, t, favor).queue[r]
                     = PickFile(b.queue[r], o.queue[r], t.queue[r], favor)
                /\ Merge(b, o, t, favor).page[r]
                     = Pick(b.page[r], o.page[r], t.page[r], favor)
  <1> DEFINE m == Merge(b, o, t, favor)
  <1>1. m.queue = [r \in Requests |-> PickFile(b.queue[r], o.queue[r], t.queue[r], favor)]
    BY TreeFields DEF Merge, MergeFiles
  <1>2. m.page = [r \in Requests |-> Pick(b.page[r], o.page[r], t.page[r], favor)]
    BY DEF Merge
  <1>3. m.queue \in [Requests -> Files]
    <2>1. \A r \in Requests : PickFile(b.queue[r], o.queue[r], t.queue[r], favor) \in Files
      BY TreeFields, PickedFile DEF PickedOK
    <2> QED BY <1>1, <2>1
  <1>4. m.page \in [Requests -> Pages]
    BY <1>2, TreeFields DEF Pick
  <1>5. m.results \in SUBSET Events
    BY TreeFields DEF Merge
  <1>6. m = [queue |-> m.queue, results |-> m.results, page |-> m.page]
    BY DEF Merge
  <1> HIDE DEF m
  <1>7. m \in Trees
    BY <1>3, <1>4, <1>5, <1>6 DEF Trees
  <1> QED BY <1>1, <1>2, <1>7 DEF m

\* What the two sides of a merge are, file by file.
LEMMA MergedFile ==
    ASSUME NEW b \in Trees, NEW o \in Trees, NEW t \in Trees, NEW favor,
           ~ Clash(b, o, t, favor), NEW r \in Requests
    PROVE  LET m == Merge(b, o, t, favor)
           IN  /\ At(m, r) = IF At(o, r) = At(b, r) THEN At(t, r) ELSE At(o, r)
               /\ At(b, r) # "none" /\ At(t, r) = "none" /\ At(o, r) # "none"
                    => o.queue[r] = b.queue[r]
               /\ t.queue[r] = b.queue[r] => m.queue[r] = o.queue[r]
               /\ o.queue[r] = b.queue[r] => m.queue[r] = t.queue[r]
               /\ o.queue[r] = t.queue[r] => m.queue[r] = o.queue[r]
               /\ favor = "ours" /\ At(o, r) # At(b, r) => m.queue[r] = o.queue[r]
               /\ favor = "none" =>
                    \/ t.queue[r] = b.queue[r] \/ o.queue[r] = b.queue[r]
                    \/ o.queue[r] = t.queue[r]
  <1>1. r \in DOMAIN b.queue
    BY TreeFields
  <1>2. ~ FileClash(b.queue[r], o.queue[r], t.queue[r], favor)
    BY <1>1 DEF Clash, FilesClash
  <1>3. b.queue[r] \in Files /\ o.queue[r] \in Files /\ t.queue[r] \in Files
    BY TreeFields
  <1>4. Merge(b, o, t, favor).queue[r] = PickFile(b.queue[r], o.queue[r], t.queue[r], favor)
    BY MergeTypes
  <1> DEFINE bf == b.queue[r]
             of == o.queue[r]
             tf == t.queue[r]
             mf == Merge(b, o, t, favor).queue[r]
  <1>5. /\ mf.at = IF of.at = bf.at THEN tf.at ELSE of.at
        /\ tf = bf => mf = of
        /\ of = bf => mf = tf
        /\ of = tf => mf = of
        /\ favor = "ours" /\ of.at # bf.at => mf = of
    <2> DEFINE p == PickFile(bf, of, tf, favor)
    <2>1. PickedOK(p, bf, of, tf, favor)
      BY <1>3, PickedFile
    <2>2. mf = p
      BY <1>4
    <2> HIDE DEF p, mf, bf, of, tf
    <2> QED BY <2>1, <2>2 DEF PickedOK
  <1>6. /\ bf.at # "none" /\ tf.at = "none" /\ of.at # "none" => of = bf
        /\ favor = "none" => tf = bf \/ of = bf \/ of = tf
    <2> HIDE DEF bf, of, tf
    <2> QED BY <1>2 DEF FileClash, BothChanged, bf, of, tf
  <1> QED BY <1>5, <1>6 DEF At

LEMMA MergedPage ==
    ASSUME NEW b \in Trees, NEW o \in Trees, NEW t \in Trees, NEW favor,
           ~ Clash(b, o, t, favor), NEW r \in Requests
    PROVE  LET m == Merge(b, o, t, favor)
           IN  /\ m.page[r] \in {o.page[r], t.page[r]}
               /\ o.page[r] = b.page[r] => m.page[r] = t.page[r]
               /\ t.page[r] = b.page[r] => m.page[r] = o.page[r]
               /\ favor = "ours" /\ o.page[r] # b.page[r] => m.page[r] = o.page[r]
               /\ favor # "ours" /\ o.page[r] # b.page[r] /\ t.page[r] # b.page[r]
                    => m.page[r] = t.page[r]
               /\ favor = "none" =>
                    \/ t.page[r] = b.page[r] \/ o.page[r] = b.page[r]
                    \/ o.page[r] = t.page[r]
  <1>1. Merge(b, o, t, favor).page[r] = Pick(b.page[r], o.page[r], t.page[r], favor)
    BY MergeTypes
  <1> QED BY <1>1 DEF Pick, Clash, BothChanged

\* A side that git may favor: -X ours for a tick, -X theirs for an answer,
\* whose request is still claimed as long as claims are fresh.
Favors(n, favor, a, b, o, t, fresh) ==
    \/ favor = "none"
    \/ favor = "ours" /\ n = OnPrem
    \/ /\ favor = "theirs" /\ n # OnPrem /\ AnswerTo(a, b, t)
       /\ fresh => /\ o.queue[a] = b.queue[a]
                   /\ At(o, a) = "claimed" /\ o.queue[a].by = n

LEMMA MergeSound ==
    ASSUME NEW n, NEW b \in Trees, NEW o \in Trees, NEW t \in Trees, NEW favor, NEW a,
           NEW S, NEW A, NEW rem \in Trees, NEW fresh, NEW day,
           ~ Clash(b, o, t, favor),
           Sound(b, S), Sound(o, S), Sound(t, S), Within(o, A), Within(t, A),
           Change(n, b, t, S, rem, fresh, day), Follows(o, b, S, rem)
    PROVE  /\ Sound(Merge(b, o, t, favor), S)
           /\ Within(Merge(b, o, t, favor), A)
           /\ Follows(Merge(b, o, t, favor), t, S, rem)
  <1> DEFINE m == Merge(b, o, t, favor)
  <1>1. ASSUME NEW r \in Requests, Done(m, r) PROVE r \in S /\ At(m, r) = "none"
    <2>1. CASE Done(o, r)
      <3>1. At(o, r) = "none" /\ r \in S
        BY <2>1 DEF Sound
      <3>2. At(b, r) = "none" => At(t, r) = "none"
        BY <3>1 DEF Change
      <3> QED BY <3>1, <3>2, MergedFile
    <2>2. CASE ~ Done(o, r)
      <3>1. Done(t, r) /\ t.page[r] # b.page[r]
        BY <1>1, <2>2, MergedPage DEF Done
      <3>2. r \in S /\ At(t, r) = "none" /\ ~ Done(b, r)
        BY <3>1 DEF Sound, Done
      <3>3. At(b, r) = "none" => At(o, r) = "none"
        BY <3>1, <3>2 DEF Change, Follows
      <3>4. At(b, r) # "none" /\ At(o, r) # "none" => o.queue[r] = b.queue[r]
        BY <3>2, MergedFile
      <3> QED BY <3>2, <3>3, <3>4, MergedFile DEF At
    <2> QED BY <2>1, <2>2
  <1>2. Within(m, A)
    <2>1. ASSUME NEW r \in Requests, At(m, r) # "none" PROVE r \in A
      BY <2>1, MergedFile DEF Within
    <2> QED BY <2>1 DEF Within
  <1>3. ASSUME NEW r \in Requests
        PROVE  /\ At(rem, r) # "none" /\ At(m, r) = "none" => At(t, r) = "none"
               /\ r \notin S => At(m, r) = At(t, r)
               /\ r \in S /\ At(rem, r) = "none" => At(m, r) = "none"
               /\ Done(m, r) => Done(rem, r) \/ Done(t, r)
    <2>1. At(m, r) = IF At(o, r) = At(b, r) THEN At(t, r) ELSE At(o, r)
      BY MergedFile
    <2>2. /\ At(rem, r) # "none" /\ At(o, r) = "none" => At(b, r) = "none"
          /\ r \notin S => At(o, r) = At(b, r)
          /\ r \in S /\ At(rem, r) = "none" => At(o, r) = "none"
          /\ Done(o, r) => Done(rem, r) \/ Done(b, r)
      BY DEF Follows
    <2>3. /\ Done(b, r) => Done(t, r)
          /\ At(b, r) = "none" /\ At(t, r) # "none" => r \notin S
      BY DEF Change
    <2>4. Done(m, r) => Done(o, r) \/ Done(t, r)
      BY MergedPage DEF Done
    <2> HIDE DEF m
    <2> QED BY <2>1, <2>2, <2>3, <2>4
  <1> QED BY <1>1, <1>2, <1>3 DEF Sound, Follows

LEMMA MergeChanges ==
    ASSUME NEW n, NEW b \in Trees, NEW o \in Trees, NEW t \in Trees, NEW favor, NEW a,
           NEW S, NEW rem \in Trees, NEW fresh, NEW day,
           ~ Clash(b, o, t, favor), Favors(n, favor, a, b, o, t, fresh),
           Sound(b, S), Sound(o, S), Sound(t, S),
           Change(n, b, t, S, rem, fresh, day), Follows(o, b, S, rem)
    PROVE  Change(n, o, Merge(b, o, t, favor), S, rem, fresh, day)
  <1> DEFINE m == Merge(b, o, t, favor)
  <1> SUFFICES ASSUME NEW r \in Requests
               PROVE  /\ Done(o, r) => Done(m, r)
                      /\ ~ Done(o, r) /\ Done(m, r) =>
                           n # OnPrem /\ (At(o, r) = "none" => At(rem, r) = "none")
                      /\ At(o, r) = "none" /\ At(m, r) # "none" => n = OnPrem /\ r \notin S
                      /\ At(o, r) # "none" => Accounted(m, S, day, r)
                      /\ fresh /\ o.queue[r] # m.queue[r] =>
                           \/ At(o, r) \in {"none", "pending"}
                           \/ n # OnPrem /\ At(o, r) = "claimed" /\ o.queue[r].by = n
    BY DEF Change
  <1>1. At(m, r) = IF At(o, r) = At(b, r) THEN At(t, r) ELSE At(o, r)
    BY MergedFile
  <1>2. /\ Done(b, r) => Done(t, r)
        /\ ~ Done(b, r) /\ Done(t, r) =>
             n # OnPrem /\ (At(b, r) = "none" => At(rem, r) = "none")
        /\ At(b, r) = "none" /\ At(t, r) # "none" => n = OnPrem /\ r \notin S
        /\ At(b, r) # "none" => Accounted(t, S, day, r)
        /\ fresh /\ b.queue[r] # t.queue[r] =>
             \/ At(b, r) \in {"none", "pending"}
             \/ n # OnPrem /\ At(b, r) = "claimed" /\ b.queue[r].by = n
    BY DEF Change
  <1>3. At(rem, r) # "none" /\ At(o, r) = "none" => At(b, r) = "none"
    BY DEF Follows
  <1>4. favor = "theirs" /\ t.page[r] # b.page[r] => Done(t, r)
    BY DEF Favors, AnswerTo
  <1>5. Done(o, r) => Done(m, r)
    BY <1>2, <1>4, MergedPage DEF Done, Favors
  <1>6. ASSUME ~ Done(o, r), Done(m, r)
        PROVE  n # OnPrem /\ (At(o, r) = "none" => At(rem, r) = "none")
    <2>1. Done(t, r) /\ ~ Done(b, r)
      BY <1>6, MergedPage DEF Done
    <2> QED BY <1>2, <1>3, <2>1
  <1>7. At(o, r) = "none" /\ At(m, r) # "none" => n = OnPrem /\ r \notin S
    BY <1>1, <1>2
  <1>8. ASSUME At(o, r) # "none" PROVE Accounted(m, S, day, r)
    <2>1. CASE At(m, r) # "none"
      BY <2>1 DEF Accounted
    <2>2. CASE At(m, r) = "none"
      <3>1. At(o, r) = At(b, r) /\ At(t, r) = "none" /\ At(b, r) # "none"
        BY <1>1, <1>8, <2>2
      <3>2. CASE Done(t, r)
        <4>1. ~ Done(b, r) /\ n # OnPrem
          BY <1>2, <3>1, <3>2 DEF Sound
        <4>2. Done(m, r)
          BY <3>2, <4>1, MergedPage DEF Done, Favors
        <4> QED BY <4>2 DEF Accounted
      <3>3. CASE ~ Done(t, r)
        <4>1. PICK s \in Requests :
                day[s] = day[r] /\ r < s /\ (s \in S \/ At(t, s) # "none")
          BY <1>2, <3>1, <3>3 DEF Accounted
        <4>2. s \notin S => At(m, s) = At(t, s)
          BY MergedFile DEF Follows
        <4> HIDE DEF m
        <4> QED BY <4>1, <4>2 DEF Accounted
      <3> QED BY <3>2, <3>3
    <2> QED BY <2>1, <2>2
  <1>9. ASSUME fresh, o.queue[r] # m.queue[r]
        PROVE  \/ At(o, r) \in {"none", "pending"}
               \/ n # OnPrem /\ At(o, r) = "claimed" /\ o.queue[r].by = n
    <2>1. t.queue[r] # b.queue[r] /\ o.queue[r] # t.queue[r]
      BY <1>9, MergedFile
    <2>2. CASE favor = "theirs"
      <3>1. r = a /\ At(o, a) = "claimed" /\ o.queue[a].by = n /\ n # OnPrem
        BY <1>9, <2>1, <2>2 DEF Favors, AnswerTo
      <3> QED BY <3>1
    <2>3. CASE favor = "none"
      <3>1. o.queue[r] = b.queue[r]
        BY <2>1, <2>3, MergedFile
      <3> QED BY <1>2, <1>9, <2>1, <3>1 DEF At
    <2>4. CASE favor = "ours" /\ n = OnPrem
      <3>1. At(o, r) = At(b, r)
        BY <1>9, <2>4, MergedFile
      <3> QED BY <1>2, <1>9, <2>1, <2>4, <3>1
    <2> QED BY <2>2, <2>3, <2>4 DEF Favors
  <1> QED BY <1>5, <1>6, <1>7, <1>8, <1>9

-----------------------------------------------------------------------------
(* Logs                                                                    *)

LEMMA Induction ==
    ASSUME NEW L \in Nat, NEW G, 1 \in G, \A i \in 2 .. L : i - 1 \in G => i \in G
    PROVE  \A i \in 1 .. L : i \in G
  <1> SUFFICES ASSUME \E i \in 1 .. L : i \notin G PROVE FALSE
    OBVIOUS
  <1> DEFINE Bad == {i \in 1 .. L : i \notin G}
  <1>1. Bad \in SUBSET Nat /\ Bad # {}
    OBVIOUS
  <1>2. PICK m \in Bad : \A k \in Bad : m <= k
    <2> HIDE DEF Bad
    <2> QED BY <1>1, LeastNatural
  <1>3. m \in 2 .. L /\ m \notin G
    BY <1>2
  <1>4. m - 1 \in 1 .. L /\ ~ (m <= m - 1)
    BY <1>3
  <1>5. m - 1 \in G
    BY <1>2, <1>4
  <1> QED BY <1>3, <1>5

LEMMA LogTrees ==
    ASSUME NEW n, NEW log, NEW A, NEW S, NEW rem, NEW fresh, NEW day,
           LogOK(n, log, A, S, rem, fresh, day)
    PROVE  /\ Len(log) \in Nat /\ DOMAIN log = 1 .. Len(log) /\ Len(log) >= 1
           /\ \A i \in 1 .. Len(log) : log[i] \in Trees
  BY DEF LogOK

\* What is true of a request where the log starts is true of it at the tip:
\* an analysis stays, a request that is gone stays away, nobody else touches
\* the fresh claim of an analyst, and a request that goes is accounted for.
LEMMA AlongTheLog ==
    ASSUME NEW n, NEW log, NEW A, NEW S, NEW rem, NEW fresh, NEW day,
           LogOK(n, log, A, S, rem, fresh, day), NEW r \in Requests
    PROVE  LET tip == log[Len(log)]
           IN  /\ Done(log[1], r) => Done(tip, r)
               /\ r \in S /\ At(log[1], r) = "none" => At(tip, r) = "none"
               /\ /\ fresh /\ At(log[1], r) = "claimed"
                  /\ n = OnPrem \/ log[1].queue[r].by # n
                  => tip.queue[r] = log[1].queue[r]
               /\ At(log[1], r) # "none" =>
                     \/ At(tip, r) # "none"
                     \/ Done(tip, r)
                     \/ \E s \in Requests : day[s] = day[r] /\ r < s
                                            /\ (s \in S \/ At(tip, s) # "none")
  <1> DEFINE L == Len(log)
  <1>1. L \in Nat /\ L >= 1 /\ L \in 1 .. L
    BY LogTrees
  <1>2. \A i \in 2 .. L : Change(n, log[i - 1], log[i], S, rem, fresh, day)
    BY DEF LogOK
  <1>3. \A i \in 1 .. L : Sound(log[i], S)
    BY DEF LogOK
  <1> HIDE DEF L
  <1>4. ASSUME Done(log[1], r) PROVE Done(log[L], r)
    <2> DEFINE G == {i \in 1 .. L : Done(log[i], r)}
    <2>1. 1 \in G
      BY <1>1, <1>4
    <2>2. ASSUME NEW i \in 2 .. L, i - 1 \in G PROVE i \in G
      BY <1>1, <1>2, <2>2 DEF Change
    <2> HIDE DEF G
    <2>3. L \in G
      BY <1>1, <2>1, <2>2, Induction
    <2> QED BY <2>3 DEF G
  <1>5. ASSUME r \in S, At(log[1], r) = "none" PROVE At(log[L], r) = "none"
    <2> DEFINE G == {i \in 1 .. L : At(log[i], r) = "none"}
    <2>1. 1 \in G
      BY <1>1, <1>5
    <2>2. ASSUME NEW i \in 2 .. L, i - 1 \in G PROVE i \in G
      BY <1>1, <1>2, <1>5, <2>2 DEF Change
    <2> HIDE DEF G
    <2>3. L \in G
      BY <1>1, <2>1, <2>2, Induction
    <2> QED BY <2>3 DEF G
  <1>6. ASSUME fresh, At(log[1], r) = "claimed", n = OnPrem \/ log[1].queue[r].by # n
        PROVE  log[L].queue[r] = log[1].queue[r]
    <2> DEFINE G == {i \in 1 .. L : log[i].queue[r] = log[1].queue[r]}
    <2>1. 1 \in G
      BY <1>1
    <2>2. ASSUME NEW i \in 2 .. L, i - 1 \in G PROVE i \in G
      <3>1. log[i - 1].queue[r] = log[1].queue[r]
        BY <2>2
      <3>2. log[i - 1].queue[r] # log[i].queue[r] =>
              \/ At(log[i - 1], r) \in {"none", "pending"}
              \/ n # OnPrem /\ At(log[i - 1], r) = "claimed" /\ log[i - 1].queue[r].by = n
        BY <1>2, <1>6 DEF Change
      <3>3. log[i].queue[r] = log[1].queue[r]
        BY <1>6, <3>1, <3>2 DEF At
      <3> QED BY <1>1, <3>3
    <2> HIDE DEF G
    <2>3. L \in G
      BY <1>1, <2>1, <2>2, Induction
    <2> QED BY <2>3 DEF G
  <1>7. ASSUME At(log[1], r) # "none"
        PROVE  \/ At(log[L], r) # "none"
               \/ Done(log[L], r)
               \/ \E s \in Requests : day[s] = day[r] /\ r < s
                                      /\ (s \in S \/ At(log[L], s) # "none")
    <2> DEFINE Ok(t) ==
                 \/ At(t, r) # "none"
                 \/ Done(t, r)
                 \/ \E s \in Requests : day[s] = day[r] /\ r < s
                                        /\ (s \in S \/ At(t, s) # "none")
               G == {i \in 1 .. L : Ok(log[i])}
    <2>1. 1 \in G
      BY <1>1, <1>7
    <2>2. ASSUME NEW i \in 2 .. L, i - 1 \in G PROVE i \in G
      <3>1. Ok(log[i - 1])
        BY <2>2
      <3>2. ASSUME NEW s \in Requests, At(log[i - 1], s) # "none"
            PROVE  \/ At(log[i], s) # "none"
                   \/ Done(log[i], s)
                   \/ \E u \in Requests : day[u] = day[s] /\ s < u
                                          /\ (u \in S \/ At(log[i], u) # "none")
        BY <1>2, <3>2 DEF Change, Accounted
      <3>3. CASE At(log[i - 1], r) # "none"
        BY <3>2, <3>3
      <3>4. CASE Done(log[i - 1], r)
        BY <1>2, <3>4 DEF Change
      <3>5. ASSUME NEW s \in Requests, day[s] = day[r], r < s,
                   s \in S \/ At(log[i - 1], s) # "none"
            PROVE  Ok(log[i])
        <4>1. CASE s \in S
          BY <3>5, <4>1
        <4>2. CASE At(log[i - 1], s) # "none"
          <5>1. CASE At(log[i], s) # "none"
            BY <3>5, <5>1
          <5>2. CASE Done(log[i], s)
            BY <1>3, <3>5, <5>2 DEF Sound
          <5>3. ASSUME NEW u \in Requests, day[u] = day[s], s < u,
                       u \in S \/ At(log[i], u) # "none"
                PROVE  Ok(log[i])
            <6>1. r < u
              BY <3>5, <5>3, RepositoryAssumption
            <6> QED BY <3>5, <5>3, <6>1
          <5> QED BY <3>2, <4>2, <5>1, <5>2, <5>3
        <4> QED BY <3>5, <4>1, <4>2
      <3>6. Ok(log[i])
        BY <3>1, <3>3, <3>4, <3>5
      <3> HIDE DEF Ok
      <3> QED BY <1>1, <3>6
    <2> HIDE DEF G
    <2>3. L \in G
      BY <1>1, <2>1, <2>2, Induction
    <2> QED BY <2>3 DEF G
  <1> QED BY <1>4, <1>5, <1>6, <1>7 DEF L

\* What is replayed onto the remote, where no commit clashes.
Replayable(n, log, rem, favor, a, fresh) ==
    \/ favor = "none"
    \/ favor = "ours" /\ n = OnPrem
    \/ /\ favor = "theirs" /\ n # OnPrem /\ Len(log) = 2
       /\ AnswerTo(a, log[1], log[2])
       /\ fresh => /\ rem.queue[a] = log[1].queue[a]
                   /\ At(rem, a) = "claimed" /\ rem.queue[a].by = n

RebaseOK(n, log, new, A, S, rem, fresh, day) ==
    /\ LogOK(n, new, A, S, rem, fresh, day)
    /\ Len(new) = Len(log) /\ new[1] = rem
    /\ \A i \in 1 .. Len(log) : Follows(new[i], log[i], S, rem)

LEMMA RebasedLog ==
    ASSUME NEW n, NEW log, NEW A, NEW S, NEW rem \in Trees, NEW fresh, NEW day,
           NEW favor, NEW a,
           LogOK(n, log, A, S, rem, fresh, day), ~ Stops(log, rem, favor),
           Sound(rem, S), Within(rem, S), S \subseteq A,
           Replayable(n, log, rem, favor, a, fresh)
    PROVE  RebaseOK(n, log, Rebase(log, rem, favor), A, S, rem, fresh, day)
  <1> DEFINE L == Len(log)
             new == Rebase(log, rem, favor)
             Ok(i) == /\ new[i] \in Trees /\ Sound(new[i], S) /\ Within(new[i], A)
                      /\ Follows(new[i], log[i], S, rem)
                      /\ i # 1 => Change(n, new[i - 1], new[i], S, rem, fresh, day)
  <1>1. L \in Nat /\ DOMAIN log = 1 .. L /\ L >= 1 /\ 1 \in 1 .. L
    BY LogTrees
  <1>2. /\ \A i \in 1 .. L : log[i] \in Trees /\ Sound(log[i], S) /\ Within(log[i], A)
        /\ Within(log[1], S)
        /\ \A i \in 2 .. L : Change(n, log[i - 1], log[i], S, rem, fresh, day)
    BY LogTrees DEF LogOK
  <1>3. /\ DOMAIN new = 1 .. L
        /\ \A i \in 1 .. L : new[i] = IF i = 1 THEN rem
                                      ELSE Merge(log[i - 1], new[i - 1], log[i], favor)
    BY <1>1, RebaseIs
  <1>4. \A i \in 2 .. L : ~ Clash(log[i - 1], new[i - 1], log[i], favor)
    <2> TAKE i \in 2 .. L
    <2>1. i \in DOMAIN log \ {1}
      BY <1>1
    <2> HIDE DEF L
    <2> QED BY <2>1 DEF Stops
  <1>n. L = 2 \/ favor # "theirs"
    BY DEF Replayable
  <1> HIDE DEF L, new
  <1>5. new[1] = rem
    BY <1>1, <1>3
  <1>6. Ok(1)
    <2>1. Within(rem, A)
      BY DEF Within
    <2>2. Follows(rem, log[1], S, rem)
      BY <1>2 DEF Follows, Within
    <2> QED BY <1>5, <2>1, <2>2
  <1>7. ASSUME NEW i \in 2 .. L, Ok(i - 1) PROVE Ok(i)
    <2> DEFINE b == log[i - 1]
               o == new[i - 1]
               t == log[i]
    <2>1. i \in 1 .. L /\ i - 1 \in 1 .. L /\ i # 1
      BY <1>1
    <2>2. new[i] = Merge(b, o, t, favor)
      BY <1>3, <2>1
    <2>3. b \in Trees /\ t \in Trees /\ Sound(b, S) /\ Sound(t, S) /\ Within(t, A)
      BY <1>2, <2>1
    <2>4. o \in Trees /\ Sound(o, S) /\ Within(o, A) /\ Follows(o, b, S, rem)
      BY <1>7
    <2>5. Change(n, b, t, S, rem, fresh, day) /\ ~ Clash(b, o, t, favor)
      BY <1>2, <1>4
    <2>6. Favors(n, favor, a, b, o, t, fresh)
      <3>1. CASE favor = "theirs"
        <4>1. i = 2 /\ i - 1 = 1
          BY <1>1, <1>n, <2>1, <3>1
        <4>2. b = log[1] /\ o = rem /\ t = log[2]
          BY <1>5, <4>1
        <4> HIDE DEF b, o, t
        <4> QED BY <3>1, <4>2 DEF Replayable, Favors
      <3>2. CASE favor # "theirs"
        BY <3>2 DEF Replayable, Favors
      <3> QED BY <3>1, <3>2
    <2> HIDE DEF b, o, t, Ok
    <2>7. new[i] \in Trees
      BY <2>2, <2>3, <2>4, MergeTypes
    <2>8. Sound(new[i], S) /\ Within(new[i], A) /\ Follows(new[i], t, S, rem)
      BY <2>2, <2>3, <2>4, <2>5, MergeSound
    <2>9. Change(n, o, new[i], S, rem, fresh, day)
      BY <2>2, <2>3, <2>4, <2>5, <2>6, MergeChanges
    <2> QED BY <2>7, <2>8, <2>9 DEF Ok, o, t
  <1>8. ASSUME NEW i \in 1 .. L PROVE Ok(i)
    <2> HIDE DEF Ok
    <2> DEFINE G == {j \in 1 .. L : Ok(j)}
    <2>1. 1 \in G
      BY <1>1, <1>6
    <2>2. ASSUME NEW j \in 2 .. L, j - 1 \in G PROVE j \in G
      BY <1>1, <1>7, <2>2
    <2> HIDE DEF G
    <2>3. i \in G
      BY <1>1, <2>1, <2>2, Induction
    <2> QED BY <2>3 DEF G
  <1>9. new \in Seq(Trees) /\ Len(new) = L
    <2>1. new = [i \in 1 .. L |-> new[i]]
      BY <1>1, <1>3 DEF new, Rebase, Replay
    <2>2. \A i \in 1 .. L : new[i] \in Trees
      BY <1>8
    <2> HIDE DEF Ok
    <2> QED BY <1>1, <2>1, <2>2
  <1>10. LogOK(n, new, A, S, rem, fresh, day)
    <2>1. \A i \in 1 .. L : Sound(new[i], S) /\ Within(new[i], A)
      BY <1>8
    <2>2. \A i \in 2 .. L : Change(n, new[i - 1], new[i], S, rem, fresh, day)
      <3> TAKE i \in 2 .. L
      <3>1. i \in 1 .. L /\ i # 1
        BY <1>1
      <3> QED BY <1>8, <3>1
    <2> QED BY <1>1, <1>5, <1>9, <2>1, <2>2 DEF LogOK
  <1>11. \A i \in 1 .. L : Follows(new[i], log[i], S, rem)
    BY <1>8
  <1> QED BY <1>5, <1>9, <1>10, <1>11 DEF L, new, RebaseOK

LEMMA RebaseOf ==
    ASSUME NEW n, NEW log, NEW A, NEW S, NEW rem, NEW fresh, NEW day,
           LogOK(n, log, A, S, rem, fresh, day), NEW upstream, NEW favor
    PROVE  /\ DOMAIN Rebase(log, upstream, favor) = 1 .. Len(log)
           /\ \A i \in 1 .. Len(log) : Rebase(log, upstream, favor)[i] =
                IF i = 1 THEN upstream
                ELSE Merge(log[i - 1], Rebase(log, upstream, favor)[i - 1], log[i], favor)
  BY LogTrees, RebaseIs

\* An answer that was replayed is still an answer.
LEMMA RebasedAnswer ==
    ASSUME NEW n, NEW log, NEW A, NEW S, NEW rem \in Trees, NEW fresh, NEW day, NEW a,
           NEW favor, favor = "theirs",
           LogOK(n, log, A, S, rem, fresh, day), ~ Stops(log, rem, favor),
           Len(log) = 2, AnswerTo(a, log[1], log[2])
    PROVE  AnswerTo(a, rem, Rebase(log, rem, favor)[2])
  <1> DEFINE b == log[1]
             t == log[2]
             m == Merge(b, rem, t, favor)
  <1>1. /\ DOMAIN log = 1 .. 2 /\ b \in Trees /\ t \in Trees
    BY LogTrees
  <1>2. /\ Rebase(log, rem, favor)[1] = rem
        /\ Rebase(log, rem, favor)[2]
             = Merge(log[2 - 1], Rebase(log, rem, favor)[2 - 1], log[2], favor)
    <2> DEFINE new == Rebase(log, rem, favor)
    <2>1. /\ DOMAIN new = 1 .. Len(log)
          /\ \A i \in 1 .. Len(log) : new[i] = IF i = 1 THEN rem
                ELSE Merge(log[i - 1], new[i - 1], log[i], favor)
      BY RebaseOf
    <2> HIDE DEF new
    <2>2. new[1] = rem /\ new[2] = Merge(log[2 - 1], new[2 - 1], log[2], favor)
      BY <2>1
    <2> QED BY <2>2 DEF new
  <1>3. Rebase(log, rem, favor)[2] = m
    BY <1>2
  <1>4. ~ Clash(b, rem, t, favor)
    <2>1. ~ Clash(log[2 - 1], Rebase(log, rem, favor)[2 - 1], log[2], favor)
      BY <1>1 DEF Stops
    <2> QED BY <1>2, <2>1
  <1>5. ASSUME NEW r \in Requests
        PROVE  /\ r # a => m.queue[r] = rem.queue[r]
               /\ m.page[r] # rem.page[r] => Done(m, r)
    <2>1. r # a => t.queue[r] = b.queue[r]
      BY DEF AnswerTo
    <2>2. t.page[r] # b.page[r] => Done(t, r)
      BY DEF AnswerTo
    <2>3. t.queue[r] = b.queue[r] => m.queue[r] = rem.queue[r]
      BY <1>1, <1>4, MergedFile
    <2>4. /\ m.page[r] \in {rem.page[r], t.page[r]}
          /\ t.page[r] = b.page[r] => m.page[r] = rem.page[r]
      BY <1>1, <1>4, MergedPage
    <2> HIDE DEF b, t, m
    <2> QED BY <2>1, <2>2, <2>3, <2>4 DEF Done
  <1> QED BY <1>3, <1>5 DEF AnswerTo

LEMMA Committed ==
    ASSUME NEW n, NEW log, NEW A, NEW S, NEW rem, NEW fresh, NEW day,
           LogOK(n, log, A, S, rem, fresh, day), NEW t \in Trees,
           Sound(t, S), Within(t, A), Change(n, log[Len(log)], t, S, rem, fresh, day)
    PROVE  /\ LogOK(n, Append(log, t), A, S, rem, fresh, day)
           /\ Len(Append(log, t)) = Len(log) + 1
           /\ Append(log, t)[Len(log) + 1] = t
           /\ \A i \in 1 .. Len(log) : Append(log, t)[i] = log[i]
  <1> DEFINE L == Len(log)
             new == Append(log, t)
  <1>1. L \in Nat /\ L >= 1 /\ log \in Seq(Trees)
    BY DEF LogOK
  <1>2. /\ new \in Seq(Trees) /\ Len(new) = L + 1 /\ new[L + 1] = t
        /\ \A i \in 1 .. L : new[i] = log[i]
    BY <1>1
  <1>3. /\ \A i \in 1 .. L : Sound(log[i], S) /\ Within(log[i], A)
        /\ Within(log[1], S)
        /\ \A i \in 2 .. L : Change(n, log[i - 1], log[i], S, rem, fresh, day)
    BY DEF LogOK
  <1>4. Change(n, log[L], t, S, rem, fresh, day)
    OBVIOUS
  <1> HIDE DEF L, new
  <1>5. ASSUME NEW i \in 1 .. (L + 1) PROVE Sound(new[i], S) /\ Within(new[i], A)
    <2>1. i = L + 1 \/ i \in 1 .. L
      BY <1>1
    <2> QED BY <1>2, <1>3, <2>1
  <1>6. ASSUME NEW i \in 2 .. (L + 1)
        PROVE  Change(n, new[i - 1], new[i], S, rem, fresh, day)
    <2>1. CASE i = L + 1
      <3>1. i - 1 = L /\ L \in 1 .. L
        BY <1>1, <2>1
      <3>2. new[i - 1] = log[L] /\ new[i] = t
        BY <1>2, <2>1, <3>1
      <3> QED BY <1>4, <3>2
    <2>2. CASE i # L + 1
      <3>1. i \in 2 .. L /\ i - 1 \in 1 .. L /\ i \in 1 .. L
        BY <1>1, <2>2
      <3>2. new[i - 1] = log[i - 1] /\ new[i] = log[i]
        BY <1>2, <3>1
      <3> QED BY <1>3, <3>1, <3>2
    <2> QED BY <2>1, <2>2
  <1>7. new[1] = log[1]
    BY <1>1, <1>2
  <1> QED BY <1>1, <1>2, <1>3, <1>5, <1>6, <1>7 DEF LogOK, L, new

\* `git reset --hard HEAD~1`.
LEMMA Shortened ==
    ASSUME NEW n, NEW log, NEW A, NEW S, NEW rem, NEW fresh, NEW day,
           LogOK(n, log, A, S, rem, fresh, day), Len(log) >= 2
    PROVE  /\ LogOK(n, SubSeq(log, 1, Len(log) - 1), A, S, rem, fresh, day)
           /\ SubSeq(log, 1, Len(log) - 1)[1] = log[1]
  <1> DEFINE L == Len(log)
             new == SubSeq(log, 1, L - 1)
  <1>1. L \in Nat /\ L >= 2 /\ log \in Seq(Trees)
    BY DEF LogOK
  <1>2. new \in Seq(Trees) /\ Len(new) = L - 1 /\ \A i \in 1 .. (L - 1) : new[i] = log[i]
    BY <1>1
  <1>3. /\ \A i \in 1 .. L : Sound(log[i], S) /\ Within(log[i], A)
        /\ Within(log[1], S)
        /\ \A i \in 2 .. L : Change(n, log[i - 1], log[i], S, rem, fresh, day)
    BY DEF LogOK
  <1> HIDE DEF L, new
  <1>4. \A i \in 1 .. (L - 1) : Sound(new[i], S) /\ Within(new[i], A)
    BY <1>1, <1>2, <1>3
  <1>5. ASSUME NEW i \in 2 .. (L - 1)
        PROVE  Change(n, new[i - 1], new[i], S, rem, fresh, day)
    <2>1. i - 1 \in 1 .. (L - 1) /\ i \in 1 .. (L - 1) /\ i \in 2 .. L
      BY <1>1
    <2> QED BY <1>2, <1>3, <2>1
  <1>6. new[1] = log[1] /\ L - 1 >= 1
    BY <1>1, <1>2
  <1> QED BY <1>2, <1>3, <1>4, <1>5, <1>6 DEF LogOK, L, new

\* The remote and the clock move on under a clone.
LEMMA MovedOn ==
    ASSUME NEW n, NEW log, NEW A, NEW S, NEW rem, NEW fresh, NEW day,
           LogOK(n, log, A, S, rem, fresh, day),
           NEW A2, NEW S2, NEW rem2, NEW fresh2,
           A \subseteq A2, S \subseteq S2, S2 = S \/ n # OnPrem, fresh2 => fresh,
           \A r \in Requests : r \in S /\ At(rem, r) = "none" => At(rem2, r) = "none"
    PROVE  LogOK(n, log, A2, S2, rem2, fresh2, day)
  <1> DEFINE L == Len(log)
  <1>1. /\ log \in Seq(Trees) /\ L >= 1 /\ L \in Nat
        /\ \A i \in 1 .. L : Sound(log[i], S) /\ Within(log[i], A)
        /\ Within(log[1], S)
        /\ \A i \in 2 .. L : Change(n, log[i - 1], log[i], S, rem, fresh, day)
    BY DEF LogOK
  <1> HIDE DEF L
  <1>2. \A i \in 1 .. L : Sound(log[i], S2) /\ Within(log[i], A2)
    BY <1>1 DEF Sound, Within
  <1>3. Within(log[1], S2)
    BY <1>1 DEF Within
  <1>4. ASSUME NEW i \in 2 .. L
        PROVE  Change(n, log[i - 1], log[i], S2, rem2, fresh2, day)
    <2> DEFINE p == log[i - 1]
               q == log[i]
    <2>1. Change(n, p, q, S, rem, fresh, day) /\ Sound(q, S)
      BY <1>1
    <2> HIDE DEF p, q
    <2> SUFFICES ASSUME NEW r \in Requests
          PROVE /\ Done(p, r) => Done(q, r)
                /\ ~ Done(p, r) /\ Done(q, r) =>
                     n # OnPrem /\ (At(p, r) = "none" => At(rem2, r) = "none")
                /\ At(p, r) = "none" /\ At(q, r) # "none" => n = OnPrem /\ r \notin S2
                /\ At(p, r) # "none" => Accounted(q, S2, day, r)
                /\ fresh2 /\ p.queue[r] # q.queue[r] =>
                     \/ At(p, r) \in {"none", "pending"}
                     \/ n # OnPrem /\ At(p, r) = "claimed" /\ p.queue[r].by = n
      BY DEF Change, p, q
    <2>2. /\ Done(p, r) => Done(q, r)
          /\ ~ Done(p, r) /\ Done(q, r) =>
               n # OnPrem /\ (At(p, r) = "none" => At(rem, r) = "none")
          /\ At(p, r) = "none" /\ At(q, r) # "none" => n = OnPrem /\ r \notin S
          /\ At(p, r) # "none" => Accounted(q, S, day, r)
          /\ fresh /\ p.queue[r] # q.queue[r] =>
               \/ At(p, r) \in {"none", "pending"}
               \/ n # OnPrem /\ At(p, r) = "claimed" /\ p.queue[r].by = n
      BY <2>1 DEF Change
    <2>3. Done(q, r) => r \in S
      BY <2>1 DEF Sound
    <2>4. Accounted(q, S, day, r) => Accounted(q, S2, day, r)
      BY DEF Accounted
    <2> QED BY <2>2, <2>3, <2>4
  <1> QED BY <1>1, <1>2, <1>3, <1>4 DEF LogOK, L

\* A push that is accepted: the tip of the log becomes the remote.
PushOK(n, tip, A, S, S2, rem, fresh, day) ==
    /\ tip \in Trees /\ Sound(tip, S2) /\ Within(tip, S2)
    /\ S \subseteq S2 /\ S2 \subseteq A /\ (S2 = S \/ n = OnPrem)
    /\ \A r \in Requests : r \in S /\ At(rem, r) = "none" => At(tip, r) = "none"
    /\ LogOK(n, <<tip>>, A, S2, tip, fresh, day)
    /\ \A r \in Requests : Done(rem, r) => Done(tip, r)
    /\ \A r \in Requests : fresh /\ At(rem, r) = "claimed"
                           /\ (n = OnPrem \/ rem.queue[r].by # n)
         => tip.queue[r] = rem.queue[r]
    /\ (\A r \in S : \/ At(rem, r) # "none"
                     \/ Done(rem, r)
                     \/ \E s \in S : day[s] = day[r] /\ r < s)
       => (\A r \in S2 : \/ At(tip, r) # "none"
                         \/ Done(tip, r)
                         \/ \E s \in S2 : day[s] = day[r] /\ r < s)

LEMMA Pushed ==
    ASSUME NEW n, NEW log, NEW A, NEW S, NEW rem, NEW fresh, NEW day,
           LogOK(n, log, A, S, rem, fresh, day), log[1] = rem,
           S \in SUBSET Requests, A \in SUBSET Requests, S \subseteq A, n # OnPrem => A = S,
           NEW tip, tip = log[Len(log)],
           NEW S2, S2 = S \cup {r \in Requests : tip.queue[r].at # "none"}
    PROVE  PushOK(n, tip, A, S, S2, rem, fresh, day)
  <1> DEFINE L == Len(log)
  <1>1. L \in Nat /\ L >= 1 /\ L \in 1 .. L
    BY LogTrees
  <1>2. tip \in Trees /\ Sound(tip, S) /\ Within(tip, A)
    BY <1>1 DEF LogOK
  <1> HIDE DEF L
  <1>3. S \subseteq S2 /\ S2 \subseteq A /\ (S2 = S \/ n = OnPrem)
    BY <1>2 DEF Within, At
  <1>4. Within(tip, S2) /\ Sound(tip, S2)
    BY <1>2, <1>3 DEF Within, Sound, At
  <1>5. ASSUME NEW r \in Requests
        PROVE  /\ Done(rem, r) => Done(tip, r)
               /\ r \in S /\ At(rem, r) = "none" => At(tip, r) = "none"
               /\ fresh /\ At(rem, r) = "claimed" /\ (n = OnPrem \/ rem.queue[r].by # n)
                  => tip.queue[r] = rem.queue[r]
               /\ At(rem, r) # "none" =>
                     \/ At(tip, r) # "none"
                     \/ Done(tip, r)
                     \/ \E s \in Requests : day[s] = day[r] /\ r < s
                                            /\ (s \in S \/ At(tip, s) # "none")
    BY AlongTheLog
  <1>6. LogOK(n, <<tip>>, A, S2, tip, fresh, day)
    <2> DEFINE one == <<tip>>
    <2>1. one \in Seq(Trees) /\ Len(one) = 1 /\ one[1] = tip
      BY <1>2
    <2>2. Within(tip, A)
      BY <1>2
    <2> HIDE DEF one
    <2>3. LogOK(n, one, A, S2, tip, fresh, day)
      BY <2>1, <2>2, <1>4 DEF LogOK
    <2> QED BY <2>3 DEF one
  <1>7. ASSUME \A r \in S : \/ At(rem, r) # "none"
                            \/ Done(rem, r)
                            \/ \E s \in S : day[s] = day[r] /\ r < s,
               NEW r \in S2
        PROVE  \/ At(tip, r) # "none"
               \/ Done(tip, r)
               \/ \E s \in S2 : day[s] = day[r] /\ r < s
    <2>1. r \in Requests
      BY <1>3
    <2>2. CASE r \notin S
      BY <2>2 DEF At
    <2>3. CASE r \in S
      <3>1. \A s \in Requests : s \in S \/ At(tip, s) # "none" => s \in S2
        BY <1>3, <1>4 DEF Within
      <3>2. CASE At(rem, r) # "none"
        BY <1>5, <2>1, <3>1, <3>2
      <3>3. CASE At(rem, r) = "none"
        <4>1. Done(rem, r) \/ \E s \in S : day[s] = day[r] /\ r < s
          BY <1>7, <2>3, <3>3
        <4> QED BY <1>3, <1>5, <2>1, <4>1
      <3> QED BY <3>2, <3>3
    <2> QED BY <2>2, <2>3
  <1> QED BY <1>2, <1>3, <1>4, <1>5, <1>6, <1>7 DEF PushOK

-----------------------------------------------------------------------------
(* The invariant.                                                          *)

Steps == {"off", "pulled", "selecting", "claiming", "running", "answering",
          "fold", "folding", "report", "placeholder"}

TypeOK ==
    /\ remote \in Trees
    /\ seen \subseteq Requests
    /\ clone \in [Nodes -> [log : Seq(Trees), current : BOOLEAN, stopped : BOOLEAN,
                            draft : Requests \cup {0}]]
    /\ pc \in [Nodes -> Steps]
    /\ asked \in Nat
    /\ job \in [Analysts -> [req : Requests \cup {0}, file : Files]]
    /\ tries \in [Analysts -> Nat]
    /\ folded \in [DOMAIN folded -> Nat] /\ DOMAIN folded \subseteq Events
    /\ removed \subseteq Events
    /\ now \in Nat /\ failures \in Nat /\ kills \in Nat
    /\ scenario \in Scenarios

\* The requests a clone may hold: the on-prem node's own, or what was pushed.
Known(n) == IF n = OnPrem THEN {r \in Requests : r <= asked} ELSE seen

RemoteOK == Sound(remote, seen) /\ Within(remote, seen) /\ seen \subseteq Known(OnPrem)

\* No claim can be stale yet.
Fresh == now = 0

CloneOK(n) ==
    /\ LogOK(n, clone[n].log, Known(n), seen, remote, Fresh, scenario.day)
    /\ clone[n].current => clone[n].log[1] = remote

\* A claim of analyst a that its command works on.
Holds(a, file) == file = job[a].file /\ file.at = "claimed" /\ file.by = a

JobOK(a) ==
    /\ pc[a] \in {"claiming", "running", "answering"} => job[a].req \in Requests
    /\ pc[a] \in {"claiming", "running"} => Holds(a, Tip(a).queue[job[a].req])
    /\ pc[a] = "claiming" => Len(clone[a].log) >= 2 /\ clone[a].draft = 0
    /\ pc[a] = "running" => Len(clone[a].log) = 1
    /\ pc[a] = "answering" =>
          /\ Len(clone[a].log) = 2
          /\ AnswerTo(job[a].req, clone[a].log[1], clone[a].log[2])
          /\ now = 0 => Holds(a, clone[a].log[1].queue[job[a].req])
    /\ pc[a] \in {"running", "answering"} /\ now = 0 =>
          Holds(a, remote.queue[job[a].req])
    /\ pc[a] \in {"pulled", "selecting"} /\ clone[a].draft # 0 =>
          ~ Done(Tip(a), clone[a].draft)

TickOK == pc[OnPrem] = "placeholder" => asked \in Requests /\ ~ Done(Tip(OnPrem), asked)

FoldedOk == \A e \in DOMAIN folded : folded[e] = 1

QueueInv ==
    /\ TypeOK /\ RemoteOK /\ EveryRequestIsAccountedFor /\ FoldedOk
    /\ \A n \in Nodes : CloneOK(n)
    /\ \A a \in Analysts : JobOK(a)
    /\ TickOK

-----------------------------------------------------------------------------
(* One node moves.                                                         *)

Clones == [log : Seq(Trees), current : BOOLEAN, stopped : BOOLEAN,
           draft : Requests \cup {0}]

\* What a node may make of its clone in a step, and know before it pushes.
Knows(n) == IF n = OnPrem THEN {r \in Requests : r <= asked'} ELSE seen
Ready(n, c) ==
    /\ c \in Clones
    /\ LogOK(n, c.log, Knows(n), seen, remote, Fresh, scenario.day)
    /\ c.current => c.log[1] = remote

Clockwise(n) ==
    /\ asked' \in Nat /\ asked' >= asked /\ (n # OnPrem => asked' = asked)
    /\ now' = now /\ scenario' = scenario

\* What everybody sees of it.
Moved(n) ==
    /\ remote' \in Trees /\ seen' \subseteq Requests /\ clone' \in [Nodes -> Clones]
    /\ RemoteOK' /\ EveryRequestIsAccountedFor'
    /\ \A m \in Nodes : CloneOK(m)'
    /\ \A m \in Nodes \ {n} : clone'[m].log = clone[m].log /\ clone'[m].draft = clone[m].draft
    /\ \A r \in Requests :
          Fresh /\ At(remote, r) = "claimed" /\ (n = OnPrem \/ remote.queue[r].by # n)
            => remote'.queue[r] = remote.queue[r]
    /\ \A r \in Requests : Done(remote, r) => Done(remote', r)

LEMMA CloneFacts ==
    ASSUME QueueInv, NEW n \in Nodes
    PROVE  /\ clone[n] \in Clones /\ Len(clone[n].log) \in Nat /\ Len(clone[n].log) >= 1
           /\ Tip(n) \in Trees /\ Sound(Tip(n), seen) /\ Within(Tip(n), Known(n))
           /\ seen \subseteq Known(n) /\ Known(n) \subseteq Requests
           /\ LogOK(n, clone[n].log, Known(n), seen, remote, Fresh, scenario.day)
           /\ clone[n].current => clone[n].log[1] = remote
  <1>1. clone[n] \in Clones
    BY DEF QueueInv, TypeOK, Clones
  <1>2. /\ LogOK(n, clone[n].log, Known(n), seen, remote, Fresh, scenario.day)
        /\ clone[n].current => clone[n].log[1] = remote
    BY DEF QueueInv, CloneOK
  <1>3. seen \subseteq Known(n) /\ Known(n) \subseteq Requests
    BY DEF QueueInv, TypeOK, RemoteOK, Known
  <1> DEFINE log == clone[n].log
             L == Len(log)
  <1>4. L \in Nat /\ L >= 1
    BY <1>2, LogTrees
  <1>5. log[L] \in Trees /\ Sound(log[L], seen) /\ Within(log[L], Known(n))
    <2>1. L \in 1 .. L
      BY <1>4
    <2> HIDE DEF L
    <2> QED BY <1>2, <2>1 DEF LogOK, L
  <1> QED BY <1>1, <1>2, <1>3, <1>4, <1>5 DEF Tip

LEMMA KnownGrows ==
    ASSUME QueueInv, NEW n \in Nodes, Clockwise(n)
    PROVE  Known(OnPrem) \subseteq Known(OnPrem)'
  <1>1. asked \in Nat /\ asked' \in Nat /\ asked' >= asked
    BY DEF QueueInv, TypeOK, Clockwise
  <1>2. \A r \in Requests : r <= asked => r <= asked'
    BY <1>1, RepositoryAssumption
  <1> QED BY <1>2 DEF Known

LEMMA OthersClones ==
    ASSUME QueueInv, NEW n \in Nodes, Clockwise(n),
           NEW m \in Nodes \ {n}, clone'[m].log = clone[m].log,
           seen \subseteq seen', seen' = seen \/ n = OnPrem,
           \A r \in Requests : r \in seen /\ At(remote, r) = "none" => At(remote', r) = "none"
    PROVE  LogOK(m, clone'[m].log, Known(m)', seen', remote', Fresh', scenario.day')
  <1>1. LogOK(m, clone[m].log, Known(m), seen, remote, Fresh, scenario.day)
    BY CloneFacts
  <1>2. Known(m) \subseteq Known(m)'
    <2>1. CASE m = OnPrem
      <3>1. asked' = asked
        BY <2>1 DEF Clockwise
      <3> QED BY <2>1, <3>1 DEF Known
    <2>2. CASE m # OnPrem
      BY <2>2 DEF Known
    <2> QED BY <2>1, <2>2
  <1>3. seen' = seen \/ m # OnPrem
    OBVIOUS
  <1>4. Fresh' => Fresh
    BY DEF Clockwise, Fresh
  <1>5. LogOK(m, clone[m].log, Known(m)', seen', remote', Fresh', scenario.day)
    BY <1>1, <1>2, <1>3, <1>4, MovedOn
  <1> QED BY <1>5 DEF Clockwise

\* A commit, a reset, a pull: nothing leaves the clone.
LEMMA Kept ==
    ASSUME QueueInv, NEW n \in Nodes, NEW c, Ready(n, c), Clockwise(n),
           Set(n, c), UNCHANGED <<remote, seen>>
    PROVE  Moved(n) /\ clone'[n] = c /\ remote' = remote
  <1>1. clone' = [clone EXCEPT ![n] = c] /\ clone \in [Nodes -> Clones]
    BY DEF Set, QueueInv, TypeOK, Clones
  <1>2. c \in Clones
    BY DEF Ready
  <1>3. clone' \in [Nodes -> Clones] /\ clone'[n] = c
        /\ \A m \in Nodes \ {n} : clone'[m] = clone[m]
    BY <1>1, <1>2
  <1>4. RemoteOK'
    <2>1. Known(OnPrem) \subseteq Known(OnPrem)'
      BY KnownGrows
    <2>2. Sound(remote, seen) /\ Within(remote, seen) /\ seen \subseteq Known(OnPrem)
      BY DEF QueueInv, RemoteOK
    <2>3. Sound(remote', seen') /\ Within(remote', seen')
      BY <2>2
    <2>4. seen' \subseteq Known(OnPrem)'
      BY <2>1, <2>2
    <2> QED BY <2>3, <2>4 DEF RemoteOK
  <1>5. EveryRequestIsAccountedFor'
    BY DEF QueueInv, EveryRequestIsAccountedFor, Clockwise
  <1>6. ASSUME NEW m \in Nodes PROVE CloneOK(m)'
    <2>1. CASE m = n
      <3>0. Knows(n) = Known(n)'
        BY DEF Knows, Known
      <3>1. LogOK(n, c.log, Known(n)', seen, remote, Fresh, scenario.day)
            /\ (c.current => c.log[1] = remote)
        BY <3>0 DEF Ready
      <3>2. LogOK(n, clone'[n].log, Known(n)', seen', remote', Fresh', scenario.day')
        BY <1>3, <3>1 DEF Clockwise, Fresh
      <3> QED BY <1>3, <2>1, <3>1, <3>2 DEF CloneOK
    <2>2. CASE m # n
      <3>1. clone'[m] = clone[m] /\ m \in Nodes \ {n}
        BY <1>3, <2>2
      <3>2. LogOK(m, clone'[m].log, Known(m)', seen', remote', Fresh', scenario.day')
        BY <3>1, OthersClones
      <3>3. clone[m].current => clone[m].log[1] = remote
        BY CloneFacts
      <3> QED BY <3>1, <3>2, <3>3 DEF CloneOK
    <2> QED BY <2>1, <2>2
  <1>7. remote' \in Trees /\ seen' \subseteq Requests
    BY DEF QueueInv, TypeOK
  <1> QED BY <1>3, <1>4, <1>5, <1>6, <1>7 DEF Moved

\* A push that is accepted.
LEMMA Landed ==
    ASSUME QueueInv, NEW n \in Nodes, NEW c, Ready(n, c), Clockwise(n), Accepts(n, c)
    PROVE  /\ Moved(n) /\ clone'[n].log = <<c.log[Len(c.log)]>>
           /\ clone'[n].draft = c.draft /\ remote' = c.log[Len(c.log)]
  <1> DEFINE tip == c.log[Len(c.log)]
             A == Knows(n)
             day == scenario.day
             S2 == seen \cup {r \in Requests : tip.queue[r].at # "none"}
  <1>1. /\ c.current /\ remote' = tip /\ seen' = S2
        /\ clone' = [m \in Nodes |-> IF m = n THEN [c EXCEPT !.log = <<tip>>]
                       ELSE [clone[m] EXCEPT !.current = @ /\ Len(c.log) = 1]]
    BY DEF Accepts
  <1>2. /\ LogOK(n, c.log, A, seen, remote, Fresh, day)
        /\ c.log[1] = remote /\ c \in Clones
    BY <1>1 DEF Ready
  <1>3. seen \in SUBSET Requests /\ seen \subseteq Known(OnPrem)
    BY DEF QueueInv, TypeOK, RemoteOK
  <1>4. Known(OnPrem) \subseteq Known(OnPrem)'
    BY KnownGrows
  <1>5. A \in SUBSET Requests /\ seen \subseteq A /\ (n # OnPrem => A = seen)
        /\ A \subseteq Known(OnPrem)'
    <2>1. n = OnPrem => A = Known(OnPrem)'
      BY DEF Knows, Known
    <2> QED BY <1>3, <1>4, <2>1 DEF Knows, Known
  <1>6. /\ tip \in Trees /\ Sound(tip, S2) /\ Within(tip, S2)
        /\ seen \subseteq S2 /\ S2 \subseteq A /\ (S2 = seen \/ n = OnPrem)
        /\ \A r \in Requests : r \in seen /\ At(remote, r) = "none" => At(tip, r) = "none"
        /\ LogOK(n, <<tip>>, A, S2, tip, Fresh, day)
        /\ \A r \in Requests : Done(remote, r) => Done(tip, r)
        /\ \A r \in Requests : Fresh /\ At(remote, r) = "claimed"
                               /\ (n = OnPrem \/ remote.queue[r].by # n)
             => tip.queue[r] = remote.queue[r]
        /\ (\A r \in seen : \/ At(remote, r) # "none"
                            \/ Done(remote, r)
                            \/ \E s \in seen : day[s] = day[r] /\ r < s)
           => (\A r \in S2 : \/ At(tip, r) # "none"
                             \/ Done(tip, r)
                             \/ \E s \in S2 : day[s] = day[r] /\ r < s)
    <2>1. tip = c.log[Len(c.log)]
      OBVIOUS
    <2>2. S2 = seen \cup {r \in Requests : tip.queue[r].at # "none"}
      OBVIOUS
    <2>3. /\ LogOK(n, c.log, A, seen, remote, Fresh, day) /\ c.log[1] = remote
          /\ seen \in SUBSET Requests /\ A \in SUBSET Requests
          /\ seen \subseteq A /\ (n # OnPrem => A = seen)
      BY <1>2, <1>3, <1>5
    <2> HIDE DEF A, tip, S2, day
    <2>4. PushOK(n, tip, A, seen, S2, remote, Fresh, day)
      BY <2>1, <2>2, <2>3, Pushed
    <2> QED BY <2>4 DEF PushOK
  <1>7. /\ clone' \in [Nodes -> Clones] /\ clone'[n] = [c EXCEPT !.log = <<tip>>]
        /\ \A m \in Nodes \ {n} :
              clone'[m] = [clone[m] EXCEPT !.current = @ /\ Len(c.log) = 1]
    <2>1. \A m \in Nodes : clone[m] \in Clones
      BY CloneFacts
    <2>2. [c EXCEPT !.log = <<tip>>] \in Clones
      <3>1. <<tip>> \in Seq(Trees)
        BY <1>6
      <3> HIDE DEF tip
      <3> QED BY <1>2, <3>1 DEF Clones
    <2>3. \A m \in Nodes : [clone[m] EXCEPT !.current = @ /\ Len(c.log) = 1] \in Clones
      BY <2>1 DEF Clones
    <2> HIDE DEF tip
    <2> QED BY <1>1, <2>2, <2>3
  <1>8. /\ clone'[n].log = <<tip>> /\ clone'[n].draft = c.draft
        /\ \A m \in Nodes \ {n} :
              /\ clone'[m].log = clone[m].log /\ clone'[m].draft = clone[m].draft
              /\ clone'[m].current => clone[m].current /\ Len(c.log) = 1
    <2>1. \A m \in Nodes : clone[m] \in Clones
      BY CloneFacts
    <2> HIDE DEF tip
    <2> QED BY <1>2, <1>7, <2>1 DEF Clones
  <1>9. RemoteOK'
    BY <1>1, <1>5, <1>6 DEF RemoteOK
  <1>10. EveryRequestIsAccountedFor'
    <2>1. \A r \in seen : \/ At(remote, r) # "none"
                          \/ Done(remote, r)
                          \/ \E s \in seen : day[s] = day[r] /\ r < s
      BY DEF QueueInv, EveryRequestIsAccountedFor, At, Done
    <2>2. \A r \in seen' : \/ At(remote', r) # "none"
                           \/ Done(remote', r)
                           \/ \E s \in seen' : scenario'.day[s] = scenario'.day[r] /\ r < s
      <3> HIDE DEF tip, S2
      <3> QED BY <1>1, <1>6, <2>1 DEF Clockwise
    <2> QED BY <2>2 DEF EveryRequestIsAccountedFor, At, Done
  <1>11. ASSUME NEW m \in Nodes PROVE CloneOK(m)'
    <2>1. CASE m = n
      <3>1. A \subseteq Known(n)' /\ Known(n)' = (IF n = OnPrem THEN A ELSE S2)
        BY <1>1, <1>5, <1>6 DEF Known, Knows
      <3>2. LogOK(n, <<tip>>, Known(n)', S2, tip, Fresh, day)
        <4>1. CASE n = OnPrem
          BY <1>6, <3>1, <4>1
        <4>2. CASE n # OnPrem
          <5>1. A = S2
            BY <1>5, <1>6, <4>2
          <5> QED BY <1>6, <3>1, <4>2, <5>1
        <4> QED BY <4>1, <4>2
      <3>3. LogOK(n, clone'[n].log, Known(n)', seen', remote', Fresh', scenario.day')
        <4> HIDE DEF tip, S2
        <4> QED BY <1>1, <1>8, <3>2 DEF Clockwise, Fresh
      <3>4. clone'[n].log[1] = remote'
        BY <1>1, <1>8
      <3> QED BY <2>1, <3>3, <3>4 DEF CloneOK
    <2>2. CASE m # n
      <3>1. /\ m \in Nodes \ {n} /\ clone'[m].log = clone[m].log
            /\ clone'[m].current => clone[m].current /\ Len(c.log) = 1
        BY <1>8, <2>2
      <3>2. /\ seen \subseteq seen' /\ (seen' = seen \/ n = OnPrem)
            /\ \A r \in Requests : r \in seen /\ At(remote, r) = "none" => At(remote', r) = "none"
        <4> HIDE DEF tip, S2
        <4> QED BY <1>1, <1>6
      <3>3. LogOK(m, clone'[m].log, Known(m)', seen', remote', Fresh', scenario.day')
        BY <3>1, <3>2, OthersClones
      <3>4. ASSUME clone'[m].current PROVE clone'[m].log[1] = remote'
        <4>1. clone[m].log[1] = remote
          BY <3>1, <3>4, CloneFacts
        <4>2. Len(c.log) = 1
          BY <3>1, <3>4
        <4>3. remote' = remote
          BY <1>1, <1>2, <4>2
        <4> QED BY <3>1, <4>1, <4>3
      <3> QED BY <3>3, <3>4 DEF CloneOK
    <2> QED BY <2>1, <2>2
  <1>12. remote' \in Trees /\ seen' \subseteq Requests
    BY <1>1, <1>3, <1>6
  <1>13. Moved(n)
    <2> HIDE DEF tip, S2
    <2> QED BY <1>1, <1>6, <1>7, <1>8, <1>9, <1>10, <1>11, <1>12 DEF Moved
  <1> QED BY <1>1, <1>8, <1>13

LEMMA KnowsMore ==
    ASSUME QueueInv, NEW n \in Nodes, Clockwise(n)
    PROVE  Known(n) \subseteq Knows(n)
  <1>1. n = OnPrem => Known(n) = Known(OnPrem) /\ Knows(n) = Known(OnPrem)'
    BY DEF Known, Knows
  <1>2. n # OnPrem => Known(n) = Knows(n)
    BY DEF Known, Knows
  <1> QED BY <1>1, <1>2, KnownGrows

LEMMA SameLog ==
    ASSUME QueueInv, NEW n \in Nodes, Clockwise(n), NEW c \in Clones,
           c.log = clone[n].log, c.current = clone[n].current
    PROVE  Ready(n, c)
  <1>1. /\ LogOK(n, c.log, Known(n), seen, remote, Fresh, scenario.day)
        /\ c.current => c.log[1] = remote
    BY CloneFacts
  <1>2. LogOK(n, c.log, Knows(n), seen, remote, Fresh, scenario.day)
    <2> DEFINE fresh == Fresh
    <2>1. LogOK(n, c.log, Known(n), seen, remote, fresh, scenario.day)
      BY <1>1
    <2>2. Known(n) \subseteq Knows(n)
      BY KnowsMore
    <2> HIDE DEF fresh
    <2>3. LogOK(n, c.log, Knows(n), seen, remote, fresh, scenario.day)
      BY <2>1, <2>2, MovedOn
    <2> QED BY <2>3 DEF fresh
  <1> QED BY <1>1, <1>2 DEF Ready

LEMMA Unmoved ==
    ASSUME QueueInv, NEW n \in Nodes, Clockwise(n), UNCHANGED <<remote, seen, clone>>
    PROVE  Moved(n)
  <1>1. clone[n] \in Clones /\ clone \in [Nodes -> Clones]
    BY DEF QueueInv, TypeOK, Clones
  <1>2. Set(n, clone[n])
    BY <1>1 DEF Set
  <1> QED BY <1>1, <1>2, SameLog, Kept

LEMMA Commits ==
    ASSUME QueueInv, NEW n \in Nodes, Clockwise(n), NEW t \in Trees,
           Sound(t, seen), Within(t, Knows(n)),
           Change(n, Tip(n), t, seen, remote, Fresh, scenario.day)
    PROVE  LET c == Commit(n, t)
               L == Len(clone[n].log)
           IN  /\ Ready(n, c) /\ c.draft = 0 /\ c.current = clone[n].current
               /\ Len(c.log) = L + 1 /\ c.log[L + 1] = t /\ c.log[L] = Tip(n)
               /\ L \in Nat /\ L >= 1
  <1> DEFINE c == Commit(n, t)
             log == clone[n].log
             L == Len(log)
             day == scenario.day
             fresh == Fresh
  <1>1. /\ clone[n] \in Clones /\ L \in Nat /\ L >= 1 /\ Tip(n) = log[L]
        /\ LogOK(n, log, Known(n), seen, remote, Fresh, day)
        /\ clone[n].current => log[1] = remote
    BY CloneFacts DEF Tip
  <1>2. LogOK(n, log, Knows(n), seen, remote, fresh, day)
    <2>1. Known(n) \subseteq Knows(n) /\ LogOK(n, log, Known(n), seen, remote, fresh, day)
      BY <1>1, KnowsMore
    <2> HIDE DEF fresh, log, day
    <2> QED BY <2>1, MovedOn
  <1>3. /\ LogOK(n, Append(log, t), Knows(n), seen, remote, fresh, day)
        /\ Len(Append(log, t)) = L + 1
        /\ Append(log, t)[L + 1] = t
        /\ \A i \in 1 .. L : Append(log, t)[i] = log[i]
    <2>1. Change(n, log[Len(log)], t, seen, remote, fresh, day)
      BY <1>1
    <2> HIDE DEF fresh, log, day
    <2>2. /\ LogOK(n, Append(log, t), Knows(n), seen, remote, fresh, day)
          /\ Len(Append(log, t)) = Len(log) + 1
          /\ Append(log, t)[Len(log) + 1] = t
          /\ \A i \in 1 .. Len(log) : Append(log, t)[i] = log[i]
      BY <1>2, <2>1, Committed
    <2> QED BY <2>2
  <1>4. /\ c.log = Append(log, t) /\ c.draft = 0 /\ c.current = clone[n].current
        /\ c \in Clones
    <2>1. Append(log, t) \in Seq(Trees)
      BY <1>1 DEF Clones
    <2> DEFINE new == Append(log, t)
    <2>2. c = [clone[n] EXCEPT !.log = new, !.draft = 0]
      BY DEF Commit
    <2>3. new \in Seq(Trees)
      BY <2>1
    <2>n. new = Append(log, t)
      OBVIOUS
    <2> HIDE DEF new, c, log
    <2>4. c.log = new /\ c.draft = 0 /\ c.current = clone[n].current /\ c \in Clones
      BY <1>1, <2>2, <2>3 DEF Clones
    <2> QED BY <2>4, <2>n
  <1>5. c.current => c.log[1] = remote
    <2>1. 1 \in 1 .. L
      BY <1>1
    <2> HIDE DEF c, L
    <2> QED BY <1>1, <1>3, <1>4, <2>1
  <1>6. c.log[L] = Tip(n) /\ Len(c.log) = L + 1 /\ c.log[L + 1] = t
    <2>1. L \in 1 .. L
      BY <1>1
    <2> HIDE DEF c, L
    <2> QED BY <1>1, <1>3, <1>4, <2>1
  <1>7. Ready(n, c)
    <2> HIDE DEF c
    <2> QED BY <1>3, <1>4, <1>5 DEF Ready
  <1> QED BY <1>1, <1>4, <1>6, <1>7

LEMMA Pulls ==
    ASSUME QueueInv, NEW n \in Nodes, Clockwise(n), NEW favor, NEW a,
           ~ PullClashes(n, favor),
           Replayable(n, clone[n].log, remote, favor, a, Fresh)
    PROVE  LET c == Rebased(n, favor)
           IN  /\ Ready(n, c) /\ c.draft = clone[n].draft
               /\ Len(c.log) = Len(clone[n].log) /\ c.log[1] = remote
               /\ \A r \in Requests :
                     Done(c.log[Len(c.log)], r) => Done(remote, r) \/ Done(Tip(n), r)
               /\ c.log \in {clone[n].log, Rebase(clone[n].log, remote, favor)}
               /\ clone[n].current => c.log = clone[n].log
  <1> DEFINE c == Rebased(n, favor)
             log == clone[n].log
             day == scenario.day
             fresh == Fresh
             new == IF clone[n].current THEN log ELSE Rebase(log, remote, favor)
  <1>1. /\ clone[n] \in Clones /\ Len(log) \in Nat /\ Len(log) >= 1 /\ Tip(n) = log[Len(log)]
        /\ LogOK(n, log, Known(n), seen, remote, fresh, day)
        /\ clone[n].current => log[1] = remote
        /\ seen \subseteq Known(n)
    BY CloneFacts DEF Tip
  <1>2. LogOK(n, log, Knows(n), seen, remote, fresh, day) /\ seen \subseteq Knows(n)
    <2>1. Known(n) \subseteq Knows(n)
      BY KnowsMore
    <2> HIDE DEF fresh, log, day
    <2> QED BY <1>1, <2>1, MovedOn
  <1>3. /\ LogOK(n, new, Knows(n), seen, remote, fresh, day)
        /\ Len(new) = Len(log) /\ new[1] = remote
        /\ \A r \in Requests : Done(new[Len(log)], r) => Done(remote, r) \/ Done(log[Len(log)], r)
    <2>1. CASE clone[n].current
      BY <1>1, <1>2, <2>1
    <2>2. CASE ~ clone[n].current
      <3> DEFINE nu == Rebase(log, remote, favor)
      <3>1. ~ Stops(log, remote, favor)
        BY <2>2 DEF PullClashes
      <3>2. remote \in Trees /\ Sound(remote, seen) /\ Within(remote, seen)
        BY DEF QueueInv, TypeOK, RemoteOK
      <3>3. Replayable(n, log, remote, favor, a, fresh)
        OBVIOUS
      <3> HIDE DEF fresh, log, day
      <3>4. /\ LogOK(n, nu, Knows(n), seen, remote, fresh, day)
            /\ Len(nu) = Len(log) /\ nu[1] = remote
            /\ \A i \in 1 .. Len(log) : Follows(nu[i], log[i], seen, remote)
        <4>1. RebaseOK(n, log, nu, Knows(n), seen, remote, fresh, day)
          BY <1>2, <3>1, <3>2, <3>3, RebasedLog
        <4> QED BY <4>1 DEF RebaseOK
      <3>5. Len(log) \in 1 .. Len(log)
        BY <1>1
      <3> HIDE DEF nu
      <3>6. \A r \in Requests : Done(nu[Len(log)], r) => Done(remote, r) \/ Done(log[Len(log)], r)
        BY <3>4, <3>5 DEF Follows
      <3>7. new = nu
        BY <2>2 DEF nu
      <3> QED BY <3>4, <3>6, <3>7
    <2> QED BY <2>1, <2>2
  <1>4. c.log = new /\ c.draft = clone[n].draft /\ c \in Clones
    <2>1. c = [clone[n] EXCEPT !.log = new, !.current = TRUE]
      BY DEF Rebased
    <2>2. new \in Seq(Trees)
      <3> HIDE DEF new
      <3> QED BY <1>3 DEF LogOK
    <2> HIDE DEF new, c
    <2> QED BY <1>1, <2>1, <2>2 DEF Clones
  <1>5. new \in {log, Rebase(log, remote, favor)} /\ (clone[n].current => new = log)
    OBVIOUS
  <1> HIDE DEF c, new
  <1>6. Ready(n, c)
    BY <1>3, <1>4 DEF Ready
  <1> QED BY <1>1, <1>3, <1>4, <1>5, <1>6 DEF c

LEMMA Tried ==
    ASSUME QueueInv, NEW n \in Nodes, NEW c, Ready(n, c), Clockwise(n),
           PushBestEffort(n, c)
    PROVE  Moved(n) /\ Tip(n)' = c.log[Len(c.log)] /\ failures' \in Nat
  <1>1. failures \in Nat
    BY DEF QueueInv, TypeOK
  <1>2. failures' \in Nat
    BY <1>1 DEF PushBestEffort, PushFails, Fails, Works
  <1>3. \/ Accepts(n, c)
        \/ Set(n, c) /\ UNCHANGED <<remote, seen>>
    BY DEF PushBestEffort, PushFails, Rejected
  <1>4. CASE Accepts(n, c)
    <2>1. Moved(n) /\ clone'[n].log = <<c.log[Len(c.log)]>>
      BY <1>4, Landed
    <2> QED BY <1>2, <2>1 DEF Tip
  <1>5. CASE Set(n, c) /\ UNCHANGED <<remote, seen>>
    <2>1. Moved(n) /\ clone'[n] = c
      BY <1>5, Kept
    <2> QED BY <1>2, <2>1 DEF Tip
  <1> QED BY <1>3, <1>4, <1>5

-----------------------------------------------------------------------------
(* What a step of one node leaves alone.                                   *)

LEMMA OthersJobs ==
    ASSUME QueueInv, NEW n \in Nodes, Clockwise(n), Moved(n),
           NEW a \in Analysts, a # n, pc'[a] = pc[a], job'[a] = job[a]
    PROVE  JobOK(a)'
  <1>1. a \in Nodes \ {n}
    BY DEF Nodes
  <1>2. clone'[a].log = clone[a].log /\ clone'[a].draft = clone[a].draft
    BY <1>1 DEF Moved
  <1>3. JobOK(a)
    BY DEF QueueInv
  <1>4. Tip(a)' = Tip(a) /\ now' = now
    BY <1>2 DEF Tip, Clockwise
  <1>5. ASSUME pc[a] \in {"running", "answering"}, now = 0
        PROVE  Holds(a, remote'.queue[job[a].req])
    <2>1. Holds(a, remote.queue[job[a].req]) /\ job[a].req \in Requests
      BY <1>3, <1>5 DEF JobOK
    <2>2. remote'.queue[job[a].req] = remote.queue[job[a].req]
      BY <1>5, <2>1 DEF Moved, Holds, At, Fresh
    <2> QED BY <2>1, <2>2
  <1>6. \A file : Holds(a, file) => Holds(a, file)'
    BY DEF Holds
  <1>7. \A r : Done(Tip(a), r) <=> Done(Tip(a)', r)
    BY <1>4
  <1> QED BY <1>2, <1>3, <1>4, <1>5, <1>6, <1>7 DEF JobOK, Holds

\* What is shown of every step.
Preserved ==
    /\ QueueInv'
    /\ \A r \in Requests : Done(remote, r) => Done(remote', r)

Rest ==
    /\ tries \in [Analysts -> Nat]
    /\ folded \in [DOMAIN folded -> Nat] /\ DOMAIN folded \subseteq Events
    /\ removed \subseteq Events
    /\ failures \in Nat /\ kills \in Nat
    /\ FoldedOk

Jobs == [req : Requests \cup {0}, file : Files]

LEMMA AnalystMoves ==
    ASSUME QueueInv, NEW a \in Analysts, Moved(a), Clockwise(a),
           pc' \in [Nodes -> Steps], \A m \in Nodes \ {a} : pc'[m] = pc[m],
           job' \in [Analysts -> Jobs], \A b \in Analysts \ {a} : job'[b] = job[b],
           Rest', JobOK(a)'
    PROVE  Preserved
  <1>1. a \in Nodes /\ OnPrem \in Nodes \ {a}
    BY QueueAssumption DEF Nodes
  <1>2. \A b \in Analysts : JobOK(b)'
    <2> TAKE b \in Analysts
    <2>1. CASE b = a
      BY <2>1
    <2>2. CASE b # a
      <3>1. b \in Nodes \ {a}
        BY <2>2 DEF Nodes
      <3> QED BY <1>1, <2>2, <3>1, OthersJobs
    <2> QED BY <2>1, <2>2
  <1>3. TickOK'
    <2>1. clone'[OnPrem].log = clone[OnPrem].log
      BY <1>1 DEF Moved
    <2>2. asked' = asked /\ pc'[OnPrem] = pc[OnPrem]
      BY <1>1, QueueAssumption DEF Clockwise
    <2>3. Tip(OnPrem)' = Tip(OnPrem)
      BY <2>1 DEF Tip
    <2> QED BY <2>2, <2>3 DEF QueueInv, TickOK, Done
  <1>4. TypeOK'
    <2>1. now' \in Nat /\ scenario' \in Scenarios /\ asked' \in Nat
      BY DEF QueueInv, TypeOK, Clockwise
    <2> QED BY <2>1 DEF TypeOK, Moved, Rest, Clones, Jobs
  <1>5. RemoteOK' /\ EveryRequestIsAccountedFor' /\ \A m \in Nodes : CloneOK(m)'
    BY DEF Moved
  <1> QED BY <1>2, <1>3, <1>4, <1>5 DEF QueueInv, Rest, Preserved, Moved

LEMMA TickMoves ==
    ASSUME QueueInv, Moved(OnPrem), Clockwise(OnPrem),
           pc' \in [Nodes -> Steps], \A m \in Nodes \ {OnPrem} : pc'[m] = pc[m],
           job' = job, Rest', TickOK'
    PROVE  Preserved
  <1>1. OnPrem \in Nodes /\ \A b \in Analysts : b \in Nodes \ {OnPrem}
    BY QueueAssumption DEF Nodes
  <1>2. \A b \in Analysts : JobOK(b)'
    <2> TAKE b \in Analysts
    <2>1. b # OnPrem /\ pc'[b] = pc[b] /\ job'[b] = job[b]
      BY <1>1
    <2> QED BY <1>1, <2>1, OthersJobs
  <1>4. TypeOK'
    <2>1. now' \in Nat /\ scenario' \in Scenarios /\ asked' \in Nat
      BY DEF QueueInv, TypeOK, Clockwise
    <2> QED BY <2>1 DEF TypeOK, Moved, Rest, Clones, QueueInv
  <1>5. RemoteOK' /\ EveryRequestIsAccountedFor' /\ \A m \in Nodes : CloneOK(m)'
    BY DEF Moved
  <1> QED BY <1>2, <1>4, <1>5 DEF QueueInv, Rest, Preserved, Moved

LEMMA Still ==
    ASSUME QueueInv, UNCHANGED <<asked, now, scenario>>, NEW n \in Nodes
    PROVE  Clockwise(n)
  <1>1. asked \in Nat
    BY DEF QueueInv, TypeOK
  <1> QED BY <1>1 DEF Clockwise

LEMMA Going ==
    ASSUME QueueInv, NEW n \in Nodes, NEW s \in Steps, Goto(n, s)
    PROVE  /\ pc' \in [Nodes -> Steps] /\ pc'[n] = s
           /\ \A m \in Nodes \ {n} : pc'[m] = pc[m]
  <1>1. pc \in [Nodes -> Steps]
    BY DEF QueueInv, TypeOK
  <1> QED BY <1>1 DEF Goto

LEMMA RestKept ==
    ASSUME QueueInv, UNCHANGED <<folded, removed>>,
           tries' \in [Analysts -> Nat], failures' \in Nat, kills' \in Nat
    PROVE  Rest'
  BY DEF QueueInv, TypeOK, Rest, FoldedOk

LEMMA AnalystEnds ==
    ASSUME QueueInv, NEW a \in Analysts, Moved(a), Ends(a),
           UNCHANGED <<asked, now, scenario, folded, removed>>,
           failures' \in Nat, kills' \in Nat
    PROVE  Preserved
  <1>1. a \in Nodes /\ Clockwise(a)
    BY Still DEF Nodes
  <1>2. /\ pc' \in [Nodes -> Steps] /\ pc'[a] = "off"
        /\ \A m \in Nodes \ {a} : pc'[m] = pc[m]
    BY <1>1, Going DEF Ends, Steps
  <1>3. NoJob \in Jobs
    BY RepositoryAssumption DEF NoJob, NoFile, Files, Jobs
  <1>4. job \in [Analysts -> Jobs] /\ tries \in [Analysts -> Nat]
    BY DEF QueueInv, TypeOK, Jobs
  <1>5. /\ job' \in [Analysts -> Jobs] /\ tries' \in [Analysts -> Nat]
        /\ \A b \in Analysts \ {a} : job'[b] = job[b]
    BY <1>3, <1>4 DEF Ends
  <1>6. JobOK(a)'
    BY <1>2 DEF JobOK
  <1>7. Rest'
    BY <1>5, RestKept
  <1> QED BY <1>1, <1>2, <1>5, <1>6, <1>7, AnalystMoves

LEMMA AnalystGoes ==
    ASSUME QueueInv, NEW a \in Analysts, Moved(a), NEW s \in Steps, Goto(a, s),
           UNCHANGED <<asked, now, scenario, folded, removed>>,
           failures' \in Nat, kills' \in Nat, tries' \in [Analysts -> Nat],
           NEW j \in Jobs, job' = [job EXCEPT ![a] = j],
           pc'[a] = s /\ job'[a] = j => JobOK(a)'
    PROVE  Preserved
  <1>1. a \in Nodes /\ Clockwise(a)
    BY Still DEF Nodes
  <1>2. /\ pc' \in [Nodes -> Steps] /\ pc'[a] = s
        /\ \A m \in Nodes \ {a} : pc'[m] = pc[m]
    BY <1>1, Going
  <1>3. job \in [Analysts -> Jobs]
    BY DEF QueueInv, TypeOK, Jobs
  <1>4. /\ job' \in [Analysts -> Jobs] /\ job'[a] = j
        /\ \A b \in Analysts \ {a} : job'[b] = job[b]
    BY <1>3
  <1>5. Rest'
    BY RestKept
  <1> QED BY <1>1, <1>2, <1>4, <1>5, AnalystMoves

\* The shape of most steps: the job stays in memory.
LEMMA AnalystGoesOn ==
    ASSUME QueueInv, NEW a \in Analysts, Moved(a), NEW s \in Steps, Goto(a, s),
           UNCHANGED <<asked, now, scenario, folded, removed, job>>,
           failures' \in Nat, kills' \in Nat, tries' \in [Analysts -> Nat],
           pc'[a] = s => JobOK(a)'
    PROVE  Preserved
  <1>1. job \in [Analysts -> Jobs]
    BY DEF QueueInv, TypeOK, Jobs
  <1>2. job[a] \in Jobs /\ job' = [job EXCEPT ![a] = job[a]]
    BY <1>1
  <1> QED BY <1>2, AnalystGoes

LEMMA Counters ==
    ASSUME QueueInv
    PROVE  /\ failures \in Nat /\ kills \in Nat /\ tries \in [Analysts -> Nat]
           /\ now \in Nat /\ asked \in Nat
           /\ Fails => failures' \in Nat
           /\ Works => failures' \in Nat
  <1>1. failures \in Nat /\ kills \in Nat /\ tries \in [Analysts -> Nat] /\ now \in Nat
        /\ asked \in Nat
    BY DEF QueueInv, TypeOK
  <1> QED BY <1>1 DEF Fails, Works

LEMMA PushFailed ==
    ASSUME QueueInv, NEW n \in Nodes, NEW c, Ready(n, c), Clockwise(n), PushFails(n, c)
    PROVE  Moved(n) /\ failures' \in Nat
  BY Counters, Landed, Kept DEF PushFails

\* What a draft adds to a commit is no analysis.
LEMMA Drafted ==
    ASSUME QueueInv, NEW a \in Analysts, pc[a] \in {"pulled", "selecting"},
           NEW t \in Trees, t.page = Tip(a).page
    PROVE  /\ WithDraft(a, t) \in Trees /\ WithDraft(a, t).queue = t.queue
           /\ \A r \in Requests : Done(WithDraft(a, t), r) <=> Done(Tip(a), r)
  <1> DEFINE d == clone[a].draft
  <1>1. d \in Requests \cup {0} /\ Tip(a) \in Trees
    BY CloneFacts DEF Nodes, Clones
  <1>2. CASE d = 0
    BY <1>2 DEF WithDraft, Done
  <1>3. CASE d # 0
    <2>1. d \in Requests /\ ~ Done(Tip(a), d)
      BY <1>1, <1>3 DEF QueueInv, JobOK
    <2>2. WithDraft(a, t) = [t EXCEPT !.page[d] = "draft"]
      BY <1>3 DEF WithDraft
    <2> DEFINE u == [t EXCEPT !.page[d] = "draft"]
               page == [t.page EXCEPT ![d] = "draft"]
    <2>3. page \in [Requests -> Pages] /\ page[d] = "draft"
          /\ \A r \in Requests : r # d => page[r] = t.page[r]
      BY <2>1, TreeFields DEF Pages
    <2>4. u = [t EXCEPT !.page = page]
      OBVIOUS
    <2> HIDE DEF u, page, d
    <2>5. u \in Trees /\ u.queue = t.queue /\ u.page = page
      BY <2>3, <2>4 DEF Trees
    <2>6. \A r \in Requests : Done(u, r) <=> Done(Tip(a), r)
      BY <2>1, <2>3, <2>5 DEF Done
    <2> QED BY <2>2, <2>5, <2>6 DEF u
  <1> QED BY <1>2, <1>3

LEMMA ClaimPullsKeeps ==
    ASSUME QueueInv, NEW a \in Analysts, ClaimPulls(a)
    PROVE  Preserved
  <1> USE DEF clock
  <1>1. a \in Nodes /\ Clockwise(a) /\ CanPull(a) /\ pc[a] = "off"
    BY Still DEF Nodes, ClaimPulls
  <1>2. CASE /\ ~ PullClashes(a, "none") /\ Set(a, Rebased(a, "none"))
             /\ Goto(a, "pulled") /\ Works
    <2> DEFINE c == Rebased(a, "none")
    <2>1. Replayable(a, clone[a].log, remote, "none", a, Fresh)
      BY DEF Replayable
    <2>2. /\ Ready(a, c) /\ c.draft = clone[a].draft
          /\ \A r \in Requests :
               Done(c.log[Len(c.log)], r) => Done(remote, r) \/ Done(Tip(a), r)
      BY <1>1, <1>2, <2>1, Pulls
    <2> HIDE DEF c
    <2>3. Moved(a) /\ clone'[a] = c
      BY <1>1, <1>2, <2>2, Kept DEF ClaimPulls, c
    <2>4. ASSUME pc'[a] = "pulled" PROVE JobOK(a)'
      <3>1. ASSUME clone'[a].draft # 0 PROVE ~ Done(Tip(a)', clone'[a].draft)
        <4>1. clone[a].draft # 0 /\ clone[a].draft \in Requests
          BY <1>1, <2>2, <2>3, <3>1, CloneFacts DEF Clones
        <4>2. ~ Done(remote, clone[a].draft) /\ ~ Done(Tip(a), clone[a].draft)
          BY <1>1, <4>1 DEF CanPull, Done
        <4>3. Tip(a)' = c.log[Len(c.log)]
          BY <2>3 DEF Tip
        <4> QED BY <2>2, <2>3, <4>1, <4>2, <4>3
      <3> QED BY <2>4, <3>1 DEF JobOK, Done
    <2> QED BY <1>2, <2>3, <2>4, Counters, AnalystGoesOn DEF ClaimPulls, Steps
  <1>3. CASE /\ Set(a, [clone[a] EXCEPT !.stopped = TRUE])
             /\ Works /\ UNCHANGED pc
    <2> DEFINE c == [clone[a] EXCEPT !.stopped = TRUE]
    <2>1. c \in Clones /\ c.log = clone[a].log /\ c.current = clone[a].current
      BY <1>1, CloneFacts DEF Clones
    <2> HIDE DEF c
    <2>2. Moved(a)
      BY <1>1, <1>3, <2>1, SameLog, Kept DEF ClaimPulls, c
    <2>3. pc \in [Nodes -> Steps]
      BY DEF QueueInv, TypeOK
    <2>4. Goto(a, "off")
      BY <1>1, <1>3, <2>3 DEF Goto
    <2>5. pc'[a] = "off" => JobOK(a)'
      BY DEF JobOK
    <2> QED BY <1>3, <2>2, <2>4, <2>5, Counters, AnalystGoesOn DEF ClaimPulls, Steps
  <1> QED BY <1>2, <1>3 DEF ClaimPulls

LEMMA ClaimPullFailsKeeps ==
    ASSUME QueueInv, NEW a \in Analysts, ClaimPullFails(a)
    PROVE  Preserved
  <1>1. a \in Nodes /\ Clockwise(a) /\ pc[a] = "off"
    BY Still DEF Nodes, ClaimPullFails, clock
  <1>2. Moved(a)
    BY <1>1, Unmoved DEF ClaimPullFails
  <1>3. pc \in [Nodes -> Steps]
    BY DEF QueueInv, TypeOK
  <1>4. Goto(a, "off")
    BY <1>1, <1>3 DEF Goto, ClaimPullFails
  <1>5. pc'[a] = "off" => JobOK(a)'
    BY DEF JobOK
  <1> QED BY <1>2, <1>4, <1>5, Counters, AnalystGoesOn DEF ClaimPullFails, clock, Steps

LEMMA ReclaimedFile ==
    ASSUME NEW f \in Files
    PROVE  /\ Reclaimed(f) \in Files /\ Reclaimed(f).at # "none"
           /\ Reclaimed(f).at \in {"pending", "failed"}
  <1>1. CASE f.attempts + 1 >= MAX_REQUEST_ATTEMPTS
    <2>1. Reclaimed(f) = [f EXCEPT !.at = "failed", !.attempts = f.attempts + 1]
      BY <1>1 DEF Reclaimed
    <2>2. Reclaimed(f) = [at |-> "failed", attempts |-> f.attempts + 1, by |-> f.by,
                          since |-> f.since]
      BY <2>1 DEF Files
    <2> QED BY <2>2 DEF Files, Directories
  <1>2. CASE ~ (f.attempts + 1 >= MAX_REQUEST_ATTEMPTS)
    <2>1. Reclaimed(f) = [at |-> "pending", attempts |-> f.attempts + 1, by |-> NoOne,
                          since |-> 0]
      BY <1>2 DEF Reclaimed
    <2> QED BY <2>1 DEF Files, Directories
  <1> QED BY <1>1, <1>2

LEMMA ReclaimStaleKeeps ==
    ASSUME QueueInv, NEW a \in Analysts, ReclaimStale(a)
    PROVE  Preserved
  <1> DEFINE queue == Tip(a).queue
             moved == {r \in Requests : Stale(queue[r])}
             new == [r \in Requests |->
                       IF r \in moved THEN Reclaimed(queue[r]) ELSE queue[r]]
             tree == [Tip(a) EXCEPT !.queue = new]
             u == WithDraft(a, tree)
             day == scenario.day
  <1>1. a \in Nodes /\ Clockwise(a) /\ pc[a] = "pulled" /\ a # OnPrem
    BY Still, QueueAssumption DEF Nodes, ReclaimStale, clock
  <1>2. Tip(a) \in Trees /\ Sound(Tip(a), seen) /\ Within(Tip(a), Known(a))
    BY <1>1, CloneFacts
  <1>3. IF moved = {} THEN UNCHANGED clone ELSE Set(a, Commit(a, u))
    BY DEF ReclaimStale
  <1>4. \A r \in Requests : queue[r] \in Files
    BY <1>2, TreeFields
  <1>5. new \in [Requests -> Files]
    BY <1>4, ReclaimedFile
  <1>6. \A r \in Requests : \/ new[r] = queue[r]
                            \/ r \in moved /\ queue[r].at = "claimed" /\ new[r].at # "none"
    BY <1>4, ReclaimedFile DEF Stale
  <1>7. now = 0 => moved = {}
    BY <1>4 DEF Stale, Files
  <1>8. tree \in Trees /\ tree.queue = new /\ tree.page = Tip(a).page
    <2> HIDE DEF new
    <2> QED BY <1>2, <1>5 DEF Trees
  <1>9. /\ u \in Trees /\ u.queue = new
        /\ \A r \in Requests : Done(u, r) <=> Done(Tip(a), r)
    <2> HIDE DEF tree
    <2>1. /\ WithDraft(a, tree) \in Trees /\ WithDraft(a, tree).queue = tree.queue
          /\ \A r \in Requests : Done(WithDraft(a, tree), r) <=> Done(Tip(a), r)
      BY <1>1, <1>8, Drafted
    <2> QED BY <1>8, <2>1
  <1> HIDE DEF u, tree, new
  <1>10. Moved(a) /\ (moved = {} => UNCHANGED clone) /\ (moved # {} => clone'[a].draft = 0)
    <2>1. CASE moved = {}
      BY <1>1, <1>3, <2>1, Unmoved DEF ReclaimStale
    <2>2. CASE moved # {}
      <3>1. Sound(u, seen)
        BY <1>2, <1>6, <1>9 DEF Sound, At
      <3>2. Within(u, Knows(a))
        BY <1>1, <1>2, <1>6, <1>9 DEF Within, At, Knows, Known
      <3>3. Change(a, Tip(a), u, seen, remote, Fresh, day)
        <4>1. ~ Fresh
          BY <1>7, <2>2 DEF Fresh
        <4> QED BY <1>1, <1>6, <1>9, <4>1 DEF Change, Accounted, At
      <3>4. Ready(a, Commit(a, u)) /\ Commit(a, u).draft = 0
        BY <1>1, <1>9, <3>1, <3>2, <3>3, Commits
      <3>5. Moved(a) /\ clone'[a] = Commit(a, u)
        BY <1>1, <1>3, <2>2, <3>4, Kept DEF ReclaimStale
      <3> QED BY <2>2, <3>4, <3>5
    <2> QED BY <2>1, <2>2
  <1>11. ASSUME pc'[a] = "selecting" PROVE JobOK(a)'
    <2>1. ASSUME clone'[a].draft # 0 PROVE ~ Done(Tip(a)', clone'[a].draft)
      <3>1. UNCHANGED clone
        BY <1>10, <2>1
      <3>2. Tip(a)' = Tip(a)
        BY <3>1 DEF Tip
      <3> QED BY <1>1, <2>1, <3>1, <3>2 DEF QueueInv, JobOK
    <2> QED BY <1>11, <2>1 DEF JobOK, Done
  <1> QED BY <1>10, <1>11, Counters, AnalystGoesOn DEF ReclaimStale, clock, Steps

LEMMA ClaimSelectsKeeps ==
    ASSUME QueueInv, NEW a \in Analysts, ClaimSelects(a)
    PROVE  Preserved
  <1>1. a \in Nodes /\ Clockwise(a) /\ pc[a] = "selecting" /\ a # OnPrem
    BY Still, QueueAssumption DEF Nodes, ClaimSelects, clock
  <1>2. Tip(a) \in Trees /\ Sound(Tip(a), seen) /\ Within(Tip(a), Known(a))
    BY <1>1, CloneFacts
  <1>3. PICK t \in Requests :
          /\ IsTarget(t, Tip(a))
          /\ LET file == [Tip(a).queue[t] EXCEPT !.at = "claimed", !.by = a, !.since = now]
                 queue == Without(Tip(a).queue, Superseded(t, Tip(a)))
             IN  /\ Set(a, Commit(a, WithDraft(a,
                        [Tip(a) EXCEPT !.queue = [queue EXCEPT ![t] = file]])))
                 /\ job' = [job EXCEPT ![a] = [req |-> t, file |-> file]]
    BY DEF ClaimSelects
  <1> DEFINE old == Tip(a).queue
             file == [old[t] EXCEPT !.at = "claimed", !.by = a, !.since = now]
             gone == Superseded(t, Tip(a))
             new == [Without(old, gone) EXCEPT ![t] = file]
             tree == [Tip(a) EXCEPT !.queue = new]
             u == WithDraft(a, tree)
             j == [req |-> t, file |-> file]
             day == scenario.day
  <1>4. Set(a, Commit(a, u)) /\ job' = [job EXCEPT ![a] = j]
    BY <1>3
  <1>5. \A r \in Requests : old[r] \in Files
    BY <1>2, TreeFields
  <1>6. file \in Files /\ file.at = "claimed" /\ file.by = a
    <2>1. now \in Nat /\ old[t] \in Files
      BY <1>5, Counters
    <2> QED BY <2>1 DEF Files, Directories
  <1>7. NoFile \in Files /\ NoFile.at = "none"
    BY DEF NoFile, Files
  <1>8. j \in Jobs /\ j.req = t /\ j.file = file
    BY <1>6 DEF Jobs
  <1>9. /\ old[t].at = "pending"
        /\ \A s \in Requests : old[s].at = "pending" /\ day[s] = day[t] => s <= t
        /\ \A r \in gone : r \in Requests /\ old[r].at = "pending" /\ day[r] = day[t] /\ r # t
    <2>1. DOMAIN old = Requests
      BY <1>2, TreeFields
    <2>2. /\ t \in Waiting(Tip(a))
          /\ \A s \in Waiting(Tip(a)) : day[t] < day[s] \/ (day[t] = day[s] /\ s <= t)
      BY <1>3 DEF IsTarget
    <2>3. \A s : s \in Waiting(Tip(a)) <=> s \in Requests /\ old[s].at = "pending"
      BY <2>1 DEF Waiting, In
    <2>4. scenario \in Scenarios
      BY DEF QueueInv, TypeOK
    <2>5. day \in [Requests -> Nat]
      BY <2>4, QueueAssumption
    <2>6. \A r \in gone : r \in Waiting(Tip(a)) /\ day[r] = day[t] /\ r # t
      BY DEF Superseded
    <2>7. \A s \in Requests : ~ (day[s] < day[s])
      BY <2>5
    <2> HIDE DEF old, day, gone
    <2>8. \A s \in Requests : old[s].at = "pending" /\ day[s] = day[t] => s <= t
      BY <2>2, <2>3, <2>7
    <2> QED BY <2>2, <2>3, <2>6, <2>8
  <1>10. /\ new \in [Requests -> Files] /\ new[t] = file
         /\ \A r \in Requests :
               r # t => new[r] = IF r \in gone THEN NoFile ELSE old[r]
    <2> HIDE DEF file, gone, old
    <2> QED BY <1>5, <1>6, <1>7 DEF Without
  <1> HIDE DEF new, file, gone, j
  <1>11. tree \in Trees /\ tree.queue = new /\ tree.page = Tip(a).page
    BY <1>2, <1>10 DEF Trees
  <1>12. /\ u \in Trees /\ u.queue = new
         /\ \A r \in Requests : Done(u, r) <=> Done(Tip(a), r)
    <2> HIDE DEF tree
    <2>1. /\ WithDraft(a, tree) \in Trees /\ WithDraft(a, tree).queue = tree.queue
          /\ \A r \in Requests : Done(WithDraft(a, tree), r) <=> Done(Tip(a), r)
      BY <1>1, <1>11, Drafted
    <2> QED BY <1>11, <2>1
  <1> HIDE DEF u, tree
  <1>13. \A r \in Requests : \/ At(u, r) = At(Tip(a), r) /\ u.queue[r] = old[r]
                             \/ r = t /\ At(u, r) = "claimed" /\ At(Tip(a), r) = "pending"
                             \/ r \in gone /\ At(u, r) = "none" /\ At(Tip(a), r) = "pending"
    BY <1>6, <1>7, <1>9, <1>10, <1>12 DEF At
  <1>14. Sound(u, seen)
    BY <1>2, <1>12, <1>13 DEF Sound
  <1>15. Within(u, Knows(a))
    BY <1>1, <1>2, <1>13 DEF Within, Knows, Known
  <1>16. Change(a, Tip(a), u, seen, remote, Fresh, day)
    <2>1. ASSUME NEW r \in Requests, At(Tip(a), r) # "none"
          PROVE  Accounted(u, seen, day, r)
      <3>1. CASE r \in gone
        <4>1. r # t /\ r <= t /\ day[t] = day[r] /\ At(u, t) # "none"
          BY <1>6, <1>9, <1>10, <1>12, <3>1 DEF At
        <4>2. r < t
          BY <4>1, RepositoryAssumption
        <4> QED BY <4>1, <4>2 DEF Accounted
      <3>2. CASE r \notin gone
        BY <1>13, <2>1, <3>2 DEF Accounted
      <3> QED BY <3>1, <3>2
    <2> HIDE DEF day
    <2> QED BY <1>1, <1>12, <1>13, <2>1 DEF Change
  <1>17. /\ Ready(a, Commit(a, u)) /\ Commit(a, u).draft = 0
         /\ Len(Commit(a, u).log) = Len(clone[a].log) + 1
         /\ Commit(a, u).log[Len(clone[a].log) + 1] = u
         /\ Len(clone[a].log) \in Nat /\ Len(clone[a].log) >= 1
    BY <1>1, <1>12, <1>14, <1>15, <1>16, Commits
  <1>18. Moved(a) /\ clone'[a] = Commit(a, u)
    BY <1>1, <1>4, <1>17, Kept DEF ClaimSelects
  <1>19. ASSUME pc'[a] = "claiming", job'[a] = j PROVE JobOK(a)'
    <2>1. Tip(a)' = u
      BY <1>17, <1>18 DEF Tip
    <2>2. Len(clone'[a].log) >= 2 /\ clone'[a].draft = 0
      BY <1>17, <1>18
    <2>3. Holds(a, Tip(a).queue[t])'
      BY <1>6, <1>8, <1>10, <1>12, <1>19, <2>1 DEF Holds
    <2> QED BY <1>8, <1>19, <2>2, <2>3 DEF JobOK
  <1> QED BY <1>4, <1>8, <1>18, <1>19, Counters, AnalystGoes DEF ClaimSelects, clock, Steps

LEMMA NothingToClaimKeeps ==
    ASSUME QueueInv, NEW a \in Analysts, NothingToClaim(a)
    PROVE  Preserved
  <1>1. a \in Nodes /\ Clockwise(a)
    BY Still DEF Nodes, NothingToClaim, clock
  <1>2. Moved(a)
    BY <1>1, Unmoved DEF NothingToClaim
  <1> QED BY <1>2, Counters, AnalystEnds DEF NothingToClaim, clock

LEMMA ClaimPushedKeeps ==
    ASSUME QueueInv, NEW a \in Analysts, ClaimPushed(a)
    PROVE  Preserved
  <1> DEFINE req == job[a].req
  <1>1. a \in Nodes /\ Clockwise(a) /\ pc[a] = "claiming"
    BY Still DEF Nodes, ClaimPushed, clock
  <1>2. /\ Moved(a) /\ clone'[a].log = <<Tip(a)>> /\ remote' = Tip(a)
    <2>1. Ready(a, clone[a])
      BY <1>1, CloneFacts, SameLog
    <2> QED BY <1>1, <2>1, Landed DEF ClaimPushed, Tip
  <1>3. Tip(a)' = Tip(a) /\ Len(clone'[a].log) = 1
    BY <1>2 DEF Tip
  <1>4. Holds(a, Tip(a).queue[req]) /\ req \in Requests
    BY <1>1 DEF QueueInv, JobOK
  <1>5. ASSUME pc'[a] = "running" PROVE JobOK(a)'
    <2>1. job' = job
      BY DEF ClaimPushed
    <2>2. Holds(a, Tip(a).queue[job[a].req])' /\ Holds(a, remote.queue[job[a].req])'
      BY <1>2, <1>3, <1>4, <2>1 DEF Holds
    <2> QED BY <1>3, <1>4, <1>5, <2>1, <2>2 DEF JobOK
  <1>6. tries' \in [Analysts -> Nat]
    BY Counters DEF ClaimPushed
  <1> QED BY <1>2, <1>5, <1>6, Counters, AnalystGoesOn DEF ClaimPushed, clock, Steps

LEMMA OneTree ==
    ASSUME NEW n, NEW t \in Trees, NEW A, NEW S, Sound(t, S), Within(t, S), S \subseteq A,
           NEW rem, NEW fresh, NEW day
    PROVE  LogOK(n, <<t>>, A, S, rem, fresh, day)
  <1> DEFINE one == <<t>>
  <1>1. one \in Seq(Trees) /\ Len(one) = 1 /\ one[1] = t
    OBVIOUS
  <1>2. Within(t, A)
    BY DEF Within
  <1> HIDE DEF one
  <1>3. LogOK(n, one, A, S, rem, fresh, day)
    BY <1>1, <1>2 DEF LogOK
  <1> QED BY <1>3 DEF one

LEMMA ClaimRejectedKeeps ==
    ASSUME QueueInv, NEW a \in Analysts, ClaimRejected(a)
    PROVE  Preserved
  <1> DEFINE c == [clone[a] EXCEPT !.log = <<remote>>, !.current = TRUE]
  <1>1. a \in Nodes /\ Clockwise(a) /\ pc[a] = "claiming" /\ Set(a, c)
    BY Still DEF Nodes, ClaimRejected, clock
  <1>2. remote \in Trees /\ Sound(remote, seen) /\ Within(remote, seen)
    BY DEF QueueInv, TypeOK, RemoteOK
  <1>3. /\ c \in Clones /\ c.log = <<remote>> /\ c.draft = clone[a].draft
    <2>1. clone[a] \in Clones /\ <<remote>> \in Seq(Trees)
      BY <1>1, <1>2, CloneFacts
    <2> DEFINE one == <<remote>>
    <2>2. one \in Seq(Trees)
      BY <2>1
    <2> HIDE DEF one
    <2>3. /\ [clone[a] EXCEPT !.log = one, !.current = TRUE] \in Clones
          /\ [clone[a] EXCEPT !.log = one, !.current = TRUE].log = one
          /\ [clone[a] EXCEPT !.log = one, !.current = TRUE].draft = clone[a].draft
      BY <2>1, <2>2 DEF Clones
    <2> QED BY <2>3 DEF one
  <1>4. Ready(a, c)
    <2>1. seen \subseteq Knows(a)
      BY <1>1, CloneFacts, KnowsMore
    <2> DEFINE fresh == Fresh
    <2>2. LogOK(a, <<remote>>, Knows(a), seen, remote, fresh, scenario.day)
      <3> HIDE DEF fresh
      <3> QED BY <1>2, <2>1, OneTree
    <2> HIDE DEF c
    <2> QED BY <1>3, <2>2 DEF Ready
  <1> HIDE DEF c
  <1>5. Moved(a) /\ clone'[a] = c
    BY <1>1, <1>4, Kept DEF ClaimRejected
  <1>6. CASE /\ Goto(a, "selecting")
             /\ tries' = [tries EXCEPT ![a] = @ + 1]
             /\ job' = [job EXCEPT ![a] = NoJob]
    <2>1. clone'[a].draft = 0
      BY <1>1, <1>3, <1>5 DEF QueueInv, JobOK
    <2>2. pc'[a] = "selecting" => JobOK(a)'
      BY <2>1 DEF JobOK
    <2>3. NoJob \in Jobs
      BY RepositoryAssumption DEF NoJob, NoFile, Files, Jobs
    <2>4. tries' \in [Analysts -> Nat]
      BY <1>6, Counters
    <2> QED BY <1>5, <1>6, <2>2, <2>3, <2>4, Counters, AnalystGoes
            DEF ClaimRejected, clock, Steps
  <1>7. CASE Ends(a)
    BY <1>5, <1>7, Counters, AnalystEnds DEF ClaimRejected, clock
  <1> QED BY <1>6, <1>7 DEF ClaimRejected

LEMMA ClaimPushFailsKeeps ==
    ASSUME QueueInv, NEW a \in Analysts, ClaimPushFails(a)
    PROVE  Preserved
  <1>1. a \in Nodes /\ Clockwise(a) /\ pc[a] = "claiming"
    BY Still DEF Nodes, ClaimPushFails, clock
  <1>2. CASE PushFails(a, clone[a])
    <2>1. Ready(a, clone[a])
      BY <1>1, CloneFacts, SameLog
    <2>2. Moved(a) /\ failures' \in Nat
      BY <1>1, <1>2, <2>1, PushFailed
    <2> QED BY <2>2, Counters, AnalystEnds DEF ClaimPushFails, clock
  <1>3. CASE /\ ~clone[a].current /\ Fails
             /\ Set(a, [clone[a] EXCEPT !.log = SubSeq(@, 1, Len(@) - 1)])
             /\ UNCHANGED <<remote, seen>>
    <2> DEFINE log == clone[a].log
               new == SubSeq(log, 1, Len(log) - 1)
               c == [clone[a] EXCEPT !.log = new]
               fresh == Fresh
    <2>1. /\ clone[a] \in Clones /\ LogOK(a, log, Known(a), seen, remote, fresh, scenario.day)
          /\ Len(log) >= 2
      BY <1>1, CloneFacts DEF QueueInv, JobOK
    <2>2. LogOK(a, log, Knows(a), seen, remote, fresh, scenario.day)
      <3>1. Known(a) \subseteq Knows(a)
        BY <1>1, KnowsMore
      <3> HIDE DEF fresh, log
      <3> QED BY <2>1, <3>1, MovedOn
    <2>3. LogOK(a, new, Knows(a), seen, remote, fresh, scenario.day)
      <3> HIDE DEF fresh, log, new
      <3>1. LogOK(a, SubSeq(log, 1, Len(log) - 1), Knows(a), seen, remote, fresh, scenario.day)
        BY <2>1, <2>2, Shortened
      <3> QED BY <3>1 DEF new
    <2>4. c \in Clones /\ c.log = new /\ c.current = clone[a].current
      <3>1. new \in Seq(Trees)
        <4> HIDE DEF new
        <4> QED BY <2>3 DEF LogOK
      <3> HIDE DEF new
      <3> QED BY <2>1, <3>1 DEF Clones
    <2>n. Set(a, c)
      BY <1>3
    <2> HIDE DEF c, new
    <2>5. Ready(a, c)
      BY <1>3, <2>3, <2>4 DEF Ready
    <2>6. Moved(a)
      BY <1>1, <1>3, <2>5, <2>n, Kept
    <2> QED BY <1>3, <2>6, Counters, AnalystEnds DEF ClaimPushFails, clock
  <1> QED BY <1>2, <1>3 DEF ClaimPushFails

\* The commit of an answer, whichever it is.
LEMMA AnswerCommitted ==
    ASSUME QueueInv, NEW a \in Analysts, pc[a] = "running", NEW t \in Trees,
           UNCHANGED <<remote, seen, job, tries, folded, removed, asked, now, scenario,
                       failures, kills>>,
           Set(a, Commit(a, t)), Goto(a, "answering"), AnswerTo(job[a].req, Tip(a), t),
           \/ Done(t, job[a].req) /\ At(t, job[a].req) = "none"
           \/ t.page = Tip(a).page /\ At(t, job[a].req) # "none",
           \A r \in Requests : r # job[a].req => t.page[r] = Tip(a).page[r]
    PROVE  Preserved
  <1> DEFINE req == job[a].req
             p == Tip(a)
  <1>1. a \in Nodes /\ Clockwise(a) /\ a # OnPrem
    BY Still, QueueAssumption DEF Nodes
  <1>2. /\ p \in Trees /\ Sound(p, seen) /\ Within(p, Known(a)) /\ Known(a) = seen
        /\ Knows(a) = seen
    BY <1>1, CloneFacts DEF Known, Knows
  <1>3. /\ Len(clone[a].log) = 1 /\ req \in Requests /\ Holds(a, p.queue[req])
        /\ now = 0 => Holds(a, remote.queue[req])
    BY DEF QueueInv, JobOK
  <1>4. At(p, req) = "claimed" /\ p.queue[req].by = a /\ req \in seen /\ ~ Done(p, req)
    BY <1>2, <1>3 DEF Holds, At, Within, Sound
  <1>5. \A r \in Requests : r # req => t.queue[r] = p.queue[r] /\ t.page[r] = p.page[r]
    BY DEF AnswerTo
  <1> HIDE DEF p, req
  <1>6. \/ Done(t, req) /\ At(t, req) = "none"
        \/ ~ Done(t, req) /\ At(t, req) # "none"
    BY <1>4 DEF Done, p, req
  <1>7. Sound(t, seen) /\ Within(t, Knows(a))
    BY <1>2, <1>4, <1>5, <1>6 DEF Sound, Within, Done, At
  <1>8. Change(a, p, t, seen, remote, Fresh, scenario.day)
    BY <1>1, <1>4, <1>5, <1>6 DEF Change, Accounted, Done, At
  <1>9. /\ Ready(a, Commit(a, t))
        /\ Len(Commit(a, t).log) = 2
        /\ Commit(a, t).log[2] = t /\ Commit(a, t).log[1] = p
    <2>1. LET c == Commit(a, t)
              L == Len(clone[a].log)
          IN  /\ Ready(a, c) /\ Len(c.log) = L + 1 /\ c.log[L + 1] = t /\ c.log[L] = Tip(a)
      BY <1>1, <1>7, <1>8, Commits DEF p
    <2> QED BY <1>3, <2>1 DEF p
  <1>10. Moved(a) /\ clone'[a] = Commit(a, t) /\ remote' = remote
    BY <1>1, <1>9, Kept
  <1>11. ASSUME pc'[a] = "answering" PROVE JobOK(a)'
    <2>1. Len(clone'[a].log) = 2 /\ clone'[a].log[1] = p /\ clone'[a].log[2] = t
      BY <1>9, <1>10
    <2>2. AnswerTo(req, clone'[a].log[1], clone'[a].log[2])
      BY <2>1 DEF p, req
    <2>3. job' = job /\ now' = now
      OBVIOUS
    <2>4. /\ Holds(a, clone'[a].log[1].queue[req])
          /\ now = 0 => Holds(a, remote'.queue[req])
      BY <1>3, <1>10, <2>1 DEF p
    <2> QED BY <1>3, <1>11, <2>1, <2>2, <2>3, <2>4 DEF JobOK, Holds, req
  <1> QED BY <1>10, <1>11, Counters, AnalystGoesOn DEF Steps

LEMMA EventTypes ==
    ASSUME QueueInv, NEW a \in Analysts, job[a].req \in Requests, NEW ok \in BOOLEAN
    PROVE  Event(a, ok) \in Events
  <1>1. job[a].file \in Files
    BY DEF QueueInv, TypeOK
  <1> QED BY <1>1 DEF Event, Events, Files

LEMMA CompleteKeeps ==
    ASSUME QueueInv, NEW a \in Analysts, Complete(a)
    PROVE  Preserved
  <1> DEFINE req == job[a].req
             p == Tip(a)
             page == [p.page EXCEPT ![req] = "analysis"]
             queue == [p.queue EXCEPT ![req] = NoFile]
             results == p.results \cup {Event(a, TRUE)}
             t == [p EXCEPT !.page = page, !.queue = queue, !.results = results]
  <1>1. pc[a] = "running" /\ req \in Requests
    BY DEF Complete, QueueInv, JobOK
  <1>2. p \in Trees
    BY CloneFacts DEF Nodes
  <1>3. /\ queue \in [Requests -> Files] /\ queue[req] = NoFile
        /\ \A r \in Requests : r # req => queue[r] = p.queue[r]
    BY <1>1, <1>2, TreeFields, RepositoryAssumption DEF NoFile, Files
  <1>4. /\ page \in [Requests -> Pages] /\ page[req] = "analysis"
        /\ \A r \in Requests : r # req => page[r] = p.page[r]
    BY <1>1, <1>2, TreeFields DEF Pages
  <1>5. results \in SUBSET Events
    BY <1>1, <1>2, TreeFields, EventTypes
  <1>6. t \in Trees /\ t.queue = queue /\ t.page = page
    <2> HIDE DEF page, queue, results, p
    <2> QED BY <1>2, <1>3, <1>4, <1>5 DEF Trees
  <1>7. Set(a, Commit(a, t))
    BY DEF Complete
  <1> HIDE DEF page, queue, results, t
  <1>8. AnswerTo(req, p, t)
    BY <1>3, <1>4, <1>6 DEF AnswerTo, Done
  <1>9. Done(t, req) /\ At(t, req) = "none"
    BY <1>3, <1>4, <1>6 DEF Done, At, NoFile
  <1>10. \A r \in Requests : r # req => t.page[r] = p.page[r]
    BY <1>4, <1>6
  <1> QED BY <1>1, <1>6, <1>7, <1>8, <1>9, <1>10, AnswerCommitted DEF Complete, clock

LEMMA FailRequestKeeps ==
    ASSUME QueueInv, NEW a \in Analysts, FailRequest(a)
    PROVE  Preserved
  <1> DEFINE req == job[a].req
             p == Tip(a)
             file == Reclaimed(job[a].file)
             queue == [p.queue EXCEPT ![req] = file]
             results == IF file.at = "failed" THEN p.results \cup {Event(a, FALSE)}
                        ELSE p.results
             t == [p EXCEPT !.queue = queue, !.results = results]
  <1>1. pc[a] = "running" /\ req \in Requests
    BY DEF FailRequest, QueueInv, JobOK
  <1>2. p \in Trees
    BY CloneFacts DEF Nodes
  <1>3. file \in Files /\ file.at # "none"
    <2>1. job[a].file \in Files
      BY DEF QueueInv, TypeOK
    <2> QED BY <2>1, ReclaimedFile
  <1>4. /\ queue \in [Requests -> Files] /\ queue[req] = file
        /\ \A r \in Requests : r # req => queue[r] = p.queue[r]
    <2> HIDE DEF file
    <2> QED BY <1>1, <1>2, <1>3, TreeFields
  <1>5. results \in SUBSET Events
    BY <1>1, <1>2, TreeFields, EventTypes
  <1>6. t \in Trees /\ t.queue = queue /\ t.page = p.page
    <2> HIDE DEF queue, results, p
    <2> QED BY <1>2, <1>4, <1>5 DEF Trees
  <1>7. Set(a, Commit(a, t))
    BY DEF FailRequest
  <1> HIDE DEF queue, results, t, file
  <1>8. AnswerTo(req, p, t)
    BY <1>4, <1>6 DEF AnswerTo
  <1>9. t.page = p.page /\ At(t, req) # "none"
    BY <1>3, <1>4, <1>6 DEF At
  <1>10. \A r \in Requests : r # req => t.page[r] = p.page[r]
    BY <1>6
  <1> QED BY <1>1, <1>6, <1>7, <1>8, <1>9, <1>10, AnswerCommitted DEF FailRequest, clock

LEMMA AnswerPushedKeeps ==
    ASSUME QueueInv, NEW a \in Analysts, AnswerPushed(a)
    PROVE  Preserved
  <1>1. a \in Nodes /\ Clockwise(a)
    BY Still DEF Nodes, AnswerPushed, clock
  <1>2. Ready(a, clone[a])
    BY <1>1, CloneFacts, SameLog
  <1>3. Moved(a)
    BY <1>1, <1>2, Landed DEF AnswerPushed
  <1> QED BY <1>3, Counters, AnalystEnds DEF AnswerPushed, clock

LEMMA AnswerRebasedKeeps ==
    ASSUME QueueInv, NEW a \in Analysts, AnswerRebased(a)
    PROVE  Preserved
  <1> DEFINE req == job[a].req
             log == clone[a].log
  <1>1. /\ a \in Nodes /\ Clockwise(a) /\ pc[a] = "answering" /\ a # OnPrem
        /\ ~ clone[a].current
    BY Still, QueueAssumption DEF Nodes, AnswerRebased, clock
  <1>2. CASE /\ ~PullClashes(a, "theirs")
             /\ Set(a, Rebased(a, "theirs"))
             /\ tries' = [tries EXCEPT ![a] = @ + 1]
             /\ UNCHANGED <<pc, job>>
    <2> DEFINE c == Rebased(a, "theirs")
               new == Rebase(log, remote, "theirs")
               fresh == Fresh
    <2>1. /\ Len(log) = 2 /\ req \in Requests /\ AnswerTo(req, log[1], log[2])
          /\ now = 0 => Holds(a, log[1].queue[req]) /\ Holds(a, remote.queue[req])
      BY <1>1 DEF QueueInv, JobOK
    <2>2. Replayable(a, log, remote, "theirs", req, Fresh)
      BY <1>1, <2>1 DEF Replayable, Fresh, Holds, At
    <2>3. /\ Ready(a, c) /\ c.draft = clone[a].draft /\ Len(c.log) = 2 /\ c.log[1] = remote
      BY <1>1, <1>2, <2>1, <2>2, Pulls
    <2>4. c.log = new
      BY <1>1, CloneFacts DEF Rebased, Clones
    <2>5. AnswerTo(req, remote, new[2])
      <3>1. /\ LogOK(a, log, Known(a), seen, remote, fresh, scenario.day)
        BY <1>1, CloneFacts
      <3>2. ~ Stops(log, remote, "theirs")
        BY <1>1, <1>2 DEF PullClashes
      <3>3. remote \in Trees
        BY DEF QueueInv, TypeOK
      <3> HIDE DEF fresh, log, req
      <3> QED BY <2>1, <3>1, <3>2, <3>3, RebasedAnswer
    <2> HIDE DEF c, new
    <2>6. Moved(a) /\ clone'[a] = c /\ remote' = remote
      BY <1>1, <1>2, <2>3, Kept DEF AnswerRebased, c
    <2>7. JobOK(a)'
      <3>1. /\ Len(clone'[a].log) = 2 /\ clone'[a].log[1] = remote
            /\ AnswerTo(req, clone'[a].log[1], clone'[a].log[2])
        BY <2>3, <2>4, <2>5, <2>6
      <3>2. /\ job' = job /\ now' = now /\ pc'[a] = "answering"
        BY <1>1, <1>2 DEF AnswerRebased, clock
      <3>3. now = 0 => Holds(a, clone'[a].log[1].queue[req]) /\ Holds(a, remote'.queue[req])
        BY <2>1, <2>6, <3>1
      <3> QED BY <2>1, <3>1, <3>2, <3>3 DEF JobOK, Holds
    <2>8. pc \in [Nodes -> Steps] /\ Goto(a, "answering")
      BY <1>1, <1>2 DEF QueueInv, TypeOK, Goto
    <2>9. tries' \in [Analysts -> Nat]
      BY <1>2, Counters
    <2> QED BY <1>2, <2>6, <2>7, <2>8, <2>9, Counters, AnalystGoesOn
            DEF AnswerRebased, clock, Steps
  <1>3. CASE /\ Set(a, [clone[a] EXCEPT !.stopped = TRUE])
             /\ Ends(a)
    <2> DEFINE c == [clone[a] EXCEPT !.stopped = TRUE]
    <2>1. c \in Clones /\ c.log = clone[a].log /\ c.current = clone[a].current
      BY <1>1, CloneFacts DEF Clones
    <2> HIDE DEF c
    <2>2. Moved(a)
      BY <1>1, <1>3, <2>1, SameLog, Kept DEF AnswerRebased, c
    <2> QED BY <1>3, <2>2, Counters, AnalystEnds DEF AnswerRebased, clock
  <1> QED BY <1>2, <1>3 DEF AnswerRebased

LEMMA AnswerNotPushedKeeps ==
    ASSUME QueueInv, NEW a \in Analysts, AnswerNotPushed(a)
    PROVE  Preserved
  <1>1. a \in Nodes /\ Clockwise(a)
    BY Still DEF Nodes, AnswerNotPushed, clock
  <1>2. Ready(a, clone[a])
    BY <1>1, CloneFacts, SameLog
  <1>3. CASE PushFails(a, clone[a])
    <2>1. Moved(a) /\ failures' \in Nat
      BY <1>1, <1>2, <1>3, PushFailed
    <2> QED BY <2>1, Counters, AnalystEnds DEF AnswerNotPushed, clock
  <1>4. CASE Rejected(a, clone[a]) /\ Works
    <2>1. Moved(a)
      BY <1>1, <1>2, <1>4, Kept DEF Rejected
    <2> QED BY <1>4, <2>1, Counters, AnalystEnds DEF AnswerNotPushed, clock
  <1> QED BY <1>3, <1>4 DEF AnswerNotPushed

LEMMA AnalystKilledKeeps ==
    ASSUME QueueInv, NEW a \in Analysts, AnalystKilled(a)
    PROVE  Preserved
  <1>1. a \in Nodes /\ Clockwise(a)
    BY Still DEF Nodes, AnalystKilled, clock
  <1>2. PICK draft \in {0, job[a].req} :
          Set(a, [clone[a] EXCEPT !.draft = IF draft = 0 THEN @ ELSE draft])
    BY DEF AnalystKilled
  <1> DEFINE c == [clone[a] EXCEPT !.draft = IF draft = 0 THEN @ ELSE draft]
  <1>3. c \in Clones /\ c.log = clone[a].log /\ c.current = clone[a].current
    <2>1. clone[a] \in Clones
      BY <1>1, CloneFacts
    <2>2. job[a].req \in Requests \cup {0}
      BY DEF QueueInv, TypeOK
    <2> DEFINE d == IF draft = 0 THEN clone[a].draft ELSE draft
    <2>3. d \in Requests \cup {0}
      BY <2>1, <2>2 DEF Clones
    <2>4. c = [clone[a] EXCEPT !.draft = d]
      OBVIOUS
    <2> HIDE DEF c, d
    <2> QED BY <2>1, <2>3, <2>4 DEF Clones
  <1> HIDE DEF c
  <1>4. Moved(a)
    BY <1>1, <1>2, <1>3, SameLog, Kept DEF AnalystKilled, c
  <1>5. kills' \in Nat /\ failures' \in Nat
    BY Counters DEF AnalystKilled
  <1> QED BY <1>4, <1>5, AnalystEnds DEF AnalystKilled, clock

-----------------------------------------------------------------------------
(* The tick.                                                               *)

LEMMA TickGoes ==
    ASSUME QueueInv, Moved(OnPrem), Clockwise(OnPrem), NEW s \in Steps, Goto(OnPrem, s),
           job' = job, Rest', s # "placeholder" \/ TickOK'
    PROVE  Preserved
  <1>1. OnPrem \in Nodes
    BY DEF Nodes
  <1>2. /\ pc' \in [Nodes -> Steps] /\ pc'[OnPrem] = s
        /\ \A m \in Nodes \ {OnPrem} : pc'[m] = pc[m]
    BY <1>1, Going
  <1>3. TickOK'
    BY <1>2 DEF TickOK
  <1> QED BY <1>2, <1>3, TickMoves

LEMMA TickPullsKeeps ==
    ASSUME QueueInv, TickPulls
    PROVE  Preserved
  <1>1. OnPrem \in Nodes /\ Clockwise(OnPrem)
    BY Still DEF Nodes, TickPulls, clock
  <1>2. Moved(OnPrem)
    <2>1. CASE ~PullClashes(OnPrem, "ours") /\ Set(OnPrem, Rebased(OnPrem, "ours"))
      <3>1. Replayable(OnPrem, clone[OnPrem].log, remote, "ours", 0, Fresh)
        BY DEF Replayable
      <3>2. Ready(OnPrem, Rebased(OnPrem, "ours"))
        BY <1>1, <2>1, <3>1, Pulls
      <3> QED BY <1>1, <2>1, <3>2, Kept DEF TickPulls
    <2>2. CASE UNCHANGED clone
      BY <1>1, <2>2, Unmoved DEF TickPulls
    <2> QED BY <2>1, <2>2 DEF TickPulls
  <1>3. failures' \in Nat
    BY Counters DEF TickPulls
  <1>4. Rest'
    BY <1>3, Counters, RestKept DEF TickPulls
  <1> QED BY <1>1, <1>2, <1>4, TickGoes DEF TickPulls, Steps

\* What the run log does not know yet joins it once.
LEMMA FoldOnce ==
    ASSUME QueueInv, NEW new \in SUBSET Events, \A e \in new : e \notin BagToSet(folded),
           folded' = folded (+) SetToBag(new)
    PROVE  /\ folded' \in [DOMAIN folded' -> Nat] /\ DOMAIN folded' \subseteq Events
           /\ FoldedOk'
  <1>1. /\ folded \in [DOMAIN folded -> Nat] /\ DOMAIN folded \subseteq Events
        /\ \A e \in DOMAIN folded : folded[e] = 1
    BY DEF QueueInv, TypeOK, FoldedOk
  <1>2. /\ DOMAIN SetToBag(new) = new /\ \A e \in new : SetToBag(new)[e] = 1
    BY DEF SetToBag
  <1>3. folded' = [e \in (DOMAIN folded) \cup new |->
                     (IF e \in DOMAIN folded THEN folded[e] ELSE 0)
                       + (IF e \in new THEN SetToBag(new)[e] ELSE 0)]
    BY <1>2 DEF (+)
  <1>4. \A e \in new : e \notin DOMAIN folded
    BY DEF BagToSet
  <1>5. DOMAIN folded' = (DOMAIN folded) \cup new
    BY <1>3
  <1>6. \A e \in DOMAIN folded' : folded'[e] = 1
    BY <1>1, <1>2, <1>3, <1>4, <1>5
  <1>7. folded' = [e \in DOMAIN folded' |-> folded'[e]]
    BY <1>3
  <1>8. folded' \in [DOMAIN folded' -> Nat]
    BY <1>6, <1>7
  <1> QED BY <1>1, <1>5, <1>6, <1>8 DEF FoldedOk

LEMMA TipResults ==
    ASSUME QueueInv
    PROVE  Tip(OnPrem).results \in SUBSET Events
  BY CloneFacts, TreeFields DEF Nodes

LEMMA FoldAppendsKeeps ==
    ASSUME QueueInv, FoldAppends
    PROVE  Preserved
  <1> DEFINE files == Tip(OnPrem).results \ removed
             new == {e \in files : e \notin BagToSet(folded)}
  <1>1. OnPrem \in Nodes /\ Clockwise(OnPrem)
    BY Still DEF Nodes, FoldAppends, clock
  <1>2. Moved(OnPrem)
    BY <1>1, Unmoved DEF FoldAppends
  <1>3. failures' \in Nat
    BY Counters DEF FoldAppends
  <1>4. files \in SUBSET Events
    BY TipResults
  <1>5. CASE Goto(OnPrem, "report") /\ UNCHANGED <<folded, removed>>
    <2>1. Rest'
      BY <1>3, <1>5, Counters, RestKept DEF FoldAppends
    <2> QED BY <1>1, <1>2, <1>5, <2>1, TickGoes DEF FoldAppends, Steps
  <1>6. CASE /\ Goto(OnPrem, "folding") /\ removed' = removed \cup files
             /\ \/ folded' = folded (+) SetToBag(new)
                \/ \E e \in new : folded' = folded (+) SetToBag(new \ {e})
    <2>1. PICK x \in SUBSET new : folded' = folded (+) SetToBag(x)
      BY <1>6
    <2>2. x \in SUBSET Events /\ \A e \in x : e \notin BagToSet(folded)
      BY <1>4
    <2>3. /\ folded' \in [DOMAIN folded' -> Nat] /\ DOMAIN folded' \subseteq Events
          /\ FoldedOk'
      BY <2>1, <2>2, FoldOnce
    <2>4. removed' \subseteq Events
      BY <1>4, <1>6 DEF QueueInv, TypeOK
    <2>5. tries' \in [Analysts -> Nat] /\ kills' \in Nat
      BY Counters DEF FoldAppends
    <2>6. Rest'
      BY <1>3, <2>3, <2>4, <2>5 DEF Rest
    <2> QED BY <1>1, <1>2, <1>6, <2>6, TickGoes DEF FoldAppends, Steps
  <1> QED BY <1>5, <1>6 DEF FoldAppends

\* A commit of the tick, pushed best effort.
LEMMA TickCommits ==
    ASSUME QueueInv, Clockwise(OnPrem), NEW t \in Trees,
           Sound(t, seen), Within(t, Knows(OnPrem)),
           Change(OnPrem, Tip(OnPrem), t, seen, remote, Fresh, scenario.day),
           PushBestEffort(OnPrem, Commit(OnPrem, t))
    PROVE  Moved(OnPrem) /\ Tip(OnPrem)' = t /\ failures' \in Nat
  <1> DEFINE c == Commit(OnPrem, t)
             L == Len(clone[OnPrem].log)
  <1>1. OnPrem \in Nodes
    BY DEF Nodes
  <1>2. Ready(OnPrem, c) /\ Len(c.log) = L + 1 /\ c.log[L + 1] = t
    BY <1>1, Commits
  <1> HIDE DEF c
  <1>3. Moved(OnPrem) /\ Tip(OnPrem)' = c.log[Len(c.log)] /\ failures' \in Nat
    BY <1>1, <1>2, Tried DEF c
  <1> QED BY <1>2, <1>3

LEMMA FoldCommitsKeeps ==
    ASSUME QueueInv, FoldCommits
    PROVE  Preserved
  <1> DEFINE p == Tip(OnPrem)
             results == p.results \ removed
             t == [p EXCEPT !.results = results]
  <1>1. OnPrem \in Nodes /\ Clockwise(OnPrem)
    BY Still DEF Nodes, FoldCommits, clock
  <1>2. Moved(OnPrem) /\ failures' \in Nat
    <2>1. CASE PushBestEffort(OnPrem, Commit(OnPrem, t))
      <3>1. p \in Trees /\ Sound(p, seen) /\ Within(p, Known(OnPrem))
        BY <1>1, CloneFacts
      <3>2. results \in SUBSET Events
        BY TipResults
      <3>3. t \in Trees /\ t.queue = p.queue /\ t.page = p.page
        <4> HIDE DEF results, p
        <4> QED BY <3>1, <3>2 DEF Trees
      <3> HIDE DEF t
      <3>4. Sound(t, seen) /\ Within(t, Knows(OnPrem))
        BY <1>1, <3>1, <3>3, KnowsMore DEF Sound, Within, At, Done
      <3>5. Change(OnPrem, p, t, seen, remote, Fresh, scenario.day)
        BY <3>3 DEF Change, Accounted, At, Done
      <3> QED BY <1>1, <2>1, <3>3, <3>4, <3>5, TickCommits
    <2>2. CASE Fails /\ UNCHANGED <<remote, seen, clone>>
      BY <1>1, <2>2, Counters, Unmoved
    <2> QED BY <2>1, <2>2 DEF FoldCommits
  <1>3. Rest'
    <2>1. QueueInv => folded' \in [DOMAIN folded' -> Nat] /\ DOMAIN folded' \subseteq Events
                      /\ FoldedOk'
      BY DEF QueueInv, TypeOK, FoldedOk, FoldCommits
    <2> QED BY <1>2, <2>1, Counters DEF Rest, FoldCommits
  <1> QED BY <1>1, <1>2, <1>3, TickGoes DEF FoldCommits, Steps

LEMMA EnqueueKeeps ==
    ASSUME QueueInv, Enqueue
    PROVE  Preserved
  <1> DEFINE new == asked + 1
             p == Tip(OnPrem)
             file == [NoFile EXCEPT !.at = "pending"]
             older == {s \in Waiting(p) : scenario.day[s] = scenario.day[new]}
             queue == [Without(p.queue, older) EXCEPT ![new] = file]
             t == [p EXCEPT !.queue = queue]
             day == scenario.day
  <1>1. asked \in Nat /\ asked' = new /\ new \in Requests
    <2>1. scenario \in Scenarios /\ asked \in Nat
      BY DEF QueueInv, TypeOK
    <2> QED BY <2>1, QueueAssumption DEF Enqueue
  <1>2. OnPrem \in Nodes /\ Clockwise(OnPrem)
    BY <1>1 DEF Nodes, Clockwise, Enqueue, clock
  <1>3. p \in Trees /\ Sound(p, seen) /\ Within(p, Known(OnPrem)) /\ seen \subseteq Known(OnPrem)
    BY <1>2, CloneFacts
  <1>4. Known(OnPrem) = {r \in Requests : r <= asked}
    BY DEF Known
  <1>5. new \notin seen /\ At(p, new) = "none" /\ ~ Done(p, new)
    <2>1. ~ (new <= asked)
      BY <1>1
    <2> HIDE DEF new
    <2> QED BY <1>1, <1>3, <1>4, <2>1 DEF Within, Sound
  <1>6. file \in Files /\ file.at = "pending" /\ NoFile \in Files /\ NoFile.at = "none"
    BY DEF NoFile, Files, Directories
  <1>7. \A r \in older : r \in Requests /\ At(p, r) = "pending" /\ day[r] = day[new] /\ r < new
    <2>1. DOMAIN p.queue = Requests
      BY <1>3, TreeFields
    <2>2. ASSUME NEW r \in older
          PROVE  r \in Requests /\ At(p, r) = "pending" /\ day[r] = day[new]
      <3> HIDE DEF p, new
      <3> QED BY <2>1 DEF Waiting, In, At
    <2>3. \A r \in older : r <= asked
      BY <1>3, <1>4, <2>2 DEF Within
    <2>4. ASSUME NEW r \in older PROVE r < new
      <3>1. r \in Requests /\ r <= asked
        BY <2>2, <2>3
      <3>2. r \in Nat /\ asked \in Nat
        BY <1>1, <3>1, RepositoryAssumption
      <3> HIDE DEF older
      <3> QED BY <3>1, <3>2
    <2> QED BY <2>2, <2>4
  <1>8. \A r \in Requests : p.queue[r] \in Files
    BY <1>3, TreeFields
  <1>9. /\ queue \in [Requests -> Files] /\ queue[new] = file
        /\ \A r \in Requests : r # new => queue[r] = IF r \in older THEN NoFile ELSE p.queue[r]
    <2> HIDE DEF file, older, p, new
    <2> QED BY <1>1, <1>6, <1>8 DEF Without
  <1>10. t \in Trees /\ t.queue = queue /\ t.page = p.page
    <2> HIDE DEF queue, p
    <2> QED BY <1>3, <1>9 DEF Trees
  <1>11. PushBestEffort(OnPrem, Commit(OnPrem, t))
    BY <1>1 DEF Enqueue
  <1> HIDE DEF t, queue, file, older, p, new
  <1>12. \A r \in Requests :
            \/ r = new /\ At(t, r) = "pending"
            \/ r # new /\ r \in older /\ At(t, r) = "none"
            \/ r # new /\ r \notin older /\ t.queue[r] = p.queue[r] /\ At(t, r) = At(p, r)
    BY <1>6, <1>9, <1>10 DEF At
  <1>13. \A r \in Requests : Done(t, r) <=> Done(p, r)
    BY <1>10 DEF Done
  <1>14. Sound(t, seen)
    BY <1>3, <1>5, <1>12, <1>13 DEF Sound
  <1>15. Within(t, Knows(OnPrem))
    <2>1. Known(OnPrem) \subseteq Knows(OnPrem)
      BY <1>2, KnowsMore
    <2>2. new \in Knows(OnPrem)
      BY <1>1 DEF Knows, new
    <2> QED BY <1>3, <1>12, <2>1, <2>2 DEF Within
  <1>16. Change(OnPrem, p, t, seen, remote, Fresh, day)
    <2>1. ASSUME NEW r \in Requests, At(p, r) # "none" PROVE Accounted(t, seen, day, r)
      <3>1. CASE r \in older
        BY <1>1, <1>7, <1>12, <3>1 DEF Accounted
      <3>2. CASE r \notin older
        BY <1>12, <2>1, <3>2 DEF Accounted
      <3> QED BY <3>1, <3>2
    <2>2. \A r \in older : At(p, r) = "pending"
      BY <1>7
    <2> HIDE DEF day
    <2> QED BY <1>5, <1>12, <1>13, <2>1, <2>2 DEF Change
  <1>17. Moved(OnPrem) /\ Tip(OnPrem)' = t /\ failures' \in Nat
    BY <1>2, <1>10, <1>11, <1>14, <1>15, <1>16, TickCommits DEF p
  <1>18. TickOK'
    BY <1>1, <1>5, <1>13, <1>17 DEF TickOK, Done
  <1>19. Rest'
    BY <1>17, Counters, RestKept DEF Enqueue
  <1> QED BY <1>2, <1>17, <1>18, <1>19, TickGoes DEF Enqueue, Steps

LEMMA PlaceholderWrittenKeeps ==
    ASSUME QueueInv, PlaceholderWritten
    PROVE  Preserved
  <1> DEFINE p == Tip(OnPrem)
             page == [p.page EXCEPT ![asked] = "placeholder"]
             t == [p EXCEPT !.page = page]
  <1>1. OnPrem \in Nodes /\ Clockwise(OnPrem)
    BY Still DEF Nodes, PlaceholderWritten, clock
  <1>2. asked \in Requests /\ ~ Done(p, asked)
    BY DEF QueueInv, TickOK, PlaceholderWritten
  <1>3. p \in Trees /\ Sound(p, seen) /\ Within(p, Known(OnPrem))
    BY <1>1, CloneFacts
  <1>4. /\ page \in [Requests -> Pages] /\ page[asked] = "placeholder"
        /\ \A r \in Requests : r # asked => page[r] = p.page[r]
    <2> HIDE DEF p
    <2> QED BY <1>2, <1>3, TreeFields DEF Pages
  <1>5. t \in Trees /\ t.queue = p.queue /\ t.page = page
    <2> HIDE DEF page, p
    <2> QED BY <1>3, <1>4 DEF Trees
  <1>6. PushBestEffort(OnPrem, Commit(OnPrem, t))
    BY DEF PlaceholderWritten
  <1> HIDE DEF t, page, p
  <1>7. \A r \in Requests : Done(t, r) <=> Done(p, r)
    BY <1>2, <1>4, <1>5 DEF Done
  <1>8. Sound(t, seen) /\ Within(t, Knows(OnPrem))
    BY <1>1, <1>3, <1>5, <1>7, KnowsMore DEF Sound, Within, At
  <1>9. Change(OnPrem, p, t, seen, remote, Fresh, scenario.day)
    BY <1>5, <1>7 DEF Change, Accounted, At
  <1>10. Moved(OnPrem) /\ failures' \in Nat
    BY <1>1, <1>5, <1>6, <1>8, <1>9, TickCommits DEF p
  <1>11. Rest'
    BY <1>10, Counters, RestKept DEF PlaceholderWritten
  <1> QED BY <1>1, <1>10, <1>11, TickGoes DEF PlaceholderWritten, Steps

LEMMA TickEndsKeeps ==
    ASSUME QueueInv, TickEnds
    PROVE  Preserved
  <1>1. OnPrem \in Nodes /\ Clockwise(OnPrem)
    BY Still DEF Nodes, TickEnds, clock
  <1>2. Moved(OnPrem)
    BY <1>1, Unmoved DEF TickEnds
  <1>3. Rest'
    BY Counters, RestKept DEF TickEnds
  <1> QED BY <1>1, <1>2, <1>3, TickGoes DEF TickEnds, Steps

LEMMA TickKilledKeeps ==
    ASSUME QueueInv, TickKilled
    PROVE  Preserved
  <1>1. OnPrem \in Nodes /\ Clockwise(OnPrem)
    BY Still DEF Nodes, TickKilled, clock
  <1>2. Moved(OnPrem)
    BY <1>1, Unmoved DEF TickKilled
  <1>3. kills' \in Nat /\ failures' \in Nat /\ tries' \in [Analysts -> Nat]
    BY Counters DEF TickKilled
  <1>4. CASE UNCHANGED <<folded, removed>>
    <2>1. Rest'
      BY <1>3, <1>4, RestKept
    <2> QED BY <1>1, <1>2, <2>1, TickGoes DEF TickKilled, Steps
  <1>5. CASE FoldHalfDone
    <2> DEFINE files == Tip(OnPrem).results \ removed
    <2>0. PICK done \in SUBSET files :
            \E last \in {{}} \cup {{e} : e \in files \ done} :
              /\ removed' = removed \cup done
              /\ folded' = folded (+) SetToBag((done \cup last) \ BagToSet(folded))
      BY <1>5 DEF FoldHalfDone
    <2>1. PICK last \in {{}} \cup {{e} : e \in files \ done} :
            /\ removed' = removed \cup done
            /\ folded' = folded (+) SetToBag((done \cup last) \ BagToSet(folded))
      BY <2>0
    <2>2. files \in SUBSET Events
      BY TipResults
    <2> DEFINE x == (done \cup last) \ BagToSet(folded)
    <2>3. x \in SUBSET Events /\ \A e \in x : e \notin BagToSet(folded)
      BY <2>2
    <2>n. folded' = folded (+) SetToBag(x)
      BY <2>1
    <2> HIDE DEF x
    <2>4. /\ folded' \in [DOMAIN folded' -> Nat] /\ DOMAIN folded' \subseteq Events
          /\ FoldedOk'
      BY <2>3, <2>n, FoldOnce
    <2>5. removed' \subseteq Events
      BY <2>1, <2>2 DEF QueueInv, TypeOK
    <2>6. Rest'
      BY <1>3, <2>4, <2>5 DEF Rest
    <2> QED BY <1>1, <1>2, <2>6, TickGoes DEF TickKilled, Steps
  <1> QED BY <1>4, <1>5 DEF TickKilled

LEMMA ElapsesKeeps ==
    ASSUME QueueInv, Elapses
    PROVE  Preserved
  <1>1. now \in Nat /\ now' = now + 1
    BY Counters DEF Elapses
  <1>2. UNCHANGED <<remote, seen, clone, pc, asked, job, tries, folded, removed,
                    failures, kills, scenario>>
    BY DEF Elapses
  <1>3. now' # 0 /\ now' \in Nat /\ ~ Fresh'
    BY <1>1 DEF Fresh
  <1>4. TypeOK' /\ FoldedOk' /\ EveryRequestIsAccountedFor'
    BY <1>2, <1>3 DEF QueueInv, TypeOK, FoldedOk, EveryRequestIsAccountedFor
  <1>5. RemoteOK'
    BY <1>2 DEF QueueInv, RemoteOK, Known
  <1>6. ASSUME NEW n \in Nodes PROVE CloneOK(n)'
    <2> DEFINE fresh == Fresh
               fresh2 == Fresh'
    <2>1. /\ LogOK(n, clone[n].log, Known(n), seen, remote, fresh, scenario.day)
          /\ clone[n].current => clone[n].log[1] = remote
      BY CloneFacts
    <2>2. fresh2 => fresh
      BY <1>3
    <2> HIDE DEF fresh, fresh2
    <2>3. LogOK(n, clone[n].log, Known(n), seen, remote, fresh2, scenario.day)
      BY <2>1, <2>2, MovedOn
    <2>4. Known(n)' = Known(n)
      BY <1>2 DEF Known
    <2>5. LogOK(n, clone'[n].log, Known(n)', seen', remote', Fresh', scenario'.day)
      BY <1>2, <2>3, <2>4 DEF fresh2
    <2> QED BY <1>2, <2>1, <2>5 DEF CloneOK
  <1>7. ASSUME NEW a \in Analysts PROVE JobOK(a)'
    <2>1. JobOK(a)
      BY DEF QueueInv
    <2>2. Tip(a)' = Tip(a)
      BY <1>2 DEF Tip
    <2> QED BY <1>2, <1>3, <2>1, <2>2 DEF JobOK, Holds, Done
  <1>8. TickOK'
    <2>1. Tip(OnPrem)' = Tip(OnPrem)
      BY <1>2 DEF Tip
    <2> QED BY <1>2, <2>1 DEF QueueInv, TickOK, Done
  <1> QED BY <1>2, <1>4, <1>5, <1>6, <1>7, <1>8 DEF QueueInv, Preserved

-----------------------------------------------------------------------------
(* The theorems.                                                           *)

LEMMA Starts == Init => QueueInv
  <1> SUFFICES ASSUME Init PROVE QueueInv
    OBVIOUS
  <1>1. NoFile \in Files /\ NoFile.at = "none"
    BY DEF NoFile, Files
  <1>2. EmptyTree \in Trees
        /\ \A r \in Requests : At(EmptyTree, r) = "none" /\ ~ Done(EmptyTree, r)
    <2> DEFINE queue == [r \in Requests |-> NoFile]
               page == [r \in Requests |-> "none"]
    <2>1. queue \in [Requests -> Files] /\ \A r \in Requests : queue[r].at = "none"
      BY <1>1
    <2>2. page \in [Requests -> Pages] /\ \A r \in Requests : page[r] = "none"
      BY DEF Pages
    <2>3. EmptyTree = [queue |-> queue, results |-> {}, page |-> page]
      BY DEF EmptyTree
    <2> HIDE DEF queue, page
    <2> QED BY <2>1, <2>2, <2>3 DEF Trees, At, Done
  <1>3. scenario \in Scenarios /\ failures \in Nat /\ kills \in Nat
    BY QueueAssumption DEF Init
  <1>4. \A n \in Nodes : clone[n] = [log |-> <<EmptyTree>>, current |-> TRUE,
                                     stopped |-> FALSE, draft |-> 0]
    BY DEF Init
  <1>5. TypeOK
    <2>1. <<EmptyTree>> \in Seq(Trees)
      BY <1>2
    <2> DEFINE c == [log |-> <<EmptyTree>>, current |-> TRUE, stopped |-> FALSE, draft |-> 0]
               C == [log : Seq(Trees), current : BOOLEAN, stopped : BOOLEAN,
                     draft : Requests \cup {0}]
    <2>2. c \in C
      <3> DEFINE one == <<EmptyTree>>
      <3>1. one \in Seq(Trees)
        BY <2>1
      <3> HIDE DEF one
      <3>2. [log |-> one, current |-> TRUE, stopped |-> FALSE, draft |-> 0] \in C
        BY <3>1
      <3> QED BY <3>2 DEF one
    <2>3. clone = [n \in Nodes |-> c]
      BY DEF Init
    <2> HIDE DEF c, C
    <2>4. clone \in [Nodes -> C]
      BY <2>2, <2>3
    <2>5. folded \in [DOMAIN folded -> Nat] /\ DOMAIN folded \subseteq Events
      BY DEF Init, EmptyBag, SetToBag
    <2>6. job \in [Analysts -> [req : Requests \cup {0}, file : Files]]
      <3>1. NoJob \in [req : Requests \cup {0}, file : Files]
        BY <1>1 DEF NoJob
      <3> QED BY <3>1 DEF Init
    <2>7. pc \in [Nodes -> Steps] /\ tries \in [Analysts -> Nat]
      BY DEF Init, Steps
    <2> QED BY <1>2, <1>3, <2>4, <2>5, <2>6, <2>7 DEF TypeOK, Init, C
  <1>6. RemoteOK
    BY <1>2 DEF RemoteOK, Init, Sound, Within
  <1>7. EveryRequestIsAccountedFor
    BY DEF EveryRequestIsAccountedFor, Init
  <1>8. FoldedOk
    BY DEF FoldedOk, Init, EmptyBag, SetToBag
  <1>9. ASSUME NEW n \in Nodes PROVE CloneOK(n)
    <2>1. Sound(remote, seen) /\ Within(remote, seen) /\ seen \subseteq Known(n)
          /\ remote = EmptyTree /\ remote \in Trees
      BY <1>2, <1>6 DEF RemoteOK, Init
    <2> DEFINE fresh == Fresh
               day == scenario.day
    <2>2. LogOK(n, <<remote>>, Known(n), seen, remote, fresh, day)
      <3> HIDE DEF fresh, day
      <3> QED BY <2>1, OneTree
    <2>3. clone[n].log = <<remote>>
      BY <1>4, <2>1
    <2> QED BY <2>2, <2>3 DEF CloneOK
  <1>10. \A n \in Nodes : pc[n] = "off"
    BY DEF Init
  <1>11. \A a \in Analysts : JobOK(a)
    BY <1>10 DEF JobOK, Nodes
  <1>12. TickOK
    BY <1>10 DEF TickOK, Nodes
  <1> QED BY <1>5, <1>6, <1>7, <1>8, <1>9, <1>11, <1>12 DEF QueueInv

LEMMA EveryStep == QueueInv /\ Next => Preserved
  <1> SUFFICES ASSUME QueueInv, Next PROVE Preserved
    OBVIOUS
  <1>1. ASSUME NEW a \in scenario.team, Claim(a) \/ Answer(a) \/ AnalystKilled(a)
        PROVE  Preserved
    <2>1. scenario \in Scenarios
      BY DEF QueueInv, TypeOK
    <2>2. a \in Analysts
      BY <2>1, QueueAssumption
    <2>3. CASE Claim(a)
      BY <2>2, <2>3, ClaimPullsKeeps, ClaimPullFailsKeeps, ReclaimStaleKeeps,
         ClaimSelectsKeeps, NothingToClaimKeeps, ClaimPushedKeeps, ClaimRejectedKeeps,
         ClaimPushFailsKeeps DEF Claim
    <2>4. CASE Answer(a)
      BY <2>2, <2>4, CompleteKeeps, FailRequestKeeps, AnswerPushedKeeps,
         AnswerRebasedKeeps, AnswerNotPushedKeeps DEF Answer
    <2>5. CASE AnalystKilled(a)
      BY <2>2, <2>5, AnalystKilledKeeps
    <2> QED BY <1>1, <2>3, <2>4, <2>5
  <1>2. CASE Tick
    BY <1>2, TickPullsKeeps, FoldAppendsKeeps, FoldCommitsKeeps, EnqueueKeeps,
       PlaceholderWrittenKeeps, TickEndsKeeps DEF Tick
  <1>3. CASE TickKilled
    BY <1>3, TickKilledKeeps
  <1>4. CASE Elapses
    BY <1>4, ElapsesKeeps
  <1> QED BY <1>1, <1>2, <1>3, <1>4 DEF Next

LEMMA Stutters == QueueInv /\ UNCHANGED vars => QueueInv'
  <1> SUFFICES ASSUME QueueInv, UNCHANGED vars PROVE QueueInv'
    OBVIOUS
  <1>1. UNCHANGED <<remote, seen, clone, pc, asked, job, tries, folded, removed, now,
                    failures, kills, scenario>>
    BY DEF vars
  <1>2. /\ TypeOK' /\ FoldedOk' /\ EveryRequestIsAccountedFor'
    BY <1>1 DEF QueueInv, TypeOK, FoldedOk, EveryRequestIsAccountedFor
  <1>3. RemoteOK'
    BY <1>1 DEF QueueInv, RemoteOK, Known
  <1>4. ASSUME NEW n \in Nodes PROVE CloneOK(n)'
    <2>1. CloneOK(n)
      BY DEF QueueInv
    <2>2. Known(n)' = Known(n) /\ (Fresh' <=> Fresh)
      BY <1>1 DEF Known, Fresh
    <2> DEFINE fresh == Fresh
               fresh2 == Fresh'
    <2>3. LogOK(n, clone[n].log, Known(n), seen, remote, fresh, scenario.day)
      BY <2>1 DEF CloneOK
    <2>4. fresh2 => fresh
      BY <2>2
    <2> HIDE DEF fresh, fresh2
    <2>5. LogOK(n, clone[n].log, Known(n), seen, remote, fresh2, scenario.day)
      BY <2>3, <2>4, MovedOn
    <2>6. LogOK(n, clone'[n].log, Known(n)', seen', remote', Fresh', scenario'.day)
      BY <1>1, <2>2, <2>5 DEF fresh2
    <2> QED BY <1>1, <2>1, <2>6 DEF CloneOK
  <1>5. ASSUME NEW a \in Analysts PROVE JobOK(a)'
    <2>1. JobOK(a) /\ Tip(a)' = Tip(a)
      BY <1>1 DEF QueueInv, Tip
    <2> QED BY <1>1, <2>1 DEF JobOK, Holds, Done
  <1>6. TickOK'
    <2>1. Tip(OnPrem)' = Tip(OnPrem)
      BY <1>1 DEF Tip
    <2> QED BY <1>1, <2>1 DEF QueueInv, TickOK, Done
  <1> QED BY <1>2, <1>3, <1>4, <1>5, <1>6 DEF QueueInv

\* The clones, the commands and the remote always fit each other: see
\* QueueInv.
THEOREM QueueHolds == Spec => []QueueInv
  <1>1. QueueInv /\ [Next]_vars => QueueInv'
    BY EveryStep, Stutters DEF Preserved
  <1> QED BY <1>1, Starts, PTL DEF Spec

\* Whatever Git merges, the queue and the report pages stay readable: every
\* file holds what queue.py and the report writers put there (TypeOK).
THEOREM TypeCorrect == Spec => []TypeOK
  <1>1. QueueInv => TypeOK
    BY DEF QueueInv
  <1> QED BY <1>1, QueueHolds, PTL

\* Git is the lock (ADR-0001): while no claim can have gone stale, the remote
\* shows the request an analyst works on as its own claim, whatever the other
\* nodes push and however often they rebase.
THEOREM ClaimsStand == Spec => []FreshClaimStands
  <1>1. QueueInv => FreshClaimStands
    BY DEF QueueInv, JobOK, Holds, FreshClaimStands
  <1> QED BY <1>1, QueueHolds, PTL

\* No merge, reclaim, retry or kill loses a request that reached the remote:
\* it is in the queue, analysed, or a newer one of its day was asked for
\* (queue.complete, queue.supersede).
THEOREM NoRequestIsLost == Spec => []EveryRequestIsAccountedFor
  <1>1. QueueInv => EveryRequestIsAccountedFor
    BY DEF QueueInv
  <1> QED BY <1>1, QueueHolds, PTL

\* A request whose analysis is published never comes back to the queue.
THEOREM DoneStaysDone == Spec => []DoneIsNotAskedAgain
  <1>1. QueueInv => DoneIsNotAskedAgain
    BY DEF QueueInv, RemoteOK, Sound, Done, At, DoneIsNotAskedAgain
  <1> QED BY <1>1, QueueHolds, PTL

\* An event enters the run log at most once, although its file may be read by
\* several ticks, killed ones included (fold_results).
THEOREM EventsFoldOnce == Spec => []FoldedOnce
  <1>1. QueueInv => FoldedOnce
    BY DEF QueueInv, FoldedOk, FoldedOnce, BagToSet
  <1> QED BY <1>1, QueueHolds, PTL

\* Once published, an analysis is neither replaced by a placeholder nor by a
\* draft that a killed agent left (pull_before_fold's -X ours).
THEOREM AnalysesStand == Spec => AnalysisStands
  <1>1. ASSUME QueueInv, [Next]_vars
        PROVE  \A r \in Requests : remote.page[r] = "analysis" => remote'.page[r] = "analysis"
    <2>1. CASE Next
      BY <1>1, <2>1, EveryStep DEF Preserved, Done
    <2>2. CASE UNCHANGED vars
      BY <2>2 DEF vars
    <2> QED BY <1>1, <2>1, <2>2
  <1>2. QueueInv /\ [Next]_vars
          => [\A r \in Requests : remote.page[r] = "analysis" => remote'.page[r] = "analysis"]_vars
    BY <1>1
  <1> QED BY <1>2, QueueHolds, PTL DEF Spec, AnalysisStands
=============================================================================
