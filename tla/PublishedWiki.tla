--------------------------- MODULE PublishedWiki ---------------------------
(***************************************************************************)
(* What a reader of the wiki repository may rely on, whatever happened in  *)
(* the checkout: the abstract specification that WikiTransaction           *)
(* implements.                                                             *)
(*                                                                         *)
(* A page is the set of marks that were written on it.  An operator's act  *)
(* appears on every page it names in one revision and never again, a       *)
(* stage's run appears in one revision, a hand commit adds only what hands *)
(* wrote, and nothing that was once published disappears.                  *)
(***************************************************************************)
CONSTANTS Pages,      \* the curated pages
          Operators,  \* acts published through the incident workbench or CLI
          Stages,     \* runs of an agent stage
          HandMarks,  \* edits made by hand in the checkout
          Touches     \* Touches[a]: the pages act a writes

VARIABLE tree         \* tree[p]: the marks on page p at HEAD

Published(w) == \E p \in Pages : w \in tree[p]

Init == tree = [p \in Pages |-> {}]

\* An act lands whole: on all of its pages, or on none.
PublishAct(a) ==
    /\ ~Published(a)
    /\ tree' = [p \in Pages |-> IF p \in Touches[a] THEN tree[p] \cup {a}
                                                   ELSE tree[p]]

\* tree' adds to tree only marks of M, and takes none away.
Grows(M) ==
    \E t \in [Pages -> SUBSET M] : tree' = [p \in Pages |-> tree[p] \cup t[p]]

\* A stage's commit may carry what hands left on the pages it publishes.
PublishRun(s) == ~Published(s) /\ Grows({s} \cup HandMarks)

HandPublish == Grows(HandMarks)

Next == \/ \E a \in Operators : PublishAct(a)
        \/ \E s \in Stages : PublishRun(s)
        \/ HandPublish

Spec == Init /\ [][Next]_tree
=============================================================================
