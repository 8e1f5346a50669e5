------------------------------ MODULE GitFiles ------------------------------
(***************************************************************************)
(* What Git makes of two versions of a set of record files.  The queues of *)
(* ADR-0001 and ADR-0002 are directories of JSON files; a file moves from  *)
(* directory to directory while its content hardly changes, so Git follows *)
(* it, and a version is a function from files to records with a field `at`,*)
(* the directory the file lies in ("none": there is no such file).         *)
(*                                                                         *)
(* Merging is Git's (merge-ort, the backend of `git rebase`, with renames  *)
(* and directory renames detected as they are by default).  A three-way    *)
(* merge replays `theirs`, a local commit, onto `ours`, the upstream, with *)
(* `base`, the parent of the local commit.  `favor` is git's -X: "ours"    *)
(* keeps upstream, "theirs" the local commit, "none" stops at a conflict.  *)
(***************************************************************************)
EXTENDS Integers, Sequences

(* One value: a side that did not change gives way to the one that did.    *)
Pick(base, ours, theirs, favor) ==
    IF ours = base THEN theirs
    ELSE IF theirs = base \/ favor = "ours" THEN ours ELSE theirs

(* A file is where the side that moved it put it.                          *)
PickFile(base, ours, theirs, favor) ==
    [Pick(base, ours, theirs, favor) EXCEPT
        !.at = IF ours.at = base.at THEN theirs.at ELSE ours.at]

BothChanged(base, ours, theirs) ==
    ours # base /\ theirs # base /\ ours # theirs

(* No -X settles a file that one side deleted or moved elsewhere and the   *)
(* other moved or rewrote: rename/delete, modify/delete, rename/rename.    *)
FileClash(base, ours, theirs, favor) ==
    /\ BothChanged(base, ours, theirs)
    /\ \/ "none" \in {ours.at, theirs.at}
       \/ ours.at # base.at /\ theirs.at # base.at /\ ours.at # theirs.at
       \/ favor = "none"

In(files, dir) == {f \in DOMAIN files : files[f].at = dir}
DirectoriesOf(files) == {files[f].at : f \in DOMAIN files} \ {"none"}

(* One side moved the last file out of a directory and the other put a new *)
(* one into it: Git takes the directory for renamed and stops.  (It does   *)
(* not when each side emptied the directory the other's files went to.)    *)
FileLocation(base, one, other) ==
    \E dir \in DirectoriesOf(base) :
        /\ In(one, dir) = {}
        /\ \E f \in In(base, dir) :
              /\ one[f].at # "none"
              /\ In(base, one[f].at) = {} \/ In(other, one[f].at) # {}
        /\ In(other, dir) \ In(base, dir) # {}

FilesClash(base, ours, theirs, favor) ==
    \/ \E f \in DOMAIN base : FileClash(base[f], ours[f], theirs[f], favor)
    \/ FileLocation(base, ours, theirs)
    \/ FileLocation(base, theirs, ours)

(* A file both sides removed may have been taken, by its content, for one  *)
(* renamed to a file that a side added: then Git stops as well.            *)
FilesMayClash(base, ours, theirs) ==
    /\ \E f \in DOMAIN base : /\ base[f].at # "none"
                              /\ ours[f].at = "none"
                              /\ theirs[f].at = "none"
    /\ \E f \in DOMAIN base : \E side \in {ours, theirs} :
          side[f].at \notin {"none", base[f].at}

MergeFiles(base, ours, theirs, favor) ==
    [f \in DOMAIN base |-> PickFile(base[f], ours[f], theirs[f], favor)]

(* `git rebase`: the commits after log[1], which is where the clone last   *)
(* met the remote, are replayed one by one onto `upstream`.                *)
Replay(log, upstream, favor, Merge(_, _, _, _)) ==
    LET new[i \in DOMAIN log] ==
            IF i = 1 THEN upstream
            ELSE Merge(log[i - 1], new[i - 1], log[i], favor)
    IN  [i \in DOMAIN log |-> new[i]]
=============================================================================
