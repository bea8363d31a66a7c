------------------------------ MODULE DailyPush -------------------------------
(***************************************************************************)
(* scripts/daily_push.py: once a day, commit the first few pending files,  *)
(* one commit each, and push.  A developer edits the tree meanwhile.  Git  *)
(* is modelled from how the script calls it.                               *)
(*                                                                         *)
(* A file is known by its place in the order of git status, and its state  *)
(* by the status letters: " M" modified, " D" deleted, "??" untracked,     *)
(* "A " staged.                                                            *)
(***************************************************************************)
EXTENDS Integers, Sequences, SequencesExt

CONSTANTS Files,        \* paths, as numbers in alphabetical order
          Rank,         \* the script's sort key: PREFERRED_ORDER, then the path
          Count         \* --count

VARIABLES tree,         \* state of each file in the working tree
          unpushed,     \* there are commits that the remote does not have
          queue,        \* files_to_commit, while the script runs
          script,       \* what the script is doing
          report        \* the last line it printed, while the tree is as it was

vars == <<tree, unpushed, queue, script, report>>

Init ==
    /\ tree \in [Files -> {"absent", "clean"}]
    /\ unpushed = FALSE
    /\ queue = <<>>
    /\ script = "idle"
    /\ report = "none"

\* The developer writes, changes or deletes a file.
Edit(f, state) ==
    /\ \/ tree[f] = "absent" /\ state = "untracked"
       \/ tree[f] \in {"clean", "modified"} /\ state \in {"modified", "deleted"}
    /\ tree' = [tree EXCEPT ![f] = state]
    /\ report' = "none"
    /\ UNCHANGED <<unpushed, queue, script>>
-------------------------------------------------------------------------------
\* git status --porcelain: tracked files by path, then untracked ones.
Listed(S) == SetToSortSeq({f \in Files : tree[f] \in S}, <)
Porcelain == Listed({"modified", "deleted", "staged"}) \o Listed({"untracked"})

\* run_cmd strips the whole output, so the blank before the first line's letter
\* goes, and line[3:] is that path without its first character: no such file.
Parsed ==
    IF Porcelain # <<>> /\ tree[Head(Porcelain)] \in {"modified", "deleted"}
    THEN Tail(Porcelain) ELSE Porcelain

\* A path that is no file any more is passed over.
get_pending_files ==
    SetToSortSeq({f \in Range(Parsed) : tree[f] # "deleted"}, LAMBDA f, g : Rank[f] < Rank[g])

\* Nothing pending: the script says so and does nothing.
ScanEmpty ==
    /\ script = "idle" /\ get_pending_files = <<>>
    /\ report' = "clean"
    /\ UNCHANGED <<tree, unpushed, queue, script>>

\* The first files of the queue, or the one that --file names.
Scan ==
    LET pending == get_pending_files
    IN  /\ script = "idle" /\ pending # <<>>
        /\ \/ queue' = SubSeq(pending, 1, IF Len(pending) < Count THEN Len(pending) ELSE Count)
           \/ \E f \in Files : queue' = <<f>>
        /\ script' = "commit"
        /\ report' = "none"
        /\ UNCHANGED <<tree, unpushed>>

Gone(f) == tree[f] \in {"absent", "deleted"}

\* A file that has disappeared since the scan is passed over.
Skip ==
    /\ script = "commit" /\ queue # <<>> /\ Gone(Head(queue))
    /\ queue' = Tail(queue)
    /\ UNCHANGED <<tree, unpushed, script, report>>

\* git add, then git commit of all that is staged, if there is anything.
CommitNext ==
    /\ script = "commit" /\ queue # <<>> /\ ~ Gone(Head(queue))
    /\ LET index == {f \in Files : f = Head(queue) \/ tree[f] = "staged"}
       IN  /\ \E f \in index : tree[f] # "clean"
           /\ tree' = [f \in Files |-> IF f \in index THEN "clean" ELSE tree[f]]
    /\ unpushed' = TRUE
    /\ queue' = Tail(queue)
    /\ UNCHANGED <<script, report>>

Over(line) == queue' = <<>> /\ script' = "idle" /\ report' = line

\* git add or git commit fails, the latter with the file staged: no push today.
CommitFails ==
    /\ script = "commit" /\ queue # <<>> /\ ~ Gone(Head(queue))
    /\ tree' \in {tree, [tree EXCEPT ![Head(queue)] = IF @ = "clean" THEN @ ELSE "staged"]}
    /\ Over("error")
    /\ UNCHANGED unpushed

Push ==
    /\ script = "commit" /\ queue = <<>>
    /\ \/ unpushed' = FALSE /\ Over("pushed")
       \/ UNCHANGED unpushed /\ Over("push failed")
    /\ UNCHANGED tree

push_batch == ScanEmpty \/ Scan \/ Skip \/ CommitNext \/ CommitFails \/ Push

Next ==
    \/ \E f \in Files, state \in {"untracked", "modified", "deleted"} : Edit(f, state)
    \/ push_batch

Spec == Init /\ [][Next]_vars
-------------------------------------------------------------------------------
(* Properties *)

\* When the script says that no pending file is left and the working tree is
\* completely clean, every file is committed, and the remote has the commits.
CleanMeansClean ==
    report = "clean" => ~ unpushed /\ \A f \in Files : tree[f] \in {"absent", "clean"}
===============================================================================
