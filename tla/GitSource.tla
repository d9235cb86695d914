----------------------------- MODULE GitSource -----------------------------
(***************************************************************************)
(* The git source all clusters share: a clone that follows a remote branch *)
(* or, in local mode, somebody's own work tree.  A hard reset writes file  *)
(* after file, so one that fails leaves a mixture of two revisions.        *)
(***************************************************************************)
EXTENDS Composition

VARIABLES
    local,      \* git.path rather than git.url
    head,       \* the branch head: the remote's, or the local HEAD
    tree,       \* the work tree
    rev,        \* Source.rev
    lastOK,     \* when Source.lastOK was set: recent, or over 2 minutes ago
    fetched     \* result of the last Fetch

gitVars == <<local, head, tree, rev, lastOK, fetched>>

(* New: the worktree is at the head, or the agent does not start.          *)
GitInit ==
    /\ local \in BOOLEAN
    /\ head \in Revisions /\ tree = Repository[head] /\ rev = head
    /\ lastOK = "recent" /\ fetched = TRUE

Mixtures(v) == {[p \in Paths |-> IF p \in written THEN Repository[v][p] ELSE tree[p]] :
                  written \in SUBSET Paths} \ {Repository[v]}

(* The head has not moved: nothing to do, and no new lastOK.               *)
FetchNothing ==
    /\ head = rev /\ fetched' = TRUE
    /\ UNCHANGED <<local, head, tree, rev, lastOK>>

FetchMoves ==
    /\ head # rev /\ fetched' = TRUE
    /\ tree' = Repository[head] /\ rev' = head /\ lastOK' = "recent"
    /\ UNCHANGED <<local, head>>

(* The remote cannot be reached; local mode has none.                      *)
FetchFails ==
    /\ ~local /\ fetched' = FALSE
    /\ UNCHANGED <<local, head, tree, rev, lastOK>>

ResetFails ==
    /\ head # rev /\ fetched' = FALSE
    /\ tree' \in Mixtures(head)
    /\ UNCHANGED <<local, head, rev, lastOK>>

(* A commit is pushed; in local mode it is made in the tree itself, where  *)
(* what was edited and not committed stays.                                *)
Commit(v) ==
    /\ v # head /\ head' = v
    /\ tree' = IF ~local THEN tree
               ELSE [p \in Paths |-> IF tree[p] = Repository[head][p]
                                     THEN Repository[v][p] ELSE tree[p]]
    /\ UNCHANGED <<local, rev, lastOK, fetched>>

(* An edit that is not committed: in local mode the tree is the operator's. *)
Edit(p, v) ==
    /\ local /\ tree[p] # Repository[v][p]
    /\ tree' = [tree EXCEPT ![p] = Repository[v][p]]
    /\ UNCHANGED <<local, head, rev, lastOK, fetched>>

GitTypeOK ==
    /\ local \in BOOLEAN /\ head \in Revisions /\ rev \in Revisions
    /\ tree \in WorkTree /\ lastOK \in {"recent", "old"} /\ fetched \in BOOLEAN

=============================================================================
