------------------------------ MODULE FileTree ------------------------------
(***************************************************************************)
(* Workspaces as agent/merge.py sees them: a tree gives every relative     *)
(* path a file content, Directory or Missing.  The harness' own caches     *)
(* (_IGNORED_NAMES) are outside Path: neither the snapshots nor the clones *)
(* ever hold them.  The workspaces modelled hold no symbolic link.         *)
(***************************************************************************)
EXTENDS Naturals, FiniteSets

CONSTANTS
    Path,       \* relative paths of a workspace
    Content,    \* file contents
    Missing,    \* nothing there; also the content None of a deletion
    Directory,
    Above,      \* the proper ancestor directories of each path
    Rank        \* the order in which sorted() lists the paths

ASSUME PathAssumption ==
    /\ IsFiniteSet(Path)
    /\ Missing \notin Content
    /\ Directory \notin Content
    /\ Missing # Directory
    /\ Above \in [Path -> SUBSET Path]
    /\ Rank \in [Path -> Nat]
    /\ \A p, q \in Path : Rank[p] = Rank[q] => p = q
    /\ \A p \in Path : \A q \in Above[p] :
           Rank[q] < Rank[p] /\ Above[q] \subseteq Above[p]

Tree ==
    {t \in [Path -> Content \cup {Missing, Directory}] :
        \A p \in Path : t[p] # Missing => \A q \in Above[p] : t[q] = Directory}

Files == [Path -> Content \cup {Missing}]

ChangeSet == UNION {[P -> Content \cup {Missing}] : P \in SUBSET Path}

NoChanges == [p \in {} |-> Missing]

-----------------------------------------------------------------------------
(***************************************************************************)
(* WorkspaceSnapshot.capture: the files of a tree.  Directories are not    *)
(* recorded, so an empty one is invisible to the merge.                    *)
(***************************************************************************)
Capture(tree) ==
    [p \in Path |-> IF tree[p] \in Content THEN tree[p] ELSE Missing]

(***************************************************************************)
(* WorkspaceSnapshot.changes_since: the paths whose content differs, with  *)
(* their content in the updated snapshot (Missing: deleted there).         *)
(***************************************************************************)
ChangesSince(updated, baseline) ==
    [p \in {q \in Path : updated[q] # baseline[q]} |-> updated[p]]

(***************************************************************************)
(* Two owners disagree when they want different contents at one path; a    *)
(* deletion against an update counts.  Mutated forms: only files both      *)
(* owners keep are compared; nothing is.                                   *)
(***************************************************************************)
DisagreeOnContents(c, d) ==
    \E p \in DOMAIN c \cap DOMAIN d :
        c[p] # d[p] /\ c[p] # Missing /\ d[p] # Missing

NeverDisagree(c, d) == FALSE

Disagree(c, d) == \E p \in DOMAIN c \cap DOMAIN d : c[p] # d[p]

Conflict(changeSets) == \E c, d \in changeSets : Disagree(c, d)

(***************************************************************************)
(* The dictionary merged after every change set has been read: a later     *)
(* change set overwrites an equal entry of an earlier one.                 *)
(***************************************************************************)
Overlay(c, merged) ==
    [p \in DOMAIN c \cup DOMAIN merged |->
        IF p \in DOMAIN c THEN c[p] ELSE merged[p]]

MergeOf(changeSets) ==
    [p \in UNION {DOMAIN c : c \in changeSets} |->
        (CHOOSE c \in changeSets : p \in DOMAIN c)[p]]

-----------------------------------------------------------------------------
(***************************************************************************)
(* One round of the write loop of merge_change_sets.  unlink(missing_ok)   *)
(* and write_bytes raise on a directory; an ancestor that is a file makes  *)
(* unlink raise NotADirectoryError and mkdir(parents, exist_ok) raise      *)
(* FileExistsError or NotADirectoryError, with nothing created.            *)
(***************************************************************************)
CanWrite(tree, p) ==
    /\ tree[p] # Directory
    /\ \A q \in Above[p] : tree[q] \notin Content

(***************************************************************************)
(* Mutated form: the deletions are skipped.                                *)
(***************************************************************************)
WriteSkippingDeletions(tree, p, content) ==
    IF content = Missing
    THEN tree
    ELSE [q \in Path |-> IF q = p THEN content
                         ELSE IF q \in Above[p] THEN Directory
                         ELSE tree[q]]

(***************************************************************************)
(* A deletion leaves the directories of the file behind, empty or not; a   *)
(* write creates the missing ones.                                         *)
(***************************************************************************)
WriteFile(tree, p, content) ==
    IF content = Missing
    THEN [tree EXCEPT ![p] = Missing]
    ELSE [q \in Path |-> IF q = p THEN content
                         ELSE IF q \in Above[p] THEN Directory
                         ELSE tree[q]]

(***************************************************************************)
(* A round that raises.  Over the kind of an entry nothing has happened;   *)
(* any other OSError (the disk full, a permission) may come after some of  *)
(* the directories were made, or with the file opened and a part of the    *)
(* content in it, for which any content may stand.                         *)
(***************************************************************************)
FailedWrites(tree, p, content) ==
    {tree} \cup
    {t \in Tree :
        /\ content # Missing
        /\ CanWrite(tree, p)
        /\ t[p] \in Content \cup {tree[p]}
        /\ \A q \in Above[p] : t[q] \in {tree[q], Directory}
        /\ \A q \in Path \ (Above[p] \cup {p}) : t[q] = tree[q]}

(***************************************************************************)
(* sorted(merged.items()): the path of the pending ones that comes first.  *)
(* Mutated form: the one that comes last.                                  *)
(***************************************************************************)
LastPath(pending) ==
    CHOOSE p \in pending : \A q \in pending : Rank[q] <= Rank[p]

FirstPath(pending) ==
    CHOOSE p \in pending : \A q \in pending : Rank[p] <= Rank[q]
=============================================================================
