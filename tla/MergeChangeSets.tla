-------------------------- MODULE MergeChangeSets --------------------------
(***************************************************************************)
(* merge_change_sets (agent/merge.py) on its own: the change sets of a     *)
(* group of subagents, each the difference between its clone and the       *)
(* baseline they all started from, are read one after the other and then   *)
(* written into the workspace in path order.                               *)
(*                                                                         *)
(* The check that no target leaves the workspace (lines 168-178) cannot    *)
(* fail here: a path of a change set is relative to the root of a clone    *)
(* and the modelled workspaces hold no symbolic link.                      *)
(***************************************************************************)
EXTENDS FileTree, Sequences

CONSTANT Owner      \* the subagents of the group, in the order submitted

ASSUME OwnerAssumption == Owner \in Seq(Nat)

VARIABLES
    base,       \* the workspace when the group started
    updates,    \* what each subagent left in its clone
    tree,       \* the workspace
    pc,         \* "reading", "writing", "merged", "rejected" or "raised"
    unread,     \* change sets the conflict loop has still to read
    merged,     \* the dictionary merged
    pending     \* paths the write loop has still to write

vars == <<base, updates, tree, pc, unread, merged, pending>>

Owners == {Owner[i] : i \in DOMAIN Owner}

Changes(o) == ChangesSince(Capture(updates[o]), Capture(base))

TypeOK ==
    /\ base \in Tree
    /\ updates \in [Owners -> Tree]
    /\ tree \in Tree
    /\ pc \in {"reading", "writing", "merged", "rejected", "raised"}
    /\ unread \in Seq(Owners)
    /\ merged \in ChangeSet
    /\ pending \subseteq DOMAIN merged

Init ==
    /\ base \in Tree
    /\ updates \in [Owners -> Tree]
    /\ tree = base
    /\ pc = "reading"
    /\ unread = Owner
    /\ merged = NoChanges
    /\ pending = {}

(***************************************************************************)
(* The conflict loop, one change set per step.                             *)
(***************************************************************************)
ReadChangeSet ==
    /\ pc = "reading"
    /\ unread # << >>
    /\ ~Disagree(Changes(Head(unread)), merged)
    /\ merged' = Overlay(Changes(Head(unread)), merged)
    /\ unread' = Tail(unread)
    /\ UNCHANGED <<base, updates, tree, pc, pending>>

RejectConflict ==
    /\ pc = "reading"
    /\ unread # << >>
    /\ Disagree(Changes(Head(unread)), merged)
    /\ pc' = "rejected"
    /\ UNCHANGED <<base, updates, tree, unread, merged, pending>>

StartWriting ==
    /\ pc = "reading"
    /\ unread = << >>
    /\ pc' = "writing"
    /\ pending' = DOMAIN merged
    /\ UNCHANGED <<base, updates, tree, unread, merged>>

(***************************************************************************)
(* The write loop, one path per step.                                      *)
(***************************************************************************)
WritePath ==
    /\ pc = "writing"
    /\ pending # {}
    /\ LET p == FirstPath(pending) IN
           /\ CanWrite(tree, p)
           /\ tree' = WriteFile(tree, p, merged[p])
           /\ pending' = pending \ {p}
    /\ UNCHANGED <<base, updates, pc, unread, merged>>

(***************************************************************************)
(* An OSError of the write loop leaves merge_change_sets with the paths    *)
(* before it written.                                                      *)
(***************************************************************************)
WriteRaises ==
    /\ pc = "writing"
    /\ pending # {}
    /\ LET p == FirstPath(pending) IN
           tree' \in FailedWrites(tree, p, merged[p])
    /\ pc' = "raised"
    /\ UNCHANGED <<base, updates, unread, merged, pending>>

FinishMerge ==
    /\ pc = "writing"
    /\ pending = {}
    /\ pc' = "merged"
    /\ UNCHANGED <<base, updates, tree, unread, merged, pending>>

Terminated ==
    /\ pc \in {"merged", "rejected", "raised"}
    /\ UNCHANGED vars

Next ==
    \/ ReadChangeSet \/ RejectConflict \/ StartWriting
    \/ WritePath \/ WriteRaises \/ FinishMerge
    \/ Terminated

Spec == Init /\ [][Next]_vars

-----------------------------------------------------------------------------
(***************************************************************************)
(* The contents the owners who changed a path left there; what was there   *)
(* before if nobody changed it.                                            *)
(***************************************************************************)
WantedAt(p) ==
    LET owners == {o \in Owners :
                      Capture(updates[o])[p] # Capture(base)[p]}
    IN  IF owners = {}
        THEN {Capture(base)[p]}
        ELSE {Capture(updates[o])[p] : o \in owners}

(***************************************************************************)
(* No lost update and no invented one: after a merge, a file has the       *)
(* content its owners agreed on, or its old content if nobody changed it.  *)
(***************************************************************************)
MergeIsExact ==
    pc = "merged" =>
        \A p \in Path : WantedAt(p) = {Capture(tree)[p]}

(***************************************************************************)
(* The verdict is about pairs of owners, whatever order the change sets    *)
(* are read in: a merge is rejected exactly when two owners want different *)
(* contents at one path.                                                   *)
(***************************************************************************)
RejectsExactlyConflicts ==
    LET conflict == \E o, w \in Owners : \E p \in Path :
                        /\ Capture(updates[o])[p] # Capture(base)[p]
                        /\ Capture(updates[w])[p] # Capture(base)[p]
                        /\ Capture(updates[o])[p] # Capture(updates[w])[p]
    IN  /\ pc = "rejected" => conflict /\ tree = base
        /\ pc \in {"writing", "merged", "raised"} => ~conflict

(***************************************************************************)
(* A merge that raised stopped at one path some owner changed: the paths   *)
(* before it are as their owners want them and those after it as they      *)
(* were, so that no path but this one is left half-written.                *)
(***************************************************************************)
FailedMergeIsPrefix ==
    pc = "raised" =>
        \E p \in Path :
            /\ WantedAt(p) # {Capture(base)[p]}
            /\ \A q \in Path \ {p} :
                   IF Rank[q] < Rank[p]
                   THEN WantedAt(q) = {Capture(tree)[q]}
                   ELSE Capture(tree)[q] = Capture(base)[q]

(***************************************************************************)
(* "Merge compatible changes and reject conflicts before writing"          *)
(* (agent/merge.py:142): a merge that ends over a conflict, of contents or *)
(* of kinds, has written nothing.                                          *)
(***************************************************************************)
AllOrNothing ==
    \/ pc = "rejected"
    \/ pc = "raised" /\ ~CanWrite(tree, FirstPath(pending))
    => tree = base
=============================================================================
