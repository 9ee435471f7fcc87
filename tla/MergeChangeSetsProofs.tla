----------------------- MODULE MergeChangeSetsProofs -----------------------
(***************************************************************************)
(* For any number of subagents, in any order, and any paths and contents:  *)
(* a merge rejects exactly the groups in which two disagree, leaves what   *)
(* the owners of each file want, and when a write fails has done the paths *)
(* before it and none after it.                                            *)
(***************************************************************************)
EXTENDS MergeChangeSets, StrategyLemmas, SequenceTheorems

(***************************************************************************)
(* The change sets read so far, which merged holds.                        *)
(***************************************************************************)
ReadCount == Len(Owner) - Len(unread)

Seen == {Owner[i] : i \in 1..ReadCount}

ReadInv ==
    /\ Len(unread) <= Len(Owner)
    /\ \A i \in 1..Len(unread) : unread[i] = Owner[ReadCount + i]

Agrees(o) ==
    \A p \in DOMAIN Changes(o) :
        p \in DOMAIN merged /\ merged[p] = Changes(o)[p]

MergedInv ==
    /\ \A o \in Seen : Agrees(o)
    /\ \A p \in DOMAIN merged : \E o \in Seen : p \in DOMAIN Changes(o)

(***************************************************************************)
(* What the loops have done: the verdict, and the workspace on its way     *)
(* from base to the merged changes.  A pending path is as it was, because  *)
(* a write touches its own path and what is above it, which come first.    *)
(***************************************************************************)
PhaseInv ==
    /\ pc \in {"reading", "rejected"} => tree = base
    /\ pc = "rejected" =>
           unread # << >> /\ Disagree(Changes(Head(unread)), merged)
    /\ pc \in {"writing", "merged", "raised"} => unread = << >>
    /\ pc = "merged" => pending = {}

Merged(p) ==
    IF p \in DOMAIN merged \ pending THEN merged[p] ELSE Capture(base)[p]

TreeInv ==
    /\ pc \in {"writing", "merged"} =>
           /\ Capture(tree) = [p \in Path |-> Merged(p)]
           /\ \A p \in pending : tree[p] = base[p]
    /\ pc = "raised" =>
           /\ pending # {}
           /\ \A p \in Path \ {FirstPath(pending)} :
                  Capture(tree)[p] = Merged(p)
    /\ pc \in {"writing", "raised"} =>
           \A p \in DOMAIN merged \ pending : \A q \in pending :
               Rank[p] < Rank[q]

MergeInv == TypeOK /\ ReadInv /\ MergedInv /\ PhaseInv /\ TreeInv

-----------------------------------------------------------------------------
(***************************************************************************)
(* A change set has an entry for each path whose content the owner         *)
(* changed, and it is the content the owner left.                          *)
(***************************************************************************)
LEMMA ChangesType ==
    ASSUME TypeOK, NEW o \in Owners
    PROVE  /\ Changes(o) \in ChangeSet
           /\ DOMAIN Changes(o) =
                  {p \in Path : Capture(updates[o])[p] # Capture(base)[p]}
           /\ \A p \in DOMAIN Changes(o) :
                  Changes(o)[p] = Capture(updates[o])[p]
<1>1. Capture(updates[o]) \in Files /\ Capture(base) \in Files
  BY CaptureType DEF TypeOK
<1> QED
  BY <1>1, ChangesSinceType DEF Changes, ChangesSince

(***************************************************************************)
(* The next change set is that of the first owner who has not been read.   *)
(***************************************************************************)
LEMMA UnreadHead ==
    ASSUME TypeOK, ReadInv, unread # << >>
    PROVE  /\ Len(unread) \in Nat \ {0}
           /\ Len(Owner) \in Nat
           /\ ReadCount \in Nat /\ ReadCount + 1 \in 1..Len(Owner)
           /\ Head(unread) \in Owners
           /\ Head(unread) = Owner[ReadCount + 1]
           /\ Tail(unread) \in Seq(Owners)
           /\ Len(Tail(unread)) = Len(unread) - 1
           /\ \A i \in 1..Len(Tail(unread)) : Tail(unread)[i] = unread[i + 1]
<1>1. unread \in Seq(Owners)
  BY DEF TypeOK
<1>2. Len(unread) \in Nat \ {0} /\ Len(Owner) \in Nat
  BY <1>1, EmptySeq, LenProperties, OwnerAssumption
<1>3. /\ Head(unread) \in Owners /\ Head(unread) = unread[1]
      /\ Tail(unread) \in Seq(Owners)
      /\ Len(Tail(unread)) = Len(unread) - 1
      /\ \A i \in 1..Len(Tail(unread)) : Tail(unread)[i] = unread[i + 1]
  BY <1>1, HeadTailProperties
<1>4. ReadCount \in Nat /\ ReadCount + 1 \in 1..Len(Owner)
  BY <1>2 DEF ReadInv, ReadCount
<1>5. unread[1] = Owner[ReadCount + 1]
  BY <1>2 DEF ReadInv
<1> QED
  BY <1>2, <1>3, <1>4, <1>5

(***************************************************************************)
(* Once nothing is unread, all owners have been read.                      *)
(***************************************************************************)
LEMMA OwnersSeen ==
    /\ Len(Owner) \in Nat /\ DOMAIN Owner = 1..Len(Owner)
    /\ TypeOK /\ ReadInv => Seen \subseteq Owners
    /\ unread = << >> => Seen = Owners
<1>1. Len(Owner) \in Nat /\ DOMAIN Owner = 1..Len(Owner)
  BY LenProperties, OwnerAssumption
<1>2. ASSUME TypeOK, ReadInv PROVE Seen \subseteq Owners
  <2>1. Len(unread) \in Nat
    BY <1>2, LenProperties DEF TypeOK
  <2>2. 1..ReadCount \subseteq 1..Len(Owner)
    BY <1>1, <2>1 DEF ReadCount
  <2> QED
    BY <1>1, <2>2 DEF Seen, Owners
<1>3. ASSUME unread = << >> PROVE Seen = Owners
  <2>1. Len(unread) = 0
    BY <1>3
  <2>2. ReadCount = Len(Owner)
    BY <1>1, <2>1 DEF ReadCount
  <2> QED
    BY <1>1, <2>2 DEF Seen, Owners
<1> QED
  BY <1>1, <1>2, <1>3

-----------------------------------------------------------------------------
(***************************************************************************)
(* Nothing read, nothing written.                                          *)
(***************************************************************************)
LEMMA InitialInv == Init => MergeInv
<1> SUFFICES ASSUME Init PROVE MergeInv
  OBVIOUS
<1>1. Len(Owner) \in Nat /\ DOMAIN Owner = 1..Len(Owner)
  BY LenProperties, OwnerAssumption
<1>2. unread = Owner /\ ReadCount = 0 /\ Seen = {}
  BY <1>1 DEF Init, ReadCount, Seen
<1>3. Owner \in Seq(Owners)
  <2>1. Owner \in [1..Len(Owner) -> Owners]
    BY <1>1, LenProperties, OwnerAssumption DEF Owners
  <2> QED
    BY <1>1, <2>1, SeqDef
<1>4. merged \in ChangeSet /\ DOMAIN merged = {}
  BY DEF Init, NoChanges, ChangeSet
<1>5. TypeOK
  BY <1>2, <1>3, <1>4 DEF Init, TypeOK
<1> QED
  BY <1>1, <1>2, <1>4, <1>5
     DEF Init, MergeInv, ReadInv, MergedInv, PhaseInv, TreeInv

(***************************************************************************)
(* The conflict loop: an entry that is there already is overwritten by an  *)
(* equal one, so merged goes on to agree with all that have been read.     *)
(***************************************************************************)
LEMMA ReadKeepsInv ==
    ASSUME MergeInv, ReadChangeSet
    PROVE  MergeInv'
<1>0. PICK o : o = Head(unread)
  OBVIOUS
<1> DEFINE c == Changes(o)
<1>1. /\ pc = "reading" /\ unread # << >> /\ ~Disagree(c, merged)
      /\ merged' = Overlay(c, merged) /\ unread' = Tail(unread)
      /\ UNCHANGED <<base, updates, tree, pc, pending>>
  BY <1>0 DEF ReadChangeSet
<1>2. TypeOK /\ ReadInv /\ MergedInv
  BY DEF MergeInv
<1>3. /\ o \in Owners /\ o = Owner[ReadCount + 1]
      /\ ReadCount \in Nat /\ ReadCount + 1 \in 1..Len(Owner)
      /\ Len(unread) \in Nat \ {0} /\ Len(Owner) \in Nat
      /\ unread' \in Seq(Owners) /\ Len(unread') = Len(unread) - 1
      /\ \A i \in 1..Len(unread') : unread'[i] = unread[i + 1]
  BY <1>0, <1>1, <1>2, UnreadHead
<1>4. ReadCount' = ReadCount + 1
  BY <1>3 DEF ReadCount
<1>5. Seen' = Seen \cup {o}
  BY <1>3, <1>4 DEF Seen
<1>6. ReadInv'
  <2>1. Len(unread') <= Len(Owner)
    BY <1>2, <1>3 DEF ReadInv
  <2>2. ASSUME NEW i \in 1..Len(unread')
        PROVE  unread'[i] = Owner[ReadCount' + i]
    <3>1. i + 1 \in 1..Len(unread) /\ ReadCount + (i + 1) = ReadCount' + i
      BY <1>3, <1>4
    <3>2. unread[i + 1] = Owner[ReadCount + (i + 1)]
      BY <1>2, <3>1 DEF ReadInv
    <3> QED
      BY <1>3, <3>1, <3>2
  <2> QED
    BY <2>1, <2>2 DEF ReadInv
<1>7. /\ c \in ChangeSet /\ DOMAIN c \subseteq Path
      /\ merged \in ChangeSet /\ DOMAIN merged \subseteq Path
  BY <1>2, <1>3, ChangesType, ChangeSetType DEF TypeOK
<1>8. /\ DOMAIN merged' = DOMAIN c \cup DOMAIN merged
      /\ \A p \in DOMAIN merged' :
             merged'[p] = IF p \in DOMAIN c THEN c[p] ELSE merged[p]
      /\ \A p \in DOMAIN merged : merged'[p] = merged[p]
  BY <1>1 DEF Overlay, Disagree
<1>9. merged' \in ChangeSet
  <2>1. merged' \in [DOMAIN merged' -> Content \cup {Missing}]
    <3>1. \A p \in DOMAIN merged' : merged'[p] \in Content \cup {Missing}
      BY <1>7, <1>8, ChangeSetType
    <3>2. merged' = [p \in DOMAIN merged' |-> merged'[p]]
      BY <1>1, <1>8 DEF Overlay
    <3> QED
      BY <3>1, <3>2
  <2>2. DOMAIN merged' \in SUBSET Path
    BY <1>7, <1>8
  <2> QED
    BY <2>1, <2>2 DEF ChangeSet
<1>10. TypeOK'
  BY <1>1, <1>2, <1>3, <1>8, <1>9 DEF TypeOK
<1>11. \A w : Changes(w)' = Changes(w)
  BY <1>1 DEF Changes
<1>12. MergedInv'
  <2>1. ASSUME NEW w \in Seen PROVE Agrees(w)'
    BY <1>2, <1>8, <1>11 DEF MergedInv, Agrees
  <2>2. Agrees(o)'
    BY <1>8, <1>11 DEF Agrees
  <2>3. ASSUME NEW p \in DOMAIN merged'
        PROVE  \E w \in Seen' : p \in DOMAIN Changes(w)'
    BY <1>2, <1>5, <1>8, <1>11 DEF MergedInv
  <2> QED
    BY <1>5, <2>1, <2>2, <2>3 DEF MergedInv
<1> QED
  BY <1>1, <1>6, <1>10, <1>12 DEF MergeInv, PhaseInv, TreeInv

(***************************************************************************)
(* The steps that leave the change sets alone.                             *)
(***************************************************************************)
LEMMA ReadPartStays ==
    ASSUME MergeInv, UNCHANGED <<base, updates, unread, merged>>
    PROVE  ReadInv' /\ MergedInv' /\ \A o : Changes(o)' = Changes(o)
<1>1. \A o : Changes(o)' = Changes(o)
  BY DEF Changes
<1>2. ReadCount' = ReadCount /\ Seen' = Seen
  BY DEF ReadCount, Seen
<1>3. ReadInv'
  BY <1>2 DEF MergeInv, ReadInv
<1>4. MergedInv'
  BY <1>1, <1>2 DEF MergeInv, MergedInv, Agrees
<1> QED
  BY <1>1, <1>3, <1>4

(***************************************************************************)
(* The end of the conflict loop, either way, and the end of the write      *)
(* loop.                                                                   *)
(***************************************************************************)
LEMMA VerdictKeepsInv ==
    ASSUME MergeInv, RejectConflict \/ StartWriting \/ FinishMerge
    PROVE  MergeInv'
<1>1. UNCHANGED <<base, updates, tree, unread, merged>>
  BY DEF RejectConflict, StartWriting, FinishMerge
<1>2. ReadInv' /\ MergedInv' /\ \A o : Changes(o)' = Changes(o)
  BY <1>1, ReadPartStays
<1>3. CASE RejectConflict
  BY <1>1, <1>2, <1>3
     DEF RejectConflict, MergeInv, TypeOK, PhaseInv, TreeInv, Disagree
<1>4. CASE StartWriting
  <2>1. /\ tree' = base' /\ pending' = DOMAIN merged' /\ pc' = "writing"
        /\ unread' = << >>
    BY <1>1, <1>4 DEF StartWriting, MergeInv, PhaseInv
  <2>2. Capture(base) = [p \in Path |-> Capture(base)[p]]
    BY DEF Capture
  <2>3. \A p : Merged(p)' = Capture(base)[p]
    BY <1>1, <2>1 DEF Merged
  <2>4. TreeInv'
    BY <1>1, <2>1, <2>2, <2>3 DEF TreeInv
  <2> QED
    BY <1>1, <1>2, <2>1, <2>4 DEF MergeInv, TypeOK, PhaseInv
<1>5. CASE FinishMerge
  <2>1. pending' = pending /\ pending = {} /\ pc = "writing" /\ pc' = "merged"
    BY <1>5 DEF FinishMerge
  <2>2. \A p : Merged(p)' = Merged(p)
    BY <1>1, <2>1 DEF Merged
  <2> QED
    BY <1>1, <1>2, <2>1, <2>2 DEF MergeInv, TypeOK, PhaseInv, TreeInv
<1> QED
  BY <1>3, <1>4, <1>5

(***************************************************************************)
(* A write that raises leaves every path but its own as it was.            *)
(***************************************************************************)
LEMMA RaiseKeepsInv ==
    ASSUME MergeInv, WriteRaises
    PROVE  MergeInv'
<1> DEFINE r == FirstPath(pending)
<1>1. /\ pc = "writing" /\ pending # {} /\ pc' = "raised"
      /\ tree' \in FailedWrites(tree, r, merged[r])
      /\ UNCHANGED <<base, updates, unread, merged, pending>>
  BY DEF WriteRaises
<1>2. /\ tree \in Tree /\ pending \in SUBSET Path /\ DOMAIN merged \subseteq Path
  BY ChangeSetType DEF MergeInv, TypeOK
<1>3. r \in Path
  BY <1>1, <1>2, FirstPathIsPending
<1>4. /\ tree' \in Tree
      /\ \A p \in Path \ {r} : Capture(tree')[p] = Capture(tree)[p]
  BY <1>1, <1>2, <1>3, FailedWritesType
<1>5. ReadInv' /\ MergedInv'
  BY <1>1, ReadPartStays
<1>6. TypeOK'
  BY <1>1, <1>4 DEF MergeInv, TypeOK
<1>7. \A p : Merged(p)' = Merged(p)
  BY <1>1 DEF Merged
<1>8. \A p \in Path : Capture(tree)[p] = Merged(p)
  BY <1>1 DEF MergeInv, TreeInv
<1>9. TreeInv'
  <2>1. r' = r
    BY <1>1
  <2>2. \A p \in Path \ {FirstPath(pending')} : Capture(tree')[p] = Merged(p)'
    BY <1>1, <1>4, <1>7, <1>8
  <2> QED
    BY <1>1, <2>2 DEF MergeInv, TreeInv
<1> QED
  BY <1>1, <1>5, <1>6, <1>9 DEF MergeInv, PhaseInv

(***************************************************************************)
(* A write puts the merged entry of its path and leaves the pending ones,  *)
(* which come later, as they were.                                         *)
(***************************************************************************)
LEMMA WriteKeepsInv ==
    ASSUME MergeInv, WritePath
    PROVE  MergeInv'
<1> DEFINE r == FirstPath(pending)
<1>1. /\ pc = "writing" /\ pending # {} /\ CanWrite(tree, r)
      /\ tree' = WriteFile(tree, r, merged[r])
      /\ pending' = pending \ {r}
      /\ UNCHANGED <<base, updates, pc, unread, merged>>
  BY DEF WritePath
<1>2. /\ tree \in Tree /\ pending \subseteq DOMAIN merged
      /\ DOMAIN merged \subseteq Path
      /\ \A p \in DOMAIN merged : merged[p] \in Content \cup {Missing}
  BY ChangeSetType DEF MergeInv, TypeOK
<1>3. r \in pending /\ \A q \in pending : Rank[r] <= Rank[q]
  BY <1>1, <1>2, FirstPathIsPending
<1>4. /\ tree' \in Tree
      /\ Capture(tree') = [Capture(tree) EXCEPT ![r] = merged[r]]
  BY <1>1, <1>2, <1>3, WriteFileType, WriteFileChangesOneFile
<1>5. ReadInv' /\ MergedInv'
  BY <1>1, ReadPartStays
<1>6. TypeOK'
  BY <1>1, <1>2, <1>4 DEF MergeInv, TypeOK
<1>7. Capture(tree') = [p \in Path |-> Merged(p)']
  <2>1. Capture(tree) = [p \in Path |-> Merged(p)]
    BY <1>1 DEF MergeInv, TreeInv
  <2>2. \A p \in Path : Merged(p)' = IF p = r THEN merged[r] ELSE Merged(p)
    BY <1>1, <1>2, <1>3 DEF Merged
  <2> QED
    BY <1>3, <1>4, <2>1, <2>2
<1>8. ASSUME NEW p \in pending'
      PROVE  tree'[p] = base[p]
  <2>1. p \in pending /\ p # r /\ p \in Path /\ tree[p] = base[p]
    BY <1>1, <1>2, <1>8 DEF MergeInv, TreeInv
  <2>2. p \notin Above[r]
    <3>1. Rank[r] <= Rank[p] /\ Rank[r] \in Nat /\ Rank[p] \in Nat
      BY <1>2, <1>3, <2>1, PathAssumption
    <3>2. p \in Above[r] => Rank[p] < Rank[r]
      BY <1>2, <1>3, PathAssumption
    <3> QED
      BY <3>1, <3>2
  <2>3. tree \in [Path -> Content \cup {Missing, Directory}]
    BY <1>2 DEF Tree
  <2> QED
    BY <1>1, <2>1, <2>2, <2>3 DEF WriteFile
<1>9. ASSUME NEW p \in DOMAIN merged \ pending', NEW q \in pending'
      PROVE  Rank[p] < Rank[q]
  <2>1. q \in pending /\ q # r /\ q \in Path /\ p \in Path /\ r \in Path
    BY <1>1, <1>2, <1>3
  <2>2. CASE p = r
    <3>1. Rank[r] <= Rank[q] /\ Rank[r] # Rank[q]
      BY <1>3, <2>1, PathAssumption
    <3>2. Rank[r] \in Nat /\ Rank[q] \in Nat
      BY <2>1, PathAssumption
    <3> QED
      BY <2>2, <3>1, <3>2
  <2>3. CASE p # r
    BY <1>1, <2>1, <2>3 DEF MergeInv, TreeInv
  <2> QED
    BY <2>2, <2>3
<1> QED
  BY <1>1, <1>5, <1>6, <1>7, <1>8, <1>9 DEF MergeInv, PhaseInv, TreeInv

(***************************************************************************)
(* MergeInv is an invariant.                                               *)
(***************************************************************************)
LEMMA InvIsInvariant == Spec => []MergeInv
<1>1. MergeInv /\ UNCHANGED vars => MergeInv'
  <2> SUFFICES ASSUME MergeInv, UNCHANGED vars PROVE MergeInv'
    OBVIOUS
  <2>1. ReadInv' /\ MergedInv' /\ \A o : Changes(o)' = Changes(o)
    BY ReadPartStays DEF vars
  <2> QED
    BY <2>1 DEF vars, MergeInv, TypeOK, PhaseInv, TreeInv, Merged, Disagree
<1>2. MergeInv /\ [Next]_vars => MergeInv'
  BY <1>1, ReadKeepsInv, VerdictKeepsInv, WriteKeepsInv, RaiseKeepsInv
     DEF Next, Terminated
<1> QED
  BY <1>2, InitialInv, PTL DEF Spec

(***************************************************************************)
(* The variables of a merge stay in their types.                           *)
(***************************************************************************)
THEOREM TypeCorrect == Spec => []TypeOK
BY InvIsInvariant, PTL DEF MergeInv

-----------------------------------------------------------------------------
(***************************************************************************)
(* What is wanted at a path: once everything has been read, merged has an  *)
(* entry for a path exactly if an owner changed it, and it is what every   *)
(* such owner wants.                                                       *)
(***************************************************************************)
LEMMA AllRead ==
    ASSUME MergeInv, pc \in {"writing", "merged", "raised"}
    PROVE  /\ \A p \in DOMAIN merged :
                  \E o \in Owners : p \in DOMAIN Changes(o)
           /\ \A o \in Owners : \A p \in DOMAIN Changes(o) :
                  p \in DOMAIN merged /\ merged[p] = Capture(updates[o])[p]
<1>1. Seen = Owners /\ MergedInv /\ TypeOK
  BY OwnersSeen DEF MergeInv, PhaseInv
<1> QED
  BY <1>1, ChangesType DEF MergedInv, Agrees

(***************************************************************************)
(* So the contents wanted at a path are one: that of merged, or the old    *)
(* one, from which an entry of merged differs.                             *)
(***************************************************************************)
LEMMA WantedIsMerged ==
    ASSUME MergeInv, pc \in {"writing", "merged", "raised"}, NEW p \in Path
    PROVE  /\ p \in DOMAIN merged =>
                  WantedAt(p) = {merged[p]} /\ merged[p] # Capture(base)[p]
           /\ p \notin DOMAIN merged => WantedAt(p) = {Capture(base)[p]}
<1> DEFINE owners == {o \in Owners :
                         Capture(updates[o])[p] # Capture(base)[p]}
<1>1. \A o \in Owners : p \in DOMAIN Changes(o) <=>
                            Capture(updates[o])[p] # Capture(base)[p]
  BY ChangesType DEF MergeInv
<1>2. CASE p \in DOMAIN merged
  <2>1. owners # {} /\ \A o \in owners : merged[p] = Capture(updates[o])[p]
    BY <1>1, <1>2, AllRead
  <2>2. {Capture(updates[o])[p] : o \in owners} = {merged[p]}
    BY <2>1
  <2>3. merged[p] # Capture(base)[p]
    BY <2>1
  <2> QED
    BY <1>2, <2>1, <2>2, <2>3 DEF WantedAt
<1>3. CASE p \notin DOMAIN merged
  <2>1. owners = {}
    BY <1>1, <1>3, AllRead
  <2> QED
    BY <1>3, <2>1 DEF WantedAt
<1> QED
  BY <1>2, <1>3

(***************************************************************************)
(* A merge leaves every file as its owners want it, and the others alone.  *)
(***************************************************************************)
THEOREM MergesAreExact == Spec => []MergeIsExact
<1>1. ASSUME MergeInv PROVE MergeIsExact
  <2> SUFFICES ASSUME pc = "merged", NEW p \in Path
               PROVE  WantedAt(p) = {Capture(tree)[p]}
    BY DEF MergeIsExact
  <2>1. Capture(tree)[p] =
            IF p \in DOMAIN merged THEN merged[p] ELSE Capture(base)[p]
    BY <1>1 DEF MergeInv, PhaseInv, TreeInv, Merged
  <2> QED
    BY <1>1, <2>1, WantedIsMerged
<1> QED
  BY <1>1, InvIsInvariant, PTL

(***************************************************************************)
(* A merge that raised at a path has written those before it, as their     *)
(* owners want them, and left those after it as they were.                 *)
(***************************************************************************)
THEOREM FailedMergesArePrefixes == Spec => []FailedMergeIsPrefix
<1>1. ASSUME MergeInv PROVE FailedMergeIsPrefix
  <2> SUFFICES ASSUME pc = "raised"
               PROVE  \E p \in Path :
                          /\ WantedAt(p) # {Capture(base)[p]}
                          /\ \A q \in Path \ {p} :
                                 IF Rank[q] < Rank[p]
                                 THEN WantedAt(q) = {Capture(tree)[q]}
                                 ELSE Capture(tree)[q] = Capture(base)[q]
    BY DEF FailedMergeIsPrefix
  <2>1. PICK r : r = FirstPath(pending)
    OBVIOUS
  <2>2. /\ pending # {} /\ pending \subseteq DOMAIN merged
        /\ DOMAIN merged \subseteq Path
    BY <1>1, ChangeSetType DEF MergeInv, TypeOK, TreeInv
  <2>3. r \in pending /\ r \in Path /\ \A q \in pending : Rank[r] <= Rank[q]
    BY <2>1, <2>2, FirstPathIsPending
  <2>4. WantedAt(r) # {Capture(base)[r]}
    BY <1>1, <2>2, <2>3, WantedIsMerged
  <2>5. ASSUME NEW q \in Path \ {r}
        PROVE  IF Rank[q] < Rank[r]
               THEN WantedAt(q) = {Capture(tree)[q]}
               ELSE Capture(tree)[q] = Capture(base)[q]
    <3>1. Rank[q] \in Nat /\ Rank[r] \in Nat
      BY <2>3, PathAssumption
    <3>2. Capture(tree)[q] = IF q \in DOMAIN merged \ pending
                             THEN merged[q] ELSE Capture(base)[q]
      BY <1>1, <2>1 DEF MergeInv, TreeInv, Merged
    <3>3. CASE Rank[q] < Rank[r]
      <4>1. q \notin pending
        BY <2>3, <3>1, <3>3
      <4> QED
        BY <1>1, <3>2, <3>3, <4>1, WantedIsMerged
    <3>4. CASE ~(Rank[q] < Rank[r])
      <4>1. q \notin DOMAIN merged \ pending
        BY <1>1, <2>3, <3>4 DEF MergeInv, TreeInv
      <4> QED
        BY <3>2, <3>4, <4>1
    <3> QED
      BY <3>3, <3>4
  <2> QED
    BY <2>3, <2>4, <2>5
<1> QED
  BY <1>1, InvIsInvariant, PTL

(***************************************************************************)
(* A merge is rejected, before anything is written, exactly if two owners  *)
(* want different contents at a path that both changed.                    *)
(***************************************************************************)
THEOREM RejectionsAreExact == Spec => []RejectsExactlyConflicts
<1>1. ASSUME MergeInv PROVE RejectsExactlyConflicts
  <2> DEFINE Clash(o, w, p) ==
                 /\ Capture(updates[o])[p] # Capture(base)[p]
                 /\ Capture(updates[w])[p] # Capture(base)[p]
                 /\ Capture(updates[o])[p] # Capture(updates[w])[p]
             conflict == \E o, w \in Owners : \E p \in Path : Clash(o, w, p)
  <2>0. TypeOK /\ ReadInv /\ MergedInv
    BY <1>1 DEF MergeInv
  <2>1. ASSUME pc = "rejected" PROVE conflict /\ tree = base
    <3>1. tree = base /\ unread # << >> /\ Disagree(Changes(Head(unread)), merged)
      BY <1>1, <2>1 DEF MergeInv, PhaseInv
    <3>2. Head(unread) \in Owners
      BY <2>0, <3>1, UnreadHead
    <3>3. PICK p \in DOMAIN Changes(Head(unread)) \cap DOMAIN merged :
              Changes(Head(unread))[p] # merged[p]
      BY <3>1 DEF Disagree
    <3>4. PICK w \in Seen : p \in DOMAIN Changes(w)
      BY <2>0, <3>3 DEF MergedInv
    <3>5. w \in Owners /\ merged[p] = Changes(w)[p]
      BY <2>0, <3>4, OwnersSeen DEF MergedInv, Agrees
    <3>6. p \in Path /\ Clash(Head(unread), w, p)
      BY <2>0, <3>2, <3>3, <3>4, <3>5, ChangesType
    <3> QED
      BY <3>1, <3>2, <3>5, <3>6
  <2>2. ASSUME pc \in {"writing", "merged", "raised"} PROVE ~conflict
    <3> SUFFICES ASSUME NEW o \in Owners, NEW w \in Owners, NEW p \in Path,
                        Clash(o, w, p)
                 PROVE  FALSE
      OBVIOUS
    <3>1. p \in DOMAIN Changes(o) /\ p \in DOMAIN Changes(w)
      BY <2>0, ChangesType
    <3> QED
      BY <1>1, <2>2, <3>1, AllRead
  <2> QED
    BY <2>1, <2>2 DEF RejectsExactlyConflicts
<1> QED
  BY <1>1, InvIsInvariant, PTL

-----------------------------------------------------------------------------
(***************************************************************************)
(* The most steps a merge has still before it: a change set or a path at   *)
(* each, and those that go from one loop to the next.                      *)
(***************************************************************************)
StepsAhead ==
    CASE pc = "reading" -> Len(unread) + Cardinality(Path) + 2
      [] pc = "writing" -> Cardinality(pending) + 1
      [] OTHER -> 0

MostSteps == Len(Owner) + Cardinality(Path) + 2

(***************************************************************************)
(* A merge ends: every step leaves fewer before it, and at the beginning   *)
(* there are at most as many as there are change sets and paths, and two.  *)
(***************************************************************************)
THEOREM MergeIsBounded ==
    Spec => [](StepsAhead \in 0..MostSteps) /\ [][StepsAhead' < StepsAhead]_vars
<1>1. IsFiniteSet(Path) /\ Cardinality(Path) \in Nat /\ Len(Owner) \in Nat
  BY PathAssumption, OwnerAssumption, FS_CardinalityType, LenProperties
<1>2. ASSUME MergeInv
      PROVE  /\ Len(unread) \in 0..Len(Owner)
             /\ pending \subseteq Path /\ merged \in ChangeSet
  BY <1>2, LenProperties DEF MergeInv, TypeOK, ReadInv, ChangeSet
<1>3. ASSUME NEW S \in SUBSET Path
      PROVE  IsFiniteSet(S) /\ Cardinality(S) \in 0..Cardinality(Path)
  BY <1>1, FewerLeft, FS_Subset
<1>4. MergeInv => StepsAhead \in 0..MostSteps
  BY <1>1, <1>2, <1>3 DEF StepsAhead, MostSteps
<1>5. ASSUME MergeInv, MergeInv', Next, ~UNCHANGED vars
      PROVE  StepsAhead' < StepsAhead
  <2>1. /\ Cardinality(pending) \in 0..Cardinality(Path)
        /\ Cardinality(pending') \in 0..Cardinality(Path)
        /\ Len(unread) \in 0..Len(Owner)
    <3>1. pending' \subseteq Path
      BY <1>5 DEF MergeInv, TypeOK, ChangeSet
    <3>2. QED
      BY <1>2, <1>3, <1>5, <3>1
  <2>2. CASE ReadChangeSet
    <3>1. Len(unread') = Len(unread) - 1 /\ pc = "reading" /\ pc' = "reading"
      BY <1>5, <2>2, UnreadHead DEF ReadChangeSet, MergeInv
    <3>2. QED
      BY <1>1, <2>1, <3>1 DEF StepsAhead
  <2>3. CASE RejectConflict \/ StartWriting
    <3>1. pc = "reading" /\ pc' \in {"rejected", "writing"}
      BY <2>3 DEF RejectConflict, StartWriting
    <3>2. StepsAhead' \in {0, Cardinality(pending') + 1}
      BY <3>1 DEF StepsAhead
    <3>3. QED
      BY <1>1, <2>1, <3>1, <3>2 DEF StepsAhead
  <2>4. CASE WritePath
    <3>1. /\ pending # {} /\ pending' = pending \ {FirstPath(pending)}
          /\ pc = "writing" /\ pc' = "writing"
      BY <2>4 DEF WritePath
    <3>2. FirstPath(pending) \in pending
      BY <1>2, <1>5, <3>1, FirstPathIsPending
    <3>3. Cardinality(pending') < Cardinality(pending)
      BY <1>2, <1>3, <1>5, <3>1, <3>2, FewerLeft
    <3>4. QED
      BY <2>1, <3>1, <3>3 DEF StepsAhead
  <2>5. CASE WriteRaises \/ FinishMerge
    <3>1. pc = "writing" /\ pc' \in {"raised", "merged"}
      BY <2>5 DEF WriteRaises, FinishMerge
    <3>2. QED
      BY <2>1, <3>1 DEF StepsAhead
  <2>6. QED
    BY <1>5, <2>2, <2>3, <2>4, <2>5 DEF Next, Terminated
<1>6. MergeInv /\ MergeInv' /\ [Next]_vars => [StepsAhead' < StepsAhead]_vars
  BY <1>5
<1>7. QED
  BY <1>4, <1>6, InvIsInvariant, PTL DEF Spec
=============================================================================
