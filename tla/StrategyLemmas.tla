--------------------------- MODULE StrategyLemmas ---------------------------
(***************************************************************************)
(* Lemmas about the operators the strategies are built from, for every     *)
(* plan, every set of paths and every set of contents: the layers of a     *)
(* plan (TaskPlan), and what a snapshot, a difference, a merge and a write *)
(* return (FileTree).                                                      *)
(***************************************************************************)
EXTENDS TaskPlan, FileTree, WellFoundedInduction, FiniteSetTheorems,
        FunctionTheorems, TLAPS

(***************************************************************************)
(* A non-empty set of numbers has a least one.                             *)
(***************************************************************************)
LEMMA LeastNat ==
    ASSUME NEW S \in SUBSET Nat, S # {}
    PROVE  \E n \in S : \A m \in S : n <= m
<1>1. PICK n \in S : \A m \in S : ~ (<<m, n>> \in OpToRel(<, Nat))
  BY Zenon, NatLessThanWellFounded, WFMin
<1>2. \A m \in S : ~ (m < n)
  BY <1>1 DEF OpToRel
<1>3. QED
  BY <1>2

-----------------------------------------------------------------------------
(***************************************************************************)
(* next(...) finds a subtask in every non-empty set of the plan's, and it  *)
(* is listed before all others of the set.                                 *)
(***************************************************************************)
LEMMA FirstInPlanIsMember ==
    ASSUME NEW I, NEW p \in Seq(SubtaskSpec(I)), NEW S \in SUBSET Ids(p), S # {}
    PROVE  /\ FirstInPlan(p, S) \in S
           /\ \A t \in S \ {FirstInPlan(p, S)} : Precedes(p, FirstInPlan(p, S), t)
<1> DEFINE places == {i \in DOMAIN p : p[i].id \in S}
<1>1. places \in SUBSET Nat /\ places # {}
  BY DEF Ids
<1>2. PICK i \in places : \A j \in places : i <= j
  BY <1>1, LeastNat
<1>3. ASSUME NEW t \in S, t # p[i].id
      PROVE  Precedes(p, p[i].id, t)
  <2>1. PICK j \in DOMAIN p : p[j].id = t
    BY DEF Ids
  <2>2. j \in places /\ i <= j /\ i # j
    BY <1>2, <1>3, <2>1
  <2>3. i < j /\ i \in DOMAIN p
    BY <1>1, <2>2
  <2>4. QED
    BY <2>1, <2>3 DEF Precedes
<1>4. p[i].id \in S
  BY <1>2
<1>5. \E s \in S : \A t \in S \ {s} : Precedes(p, s, t)
  BY <1>3, <1>4
<1>6. QED
  BY <1>5 DEF FirstInPlan

(***************************************************************************)
(* The definition of CompletedBy by recursion defines something: there is  *)
(* a function with these values.  Its approximations are the functions on  *)
(* 0..n that obey the recurrence; there is one for each n, any two agree   *)
(* where both are defined, and their last values make the function.        *)
(***************************************************************************)
LEMMA CompletedByRecurrence ==
    ASSUME NEW p
    PROVE  CompletedBy(p) =
               [n \in Nat |->
                   IF n = 0 THEN {}
                   ELSE CompletedBy(p)[n-1]
                            \cup Ready(p, CompletedBy(p)[n-1])]
<1> DEFINE Next(S) == S \cup Ready(p, S)
           Approx(n) == {g \in [0..n -> SUBSET Ids(p)] :
                            /\ g[0] = {}
                            /\ \A i \in 1..n : g[i] = Next(g[i-1])}
<1>1. \A S \in SUBSET Ids(p) : Next(S) \in SUBSET Ids(p)
  BY DEF Ready, ReadyAmong
<1> HIDE DEF Next
<1>2. \A n \in Nat : Approx(n) # {}
  <2> DEFINE without == {n \in Nat : Approx(n) = {}}
  <2> SUFFICES ASSUME without # {} PROVE FALSE
    OBVIOUS
  <2>1. PICK n \in without : \A m \in without : n <= m
    BY LeastNat
  <2>2. CASE n = 0
    <3>1. [i \in 0..0 |-> {}] \in Approx(0)
      OBVIOUS
    <3>2. QED
      BY <2>1, <2>2, <3>1
  <2>3. CASE n # 0
    <3>1. n \in Nat /\ n - 1 \in Nat /\ Approx(n-1) # {}
      <4>1. n \in Nat /\ n - 1 \in Nat /\ ~ (n <= n - 1)
        BY <2>1, <2>3
      <4>2. n - 1 \notin without
        BY <2>1, <4>1
      <4>3. QED
        BY <4>1, <4>2
    <3>2. PICK g \in Approx(n-1) : TRUE
      BY <3>1
    <3> DEFINE h == [i \in 0..n |-> IF i = n THEN Next(g[n-1]) ELSE g[i]]
    <3>3. /\ g \in [0..(n-1) -> SUBSET Ids(p)] /\ g[0] = {}
          /\ \A i \in 1..(n-1) : g[i] = Next(g[i-1])
      BY <3>2
    <3>4. h \in [0..n -> SUBSET Ids(p)]
      BY <1>1, <3>1, <3>3
    <3>5. \A i \in 1..n : h[i] = Next(h[i-1])
      BY <3>1, <3>3
    <3>6. h \in Approx(n)
      BY <2>3, <3>1, <3>3, <3>4, <3>5
    <3>7. QED
      BY <2>1, <3>6
  <2>4. QED
    BY <2>2, <2>3
<1>3. ASSUME NEW m \in Nat, NEW n \in Nat, NEW g \in Approx(m),
             NEW h \in Approx(n), NEW i \in 0..m, i <= n
      PROVE  g[i] = h[i]
  <2> DEFINE differ == {j \in 0..i : g[j] # h[j]}
  <2> SUFFICES ASSUME differ # {} PROVE FALSE
    BY <1>3
  <2>1. differ \in SUBSET Nat
    OBVIOUS
  <2>2. PICK j \in differ : \A k \in differ : j <= k
    BY <2>1, LeastNat
  <2>3. CASE j = 0
    BY <2>2, <2>3
  <2>4. CASE j # 0
    <3>1. j - 1 \in 0..i /\ j - 1 \notin differ /\ j \in 1..m /\ j \in 1..n
      BY <1>3, <2>2, <2>4
    <3>2. g[j-1] = h[j-1]
      BY <3>1
    <3>3. g[j] = Next(g[j-1]) /\ h[j] = Next(h[j-1])
      BY <3>1
    <3>4. QED
      BY <2>2, <3>2, <3>3
  <2>5. QED
    BY <2>3, <2>4
<1> DEFINE A(n) == CHOOSE g \in Approx(n) : TRUE
           f == [n \in Nat |-> A(n)[n]]
<1>4. \A n \in Nat : A(n) \in Approx(n)
  BY <1>2
<1> HIDE DEF A
<1>5. f[0] = {}
  BY <1>4
<1>6. ASSUME NEW n \in Nat, n # 0 PROVE f[n] = Next(f[n-1])
  <2>1. n - 1 \in Nat /\ n \in 1..n /\ n - 1 \in 0..(n-1) /\ n - 1 <= n
    BY <1>6
  <2>2. A(n)[n] = Next(A(n)[n-1])
    BY <1>4, <2>1
  <2>3. A(n-1)[n-1] = A(n)[n-1]
    <3>1. A(n-1) \in Approx(n-1) /\ A(n) \in Approx(n)
      BY <1>4, <2>1
    <3> HIDE DEF Approx
    <3>2. QED
      BY <1>3, <2>1, <3>1
  <2>4. QED
    BY <2>1, <2>2, <2>3
<1> HIDE DEF Approx
<1> DEFINE R(h) == [n \in Nat |-> IF n = 0 THEN {} ELSE Next(h[n-1])]
<1>7. f = R(f)
  <2>1. \A n \in Nat : f[n] = R(f)[n]
    BY <1>5, <1>6
  <2>2. QED
    BY <2>1
<1> HIDE DEF f
<1>8. \E h : h = R(h)
  BY <1>7
<1>9. CompletedBy(p) = CHOOSE h : h = R(h)
  BY DEF CompletedBy, Next
<1>10. CompletedBy(p) = R(CompletedBy(p))
  BY <1>8, <1>9
<1>11. QED
  BY <1>10 DEF Next

(***************************************************************************)
(* One more group each time, of subtasks of the plan.                      *)
(***************************************************************************)
LEMMA LayersStep ==
    ASSUME NEW p
    PROVE  /\ CompletedBy(p)[0] = {}
           /\ \A n \in Nat :
                  /\ CompletedBy(p)[n] \in SUBSET Ids(p)
                  /\ CompletedBy(p)[n+1] =
                         CompletedBy(p)[n] \cup Ready(p, CompletedBy(p)[n])
<1> DEFINE CB == CompletedBy(p)
<1>1. CB = [n \in Nat |-> IF n = 0 THEN {} ELSE CB[n-1] \cup Ready(p, CB[n-1])]
  BY CompletedByRecurrence
<1> HIDE DEF CB
<1>2. CB[0] = {}
  BY <1>1
<1>3. ASSUME NEW n \in Nat PROVE CB[n+1] = CB[n] \cup Ready(p, CB[n])
  <2>1. n + 1 \in Nat /\ n + 1 # 0 /\ (n + 1) - 1 = n
    OBVIOUS
  <2>2. CB[n+1] = CB[(n+1)-1] \cup Ready(p, CB[(n+1)-1])
    BY <1>1, <2>1, Zenon
  <2>3. QED
    BY <2>1, <2>2
<1>4. \A n \in Nat : CB[n] \in SUBSET Ids(p)
  <2> DEFINE bad == {n \in Nat : CB[n] \notin SUBSET Ids(p)}
  <2> SUFFICES ASSUME bad # {} PROVE FALSE
    OBVIOUS
  <2>1. PICK n \in bad : \A m \in bad : n <= m
    BY LeastNat
  <2>2. CASE n = 0
    BY <1>2, <2>1, <2>2
  <2>3. CASE n # 0
    <3>1. n - 1 \in Nat /\ n = (n - 1) + 1 /\ ~ (n <= n - 1)
      BY <2>1, <2>3
    <3>2. CB[n-1] \in SUBSET Ids(p)
      BY <2>1, <3>1
    <3>3. CB[n] = CB[n-1] \cup Ready(p, CB[n-1])
      BY <1>3, <3>1
    <3>4. Ready(p, CB[n-1]) \in SUBSET Ids(p)
      BY DEF Ready, ReadyAmong
    <3>5. QED
      BY <2>1, <3>2, <3>3, <3>4
  <2>4. QED
    BY <2>2, <2>3
<1>5. QED
  BY <1>2, <1>3, <1>4 DEF CB

(***************************************************************************)
(* What is completed stays completed.                                      *)
(***************************************************************************)
LEMMA LayersGrow ==
    ASSUME NEW p, NEW m \in Nat, NEW n \in Nat, m <= n
    PROVE  CompletedBy(p)[m] \subseteq CompletedBy(p)[n]
<1> DEFINE CB == CompletedBy(p)
           bad == {k \in Nat : m <= k /\ ~ (CB[m] \subseteq CB[k])}
<1> SUFFICES ASSUME bad # {} PROVE FALSE
  OBVIOUS
<1> HIDE DEF CB
<1>1. PICK k \in bad : \A j \in bad : k <= j
  BY LeastNat
<1>2. k # m
  BY <1>1
<1>3. k - 1 \in Nat /\ k = (k - 1) + 1 /\ m <= k - 1 /\ ~ (k <= k - 1)
  BY <1>1, <1>2
<1>4. CB[m] \subseteq CB[k-1]
  BY <1>1, <1>3
<1>5. CB[k] = CB[k-1] \cup Ready(p, CB[k-1])
  BY <1>3, LayersStep DEF CB
<1>6. QED
  BY <1>1, <1>4, <1>5

(***************************************************************************)
(* A plan has at most as many non-empty groups as subtasks: a group has a  *)
(* member that is listed somewhere and that no other group has.            *)
(***************************************************************************)
LEMMA LayersAreFew ==
    ASSUME NEW p, Len(p) \in Nat, DOMAIN p = 1..Len(p), NEW k \in Nat,
           \A j \in 0..k : Ready(p, CompletedBy(p)[j]) # {}
    PROVE  k < Len(p)
<1> DEFINE CB == CompletedBy(p)
           place == [j \in 0..k |->
                        CHOOSE i \in DOMAIN p : p[i].id \in Ready(p, CB[j])]
<1>1. \A j \in 0..k : CB[j+1] = CB[j] \cup Ready(p, CB[j])
  BY LayersStep
<1>2. \A i, j \in 0..k : i < j => CB[i+1] \subseteq CB[j]
  BY LayersGrow
<1> HIDE DEF CB
<1>3. ASSUME NEW j \in 0..k
      PROVE  place[j] \in DOMAIN p /\ p[place[j]].id \in Ready(p, CB[j])
  <2>1. PICK s \in Ready(p, CB[j]) : TRUE
    BY DEF CB
  <2>2. s \in Ids(p)
    BY <2>1 DEF Ready, ReadyAmong
  <2>3. \E i \in DOMAIN p : p[i].id \in Ready(p, CB[j])
    BY <2>1, <2>2 DEF Ids
  <2>4. QED
    BY <2>3
<1>4. place \in [0..k -> 1..Len(p)]
  BY <1>3
<1>5. ASSUME NEW i \in 0..k, NEW j \in 0..k, i < j
      PROVE  place[i] # place[j]
  <2>1. p[place[i]].id \in CB[j]
    BY <1>1, <1>2, <1>3, <1>5
  <2>2. p[place[j]].id \notin CB[j]
    BY <1>3 DEF Ready, ReadyAmong
  <2>3. QED
    BY <2>1, <2>2
<1> HIDE DEF place
<1>6. \A i, j \in 0..k : i # j => place[i] # place[j]
  <2>1. \A i, j \in 0..k : i # j => i < j \/ j < i
    OBVIOUS
  <2>2. QED
    BY <1>5, <2>1
<1>7. place \in Injection(0..k, 1..Len(p))
  BY <1>4, <1>6 DEF Injection, IsInjective
<1>8. Cardinality(0..k) <= Cardinality(1..Len(p))
  <2>1. IsFiniteSet(1..Len(p))
    BY FS_Interval
  <2>2. QED
    BY <1>7, <2>1, FS_Injection
<1>9. Cardinality(0..k) = k + 1 /\ Cardinality(1..Len(p)) = Len(p)
  <2>1. Cardinality(0..k) = IF 0 > k THEN 0 ELSE k - 0 + 1
    BY FS_Interval
  <2>2. Cardinality(1..Len(p)) = IF 1 > Len(p) THEN 0 ELSE Len(p) - 1 + 1
    BY FS_Interval
  <2>3. QED
    BY <2>1, <2>2
<1>10. QED
  BY <1>8, <1>9

(***************************************************************************)
(* While a valid plan has something left, something of it is ready:        *)
(* otherwise what is left would be a knot.                                 *)
(***************************************************************************)
LEMMA SomethingIsReady ==
    ASSUME NEW p, ValidPlan(p), NEW completed \in SUBSET Ids(p),
           completed # Ids(p)
    PROVE  Ready(p, completed) # {}
<1> DEFINE left == Ids(p) \ completed
<1> SUFFICES ASSUME Ready(p, completed) = {} PROVE FALSE
  OBVIOUS
<1>1. \A s \in left : \E d \in DepsOf(p, s) : d \notin completed
  BY DEF Ready, ReadyAmong
<1>2. \A s \in Ids(p) : DepsOf(p, s) \subseteq Ids(p)
  BY DEF ValidPlan, DependenciesKnown, DepsOf
<1>3. \A s \in left : DepsOf(p, s) \cap left # {}
  BY <1>1, <1>2
<1>4. left # {} /\ left \in SUBSET Ids(p)
  OBVIOUS
<1>5. Knot(p, left)
  BY <1>3, <1>4 DEF Knot
<1>6. QED
  BY <1>4, <1>5 DEF Cyclic, ValidPlan

(***************************************************************************)
(* Every subtask of a valid plan has a layer, and the first k groups hold  *)
(* the subtasks whose layer is at most k.  All that follows uses LayerOf   *)
(* and CompletedBy through this lemma only.                                *)
(***************************************************************************)
LEMMA LayerIsPlace ==
    ASSUME NEW p, ValidPlan(p), Len(p) \in Nat, DOMAIN p = 1..Len(p),
           NEW s \in Ids(p)
    PROVE  /\ LayerOf(p, s) \in 1..Len(p)
           /\ \A k \in Nat : s \in CompletedBy(p)[k] <=> LayerOf(p, s) <= k
<1> DEFINE CB == CompletedBy(p)
<1>0. /\ CB[0] = {}
      /\ \A n \in Nat : CB[n] \in SUBSET Ids(p)
      /\ \A m, n \in Nat : m <= n => CB[m] \subseteq CB[n]
  BY LayersStep, LayersGrow
<1>1. s \in CB[Len(p)]
  <2> SUFFICES ASSUME s \notin CB[Len(p)] PROVE FALSE
    OBVIOUS
  <2>1. \A j \in 0..Len(p) : CB[j] \in SUBSET Ids(p) /\ CB[j] # Ids(p)
    BY <1>0
  <2>2. \A j \in 0..Len(p) : Ready(p, CB[j]) # {}
    BY <2>1, SomethingIsReady
  <2>3. Len(p) < Len(p)
    BY <2>2, LayersAreFew
  <2>4. QED
    BY <2>3
<1> HIDE DEF CB
<1>2. PICK n \in {j \in Nat : s \in CB[j]} : \A m \in {j \in Nat : s \in CB[j]} : n <= m
  BY <1>1, LeastNat
<1>3. /\ n \in 1..Len(p) /\ n - 1 \in Nat
      /\ s \in CB[n] /\ s \notin CB[n-1]
  <2>1. n # 0
    BY <1>0, <1>2
  <2>2. n <= Len(p) /\ n \in Nat /\ s \in CB[n]
    BY <1>1, <1>2
  <2>3. n - 1 \in Nat /\ ~ (n <= n - 1)
    BY <2>1, <2>2
  <2>4. s \notin CB[n-1]
    BY <1>2, <2>3
  <2>5. QED
    BY <2>1, <2>2, <2>3, <2>4
<1>4. ASSUME NEW m \in 1..Len(p), s \in CB[m], s \notin CB[m-1]
      PROVE  m = n
  <2>1. m - 1 \in Nat /\ m \in Nat /\ n <= m
    BY <1>2, <1>4
  <2>2. ~ (n <= m - 1)
    BY <1>0, <1>3, <1>4, <2>1
  <2>3. QED
    BY <1>3, <2>1, <2>2
<1>5. LayerOf(p, s) = n
  <2>1. LayerOf(p, s) =
            CHOOSE m \in 1..Len(p) : s \in CB[m] /\ s \notin CB[m-1]
    BY DEF LayerOf, CB
  <2>2. QED
    BY <1>3, <1>4, <2>1
<1>6. ASSUME NEW k \in Nat PROVE s \in CB[k] <=> n <= k
  BY <1>0, <1>2, <1>3
<1>7. QED
  BY <1>3, <1>5, <1>6 DEF CB

(***************************************************************************)
(* A prerequisite is in an earlier layer.                                  *)
(***************************************************************************)
LEMMA DependencyIsEarlier ==
    ASSUME NEW p, ValidPlan(p), Len(p) \in Nat, DOMAIN p = 1..Len(p),
           NEW s \in Ids(p), NEW d \in DepsOf(p, s)
    PROVE  d \in Ids(p) /\ LayerOf(p, d) < LayerOf(p, s)
<1> DEFINE k == LayerOf(p, s)
<1>1. d \in Ids(p)
  BY DEF ValidPlan, DependenciesKnown, DepsOf
<1>2. k \in 1..Len(p) /\ k - 1 \in Nat /\ k = (k - 1) + 1
  <2>1. k \in 1..Len(p)
    BY LayerIsPlace
  <2> HIDE DEF k
  <2>2. QED
    BY <2>1
<1>3. s \in CompletedBy(p)[k] /\ s \notin CompletedBy(p)[k-1]
  <2>1. \A j \in Nat : s \in CompletedBy(p)[j] <=> k <= j
    BY LayerIsPlace
  <2> HIDE DEF k
  <2>2. QED
    BY <1>2, <2>1
<1> HIDE DEF k
<1>4. s \in Ready(p, CompletedBy(p)[k-1])
  BY <1>2, <1>3, LayersStep
<1>5. d \in CompletedBy(p)[k-1]
  BY <1>4 DEF Ready, ReadyAmong
<1>6. LayerOf(p, d) \in 1..Len(p) /\ LayerOf(p, d) <= k - 1
  BY <1>1, <1>2, <1>5, LayerIsPlace
<1>7. QED
  BY <1>1, <1>2, <1>6 DEF k

(***************************************************************************)
(* What becomes ready when k groups are completed is the next layer.       *)
(***************************************************************************)
LEMMA ReadyIsNextLayer ==
    ASSUME NEW p, ValidPlan(p), Len(p) \in Nat, DOMAIN p = 1..Len(p),
           NEW k \in Nat, NEW s \in Ready(p, CompletedBy(p)[k])
    PROVE  s \in Ids(p) /\ LayerOf(p, s) = k + 1
<1>1. s \in Ids(p) /\ s \notin CompletedBy(p)[k]
  BY DEF Ready, ReadyAmong
<1>2. s \in CompletedBy(p)[k+1] /\ k + 1 \in Nat
  BY LayersStep
<1>3. /\ LayerOf(p, s) \in 1..Len(p)
      /\ LayerOf(p, s) <= k + 1 /\ ~ (LayerOf(p, s) <= k)
  BY <1>1, <1>2, LayerIsPlace
<1>4. QED
  BY <1>1, <1>3

-----------------------------------------------------------------------------
(***************************************************************************)
(* The write loop finds the first path as long as one is pending.          *)
(***************************************************************************)
LEMMA FirstPathIsPending ==
    ASSUME NEW pending \in SUBSET Path, pending # {}
    PROVE  /\ FirstPath(pending) \in pending
           /\ \A q \in pending : Rank[FirstPath(pending)] <= Rank[q]
<1> DEFINE ranks == {Rank[p] : p \in pending}
<1>1. ranks \in SUBSET Nat /\ ranks # {}
  BY PathAssumption
<1>2. PICK n \in ranks : \A m \in ranks : n <= m
  BY <1>1, LeastNat
<1>3. \E p \in pending : \A q \in pending : Rank[p] <= Rank[q]
  BY <1>2
<1>4. QED
  BY <1>3 DEF FirstPath

(***************************************************************************)
(* A snapshot gives each path a content or nothing.                        *)
(***************************************************************************)
LEMMA CaptureType ==
    ASSUME NEW tree \in Tree
    PROVE  Capture(tree) \in Files
BY DEF Tree, Capture, Files

(***************************************************************************)
(* The difference of two snapshots is a change set.                        *)
(***************************************************************************)
LEMMA ChangesSinceType ==
    ASSUME NEW updated \in Files, NEW baseline \in Files
    PROVE  ChangesSince(updated, baseline) \in ChangeSet
<1> DEFINE P == {q \in Path : updated[q] # baseline[q]}
<1>1. P \in SUBSET Path
  OBVIOUS
<1>2. ChangesSince(updated, baseline) \in [P -> Content \cup {Missing}]
  BY DEF ChangesSince, Files
<1>3. QED
  BY <1>1, <1>2 DEF ChangeSet

(***************************************************************************)
(* The entries of a change set are contents or deletions.                  *)
(***************************************************************************)
LEMMA ChangeSetType ==
    ASSUME NEW c \in ChangeSet
    PROVE  /\ DOMAIN c \subseteq Path
           /\ \A p \in DOMAIN c : c[p] \in Content \cup {Missing}
BY DEF ChangeSet

(***************************************************************************)
(* A write that does not raise takes a tree to a tree: the parents of the  *)
(* file are directories afterwards, and nothing hangs beneath a file.      *)
(***************************************************************************)
LEMMA WriteFileType ==
    ASSUME NEW tree \in Tree, NEW p \in Path,
           NEW content \in Content \cup {Missing}, CanWrite(tree, p)
    PROVE  WriteFile(tree, p, content) \in Tree
<1> DEFINE new == WriteFile(tree, p, content)
<1>1. /\ tree \in [Path -> Content \cup {Missing, Directory}]
      /\ \A q \in Path : tree[q] # Missing =>
             \A r \in Above[q] : tree[r] = Directory
      /\ tree[p] # Directory
  BY DEF Tree, CanWrite
<1>2. /\ \A q \in Path : Above[q] \subseteq Path
      /\ \A q \in Path : q \notin Above[q]
      /\ \A q \in Above[p] : p \notin Above[q] /\ Above[q] \subseteq Above[p]
      /\ Directory # Missing
  <2>1. \A q \in Path : \A r \in Above[q] : Rank[r] < Rank[q] /\ r \in Path
    BY PathAssumption
  <2>2. Rank \in [Path -> Nat]
    BY PathAssumption
  <2>3. \A q \in Path : q \notin Above[q]
    BY <2>1, <2>2
  <2>4. \A q \in Above[p] : Above[q] \subseteq Above[p]
    BY PathAssumption
  <2>5. QED
    BY <2>1, <2>3, <2>4, PathAssumption
<1>3. CASE content = Missing
  <2>1. new = [tree EXCEPT ![p] = Missing]
    BY <1>3 DEF WriteFile
  <2>2. new \in [Path -> Content \cup {Missing, Directory}]
    BY <2>1, <1>1
  <2>3. ASSUME NEW q \in Path, new[q] # Missing, NEW r \in Above[q]
        PROVE  new[r] = Directory
    <3>1. q # p /\ tree[q] # Missing
      BY <2>1, <2>3, <1>1
    <3>2. tree[r] = Directory /\ r \in Path
      BY <3>1, <2>3, <1>1, <1>2
    <3>3. r # p
      BY <3>2, <1>1
    <3>4. QED
      BY <2>1, <3>2, <3>3, <1>1
  <2>4. QED
    BY <2>2, <2>3 DEF Tree
<1>4. CASE content # Missing
  <2>1. new = [q \in Path |-> IF q = p THEN content
                              ELSE IF q \in Above[p] THEN Directory
                              ELSE tree[q]]
    BY <1>4 DEF WriteFile
  <2>2. new \in [Path -> Content \cup {Missing, Directory}]
    BY <2>1, <1>1
  <2>3. ASSUME NEW q \in Path, new[q] # Missing, NEW r \in Above[q]
        PROVE  new[r] = Directory
    <3>1. r \in Path
      BY <1>2
    <3>2. CASE q = p
      BY <3>1, <3>2, <2>1, <1>2
    <3>3. CASE q # p /\ q \in Above[p]
      BY <3>1, <3>3, <2>1, <1>2
    <3>4. CASE q # p /\ q \notin Above[p]
      <4>1. tree[r] = Directory
        BY <3>4, <2>1, <2>3, <1>1
      <4>2. r # p
        BY <4>1, <1>1
      <4>3. QED
        BY <3>1, <4>1, <4>2, <2>1
    <3>5. QED
      BY <3>2, <3>3, <3>4
  <2>4. QED
    BY <2>2, <2>3 DEF Tree
<1>5. QED
  BY <1>3, <1>4

(***************************************************************************)
(* A write changes the file it is about and no other: the directories it   *)
(* makes take no file's place.                                             *)
(***************************************************************************)
LEMMA WriteFileChangesOneFile ==
    ASSUME NEW tree \in Tree, NEW p \in Path,
           NEW content \in Content \cup {Missing}, CanWrite(tree, p)
    PROVE  Capture(WriteFile(tree, p, content)) =
               [Capture(tree) EXCEPT ![p] = content]
<1> DEFINE new == WriteFile(tree, p, content)
<1>1. /\ tree \in [Path -> Content \cup {Missing, Directory}]
      /\ \A q \in Above[p] : tree[q] \notin Content
      /\ Missing \notin Content /\ Directory \notin Content
  BY PathAssumption DEF Tree, CanWrite
<1>2. \A q \in Path :
          (IF new[q] \in Content THEN new[q] ELSE Missing) =
              IF q = p THEN content
              ELSE IF tree[q] \in Content THEN tree[q] ELSE Missing
  <2>1. CASE content = Missing
    BY <1>1, <2>1 DEF WriteFile
  <2>2. CASE content # Missing
    BY <1>1, <2>2 DEF WriteFile
  <2>3. QED
    BY <2>1, <2>2
<1> HIDE DEF new
<1>3. Capture(new) = [q \in Path |-> IF q = p THEN content
                                     ELSE Capture(tree)[q]]
  BY <1>2 DEF Capture
<1>4. QED
  BY <1>3 DEF Capture, new

(***************************************************************************)
(* A write that raises leaves a tree, in which no other file changed.      *)
(***************************************************************************)
LEMMA FailedWritesType ==
    ASSUME NEW tree \in Tree, NEW p \in Path, NEW content,
           NEW t \in FailedWrites(tree, p, content)
    PROVE  /\ t \in Tree
           /\ \A q \in Path \ {p} : Capture(t)[q] = Capture(tree)[q]
<1>1. CASE t = tree
  BY <1>1
<1>2. CASE t # tree
  <2>1. /\ t \in Tree /\ CanWrite(tree, p)
        /\ \A q \in Above[p] : t[q] \in {tree[q], Directory}
        /\ \A q \in Path \ (Above[p] \cup {p}) : t[q] = tree[q]
    BY <1>2 DEF FailedWrites
  <2>2. ASSUME NEW q \in Path \ {p}
        PROVE  Capture(t)[q] = Capture(tree)[q]
    <3>1. CASE q \in Above[p]
      <4>1. tree[q] \notin Content /\ t[q] \notin Content
        BY <2>1, <3>1, PathAssumption DEF CanWrite
      <4>2. QED
        BY <4>1 DEF Capture
    <3>2. CASE q \notin Above[p]
      BY <2>1, <3>2 DEF Capture
    <3>3. QED
      BY <3>1, <3>2
  <2>3. QED
    BY <2>1, <2>2
<1>3. QED
  BY <1>1, <1>2

(***************************************************************************)
(* A merge has an entry for the paths of its change sets, and no others.   *)
(***************************************************************************)
LEMMA MergeOfType ==
    ASSUME NEW C \in SUBSET ChangeSet
    PROVE  /\ DOMAIN MergeOf(C) = UNION {DOMAIN c : c \in C}
           /\ DOMAIN MergeOf(C) \subseteq Path
           /\ \A p \in DOMAIN MergeOf(C) : MergeOf(C)[p] \in Content \cup {Missing}
<1>1. DOMAIN MergeOf(C) = UNION {DOMAIN c : c \in C}
  BY DEF MergeOf
<1>2. DOMAIN MergeOf(C) \subseteq Path
  BY <1>1, ChangeSetType
<1>3. ASSUME NEW p \in DOMAIN MergeOf(C)
      PROVE  MergeOf(C)[p] \in Content \cup {Missing}
  <2> DEFINE c == CHOOSE d \in C : p \in DOMAIN d
  <2>1. c \in C /\ p \in DOMAIN c
    BY <1>1
  <2>2. MergeOf(C)[p] = c[p]
    BY <1>1 DEF MergeOf
  <2> HIDE DEF c
  <2>3. QED
    BY <2>1, <2>2, ChangeSetType
<1>4. QED
  BY <1>1, <1>2, <1>3

(***************************************************************************)
(* Without a conflict the merge says of a path what each owner of the path *)
(* says.                                                                   *)
(***************************************************************************)
LEMMA MergeOfAgrees ==
    ASSUME NEW C \in SUBSET ChangeSet, ~Conflict(C),
           NEW c \in C, NEW p \in DOMAIN c
    PROVE  p \in DOMAIN MergeOf(C) /\ MergeOf(C)[p] = c[p]
<1> DEFINE d == CHOOSE e \in C : p \in DOMAIN e
<1>1. d \in C /\ p \in DOMAIN d
  OBVIOUS
<1>2. p \in DOMAIN MergeOf(C) /\ MergeOf(C)[p] = d[p]
  BY DEF MergeOf
<1> HIDE DEF d
<1>3. d[p] = c[p]
  BY <1>1 DEF Conflict, Disagree
<1>4. QED
  BY <1>2, <1>3

-----------------------------------------------------------------------------
(***************************************************************************)
(* A finite set has more members than a part of it.                        *)
(***************************************************************************)
LEMMA FewerLeft ==
    ASSUME NEW S, IsFiniteSet(S), NEW T \in SUBSET S
    PROVE  /\ Cardinality(T) \in Nat /\ Cardinality(S) \in Nat
           /\ Cardinality(T) <= Cardinality(S)
           /\ T # S => Cardinality(T) < Cardinality(S)
<1>1. /\ IsFiniteSet(T) /\ Cardinality(T) <= Cardinality(S)
      /\ Cardinality(S) = Cardinality(T) => S = T
  BY FS_Subset
<1>2. Cardinality(T) \in Nat /\ Cardinality(S) \in Nat
  BY <1>1, FS_CardinalityType
<1>3. QED
  BY <1>1, <1>2
=============================================================================
