------------------------ MODULE SequentialAgentProofs ------------------------
(***************************************************************************)
(* For every set of subtasks, plans and limits: the execution order is a   *)
(* topological sort of the whole plan, the first failure is the last thing *)
(* that happens, and the run implements PlanExecution.                     *)
(***************************************************************************)
EXTENDS SequentialAgent, StrategyLemmas

(***************************************************************************)
(* A plan, or none, is a sequence of subtasks with known names.            *)
(***************************************************************************)
LEMMA PlanType ==
    ASSUME NEW p \in Plans \cup {<< >>}
    PROVE  /\ p \in Seq(SubtaskSpec(Ident)) /\ Ids(p) \subseteq Ident
           /\ Len(p) \in Nat /\ DOMAIN p = 1..Len(p)
<1>1. CASE p \in Plans
  <2>1. p \in Seq(SubtaskSpec(Ident))
    BY <1>1, AgentAssumption
  <2>2. \A i \in DOMAIN p : p[i] \in SubtaskSpec(Ident)
    BY <2>1
  <2>3. QED
    BY <2>1, <2>2 DEF Ids, SubtaskSpec
<1>2. CASE p = << >>
  <2>1. p \in Seq(SubtaskSpec(Ident)) /\ DOMAIN p = {}
    BY <1>2
  <2>2. QED
    BY <2>1 DEF Ids
<1>3. QED
  BY <1>1, <1>2

-----------------------------------------------------------------------------
(***************************************************************************)
(* RunsBefore orders the subtasks of a valid plan strictly and totally.    *)
(***************************************************************************)
LEMMA RunsBeforeIsOrder ==
    ASSUME NEW p, ValidPlan(p), Len(p) \in Nat, DOMAIN p = 1..Len(p)
    PROVE  /\ \A s \in Ids(p) : ~RunsBefore(p, s, s)
           /\ \A s, t, u \in Ids(p) :
                  RunsBefore(p, s, t) /\ RunsBefore(p, t, u) => RunsBefore(p, s, u)
           /\ \A s, t \in Ids(p) :
                  s # t => RunsBefore(p, s, t) \/ RunsBefore(p, t, s)
<1>1. \A s \in Ids(p) : LayerOf(p, s) \in Nat
  BY LayerIsPlace
<1>2. \A s \in Ids(p) : ~Precedes(p, s, s)
  BY DEF Precedes, ValidPlan, IdsAreUnique
<1>3. \A s, t, u : Precedes(p, s, t) /\ Precedes(p, t, u) => Precedes(p, s, u)
  BY DEF Precedes, ValidPlan, IdsAreUnique
<1>4. \A s, t \in Ids(p) : s # t => Precedes(p, s, t) \/ Precedes(p, t, s)
  BY DEF Precedes, Ids
<1>5. QED
  BY <1>1, <1>2, <1>3, <1>4 DEF RunsBefore

(***************************************************************************)
(* execution_order lists every subtask of the plan exactly once, and a     *)
(* subtask before those that RunsBefore puts after it.  The number of      *)
(* subtasks before a subtask grows along the order, so no two subtasks     *)
(* have the same one, and as many numbers as subtasks are available.       *)
(***************************************************************************)
LEMMA OrderIsSorted ==
    ASSUME NEW p, ValidPlan(p), Len(p) \in Nat, DOMAIN p = 1..Len(p)
    PROVE  /\ \A i \in 1..Len(p) : ExecutionOrder(p)[i] \in Ids(p)
           /\ \A s \in Ids(p) : \E i \in 1..Len(p) : ExecutionOrder(p)[i] = s
           /\ \A i, j \in 1..Len(p) :
                  RunsBefore(p, ExecutionOrder(p)[i], ExecutionOrder(p)[j]) <=> i < j
<1> DEFINE N == Len(p)
           Before(s) == {t \in Ids(p) : RunsBefore(p, t, s)}
           rank == [s \in Ids(p) |-> Cardinality(Before(s))]
<1>1. IsFiniteSet(Ids(p)) /\ Cardinality(Ids(p)) = N
  <2> DEFINE name == [i \in 1..N |-> p[i].id]
  <2>1. name \in Bijection(1..N, Ids(p))
    <3>1. name \in [1..N -> Ids(p)]
      BY DEF Ids
    <3>2. \A i, j \in 1..N : name[i] = name[j] => i = j
      BY DEF ValidPlan, IdsAreUnique
    <3>3. \A s \in Ids(p) : \E i \in 1..N : name[i] = s
      BY DEF Ids
    <3> HIDE DEF name
    <3>4. name \in Injection(1..N, Ids(p))
      BY <3>1, <3>2 DEF Injection, IsInjective
    <3>5. name \in Surjection(1..N, Ids(p))
      BY <3>1, <3>3 DEF Surjection
    <3>6. QED
      BY <3>4, <3>5 DEF Bijection
  <2>2. IsFiniteSet(1..N) /\ Cardinality(1..N) = N
    <3>1. IsFiniteSet(1..N) /\ Cardinality(1..N) = IF 1 > N THEN 0 ELSE N - 1 + 1
      BY FS_Interval
    <3>2. QED
      BY <3>1
  <2>3. ExistsBijection(1..N, Ids(p))
    BY <2>1 DEF ExistsBijection
  <2>4. QED
    BY <2>2, <2>3, FS_Bijection
<1>2. ASSUME NEW s \in Ids(p)
      PROVE  IsFiniteSet(Before(s)) /\ Cardinality(Before(s)) \in 0..(N-1)
  <2>1. Before(s) \in SUBSET Ids(p) /\ s \in Ids(p) /\ s \notin Before(s)
    BY RunsBeforeIsOrder
  <2>2. IsFiniteSet(Before(s)) /\ Cardinality(Before(s)) <= N
        /\ (N = Cardinality(Before(s)) => Ids(p) = Before(s))
    BY <1>1, <2>1, FS_Subset
  <2>3. Cardinality(Before(s)) \in Nat
    BY <2>2, FS_CardinalityType
  <2>4. Cardinality(Before(s)) # N
    BY <2>1, <2>2
  <2>5. QED
    BY <2>2, <2>3, <2>4
<1>3. ASSUME NEW s \in Ids(p), NEW t \in Ids(p), RunsBefore(p, s, t)
      PROVE  Cardinality(Before(s)) < Cardinality(Before(t))
  <2>1. Before(s) \cup {s} \in SUBSET Before(t) /\ s \notin Before(s)
    BY <1>3, RunsBeforeIsOrder
  <2>2. Cardinality(Before(s) \cup {s}) = Cardinality(Before(s)) + 1
    BY <1>2, <2>1, FS_AddElement
  <2>3. Cardinality(Before(s) \cup {s}) <= Cardinality(Before(t))
    BY <1>2, <2>1, FS_Subset
  <2> HIDE DEF Before
  <2>4. Cardinality(Before(s)) \in 0..(N-1) /\ Cardinality(Before(t)) \in 0..(N-1)
    BY <1>2
  <2>5. QED
    BY <2>2, <2>3, <2>4
<1>4. \A s \in Ids(p) : rank[s] = Cardinality(Before(s))
  OBVIOUS
<1>5. DOMAIN rank = Ids(p) /\ rank \in [Ids(p) -> 0..(N-1)]
  BY <1>2
<1> HIDE DEF rank, Before
<1>6. \A s, t \in Ids(p) : rank[s] = rank[t] => s = t
  <2> SUFFICES ASSUME NEW s \in Ids(p), NEW t \in Ids(p), rank[s] = rank[t], s # t
               PROVE  FALSE
    OBVIOUS
  <2>1. RunsBefore(p, s, t) \/ RunsBefore(p, t, s)
    BY RunsBeforeIsOrder
  <2>2. rank[s] \in 0..(N-1) /\ rank[t] \in 0..(N-1)
    BY <1>5
  <2>3. rank[s] < rank[t] \/ rank[t] < rank[s]
    BY <1>3, <1>4, <2>1
  <2>4. QED
    BY <2>2, <2>3
<1>7. \A n \in 0..(N-1) : \E s \in Ids(p) : rank[s] = n
  <2>1. rank \in Injection(Ids(p), 0..(N-1))
    BY <1>5, <1>6 DEF Injection, IsInjective
  <2>2. IsFiniteSet(0..(N-1)) /\ Cardinality(0..(N-1)) = N
    <3>1. N - 1 \in Int /\ 0 \in Int
      BY <1>1
    <3>2. /\ IsFiniteSet(0..(N-1))
          /\ Cardinality(0..(N-1)) = IF 0 > N - 1 THEN 0 ELSE (N - 1) - 0 + 1
      BY ONLY <3>1, FS_Interval
    <3>3. QED
      BY <1>1, <3>2
  <2>3. rank \in Surjection(Ids(p), 0..(N-1))
    BY <1>1, <2>1, <2>2, FS_Injection
  <2>4. QED
    BY <2>3 DEF Surjection
<1> DEFINE o == ExecutionOrder(p)
<1>8. ASSUME NEW i \in 1..N PROVE o[i] \in Ids(p) /\ rank[o[i]] = i - 1
  <2>1. i - 1 \in 0..(N-1)
    OBVIOUS
  <2>2. \E s \in Ids(p) : Cardinality(Before(s)) = i - 1
    BY <1>4, <1>7, <2>1
  <2>3. o[i] = CHOOSE s \in Ids(p) : Cardinality(Before(s)) = i - 1
    BY DEF ExecutionOrder, Before
  <2>4. QED
    BY <1>4, <2>2, <2>3
<1> HIDE DEF o
<1>9. ASSUME NEW s \in Ids(p) PROVE \E i \in 1..N : o[i] = s
  <2>1. rank[s] \in 0..(N-1)
    BY <1>5
  <2>2. rank[s] + 1 \in 1..N /\ (rank[s] + 1) - 1 = rank[s]
    BY <2>1
  <2>3. rank[o[rank[s] + 1]] = rank[s] /\ o[rank[s] + 1] \in Ids(p)
    BY <1>8, <2>2
  <2>4. QED
    BY <1>6, <2>2, <2>3
<1>10. ASSUME NEW i \in 1..N, NEW j \in 1..N
       PROVE  RunsBefore(p, o[i], o[j]) <=> i < j
  <2>1. /\ o[i] \in Ids(p) /\ rank[o[i]] = i - 1
        /\ o[j] \in Ids(p) /\ rank[o[j]] = j - 1
    BY <1>8
  <2>2. RunsBefore(p, o[i], o[j]) => i < j
    BY <1>3, <1>4, <2>1
  <2>3. ASSUME i < j PROVE RunsBefore(p, o[i], o[j])
    <3>1. o[i] # o[j]
      BY <2>1, <2>3
    <3>2. RunsBefore(p, o[j], o[i]) => j - 1 < i - 1
      BY <1>3, <1>4, <2>1
    <3>3. QED
      BY <2>1, <2>3, <3>1, <3>2, RunsBeforeIsOrder
  <2>4. QED
    BY <2>2, <2>3
<1>11. QED
  BY <1>8, <1>9, <1>10 DEF o

(***************************************************************************)
(* The prerequisites of a subtask come before it in the order.             *)
(***************************************************************************)
LEMMA OrderIsTopological ==
    ASSUME NEW p, ValidPlan(p), Len(p) \in Nat, DOMAIN p = 1..Len(p),
           NEW i \in 1..Len(p), NEW d \in DepsOf(p, ExecutionOrder(p)[i])
    PROVE  \E j \in 1..Len(p) : j < i /\ ExecutionOrder(p)[j] = d
<1>1. ExecutionOrder(p)[i] \in Ids(p)
  BY OrderIsSorted
<1>2. d \in Ids(p) /\ RunsBefore(p, d, ExecutionOrder(p)[i])
  BY <1>1, DependencyIsEarlier DEF RunsBefore
<1>3. PICK j \in 1..Len(p) : ExecutionOrder(p)[j] = d
  BY <1>2, OrderIsSorted
<1>4. j < i
  BY <1>2, <1>3, OrderIsSorted
<1>5. QED
  BY <1>3, <1>4

-----------------------------------------------------------------------------
(***************************************************************************)
(* The types of the state.                                                 *)
(***************************************************************************)
TypeInv ==
    /\ pc \in {"planning", "choosing", "working", "returned", "raised"}
    /\ plan \in Plans \cup {<< >>}
    /\ answered \in BOOLEAN
    /\ todo \in Seq(Ids(plan))
    /\ completed \in Seq(Ids(plan))
    /\ wstate \in [Ident -> {"idle", "running", "completed", "raised"}
                                \cup Failing]
    /\ calls \in [Ident -> 0..MaxSteps]
    /\ status \in {"none", "completed"} \cup Failing

(***************************************************************************)
(* The loop over the execution order has consumed a prefix of it: the list *)
(* completed and the subtasks to do are the two parts of the order.        *)
(***************************************************************************)
Order == ExecutionOrder(plan)

Ended == Len(completed)

QueueInv ==
    /\ plan # << >> => ValidPlan(plan)
    /\ Ended + Len(todo) = Len(plan)
    /\ \A i \in 1..Ended : completed[i] = Order[i]
    /\ \A i \in 1..Len(todo) : todo[i] = Order[Ended + i]
    /\ pc = "planning" => plan = << >>
    /\ pc = "working" => todo # << >>
    /\ status = "completed" => pc = "returned" /\ todo = << >>
    /\ pc \in {"planning", "choosing", "working", "raised"} => status = "none"

(***************************************************************************)
(* The state of the worker at each place of the order.                     *)
(***************************************************************************)
WorkerInv ==
    /\ \A s \in Ident \ Ids(plan) : wstate[s] = "idle"
    /\ \A i \in 1..Len(plan) :
           /\ i < Ended => wstate[Order[i]] = "completed"
           /\ i = Ended =>
                  IF pc = "returned" THEN wstate[Order[i]] = status
                                     ELSE wstate[Order[i]] = "completed"
           /\ i = Ended + 1 =>
                  wstate[Order[i]] = CASE pc = "working" -> "running"
                                       [] pc = "raised" -> "raised"
                                       [] OTHER -> "idle"
           /\ i > Ended + 1 => wstate[Order[i]] = "idle"
    /\ \A s \in Ident : wstate[s] = "idle" => calls[s] = 0
    /\ \A s \in Ident : wstate[s] = "running" => calls[s] < MaxSteps

-----------------------------------------------------------------------------
(***************************************************************************)
(* No subtask has two places in the order.                                 *)
(***************************************************************************)
LEMMA OrderIsInjective ==
    ASSUME NEW p, ValidPlan(p), Len(p) \in Nat, DOMAIN p = 1..Len(p),
           NEW i \in 1..Len(p), NEW j \in 1..Len(p),
           ExecutionOrder(p)[i] = ExecutionOrder(p)[j]
    PROVE  i = j
<1> DEFINE o == ExecutionOrder(p)
<1>1. /\ o[i] \in Ids(p) /\ o[i] = o[j]
      /\ RunsBefore(p, o[i], o[j]) <=> i < j
      /\ RunsBefore(p, o[j], o[i]) <=> j < i
  BY OrderIsSorted
<1>2. ~RunsBefore(p, o[i], o[i])
  BY <1>1, RunsBeforeIsOrder
<1> HIDE DEF o
<1>3. ~ (i < j) /\ ~ (j < i)
  BY <1>1, <1>2
<1>4. QED
  BY <1>3

(***************************************************************************)
(* The first subtask to do is at the place after the completed list, and   *)
(* at no other.                                                            *)
(***************************************************************************)
LEMMA CurrentSubtask ==
    ASSUME TypeInv, QueueInv, todo # << >>
    PROVE  /\ Ended \in Nat /\ Ended + 1 \in 1..Len(plan) /\ Len(plan) \in Nat
           /\ Head(todo) = Order[Ended + 1]
           /\ Head(todo) \in Ids(plan) /\ Head(todo) \in Ident
           /\ Ids(plan) \subseteq Ident
           /\ \A i \in 1..Len(plan) : Order[i] \in Ident
           /\ \A i \in 1..Len(plan) : i # Ended + 1 => Order[i] # Head(todo)
<1>1. /\ Ids(plan) \subseteq Ident /\ Len(plan) \in Nat
      /\ DOMAIN plan = 1..Len(plan)
  BY PlanType DEF TypeInv
<1>2. Ended \in Nat /\ Len(todo) \in Nat /\ Len(todo) # 0
  BY DEF TypeInv, Ended
<1>3. Ended + Len(todo) = Len(plan)
  BY DEF QueueInv
<1>4. Ended + 1 \in 1..Len(plan) /\ 1 \in 1..Len(todo)
  BY <1>1, <1>2, <1>3
<1>5. todo[1] = Order[Ended + 1]
  BY <1>4 DEF QueueInv
<1>6. Head(todo) = todo[1]
  BY DEF TypeInv
<1>7. plan # << >>
  BY <1>4
<1>8. ValidPlan(plan)
  BY <1>7 DEF QueueInv
<1>9. \A i \in 1..Len(plan) : Order[i] \in Ids(plan)
  BY <1>1, <1>8, OrderIsSorted DEF Order
<1>10. \A i \in 1..Len(plan) : Order[i] = Order[Ended + 1] => i = Ended + 1
  BY <1>1, <1>4, <1>8, OrderIsInjective DEF Order
<1>11. QED
  BY <1>1, <1>2, <1>4, <1>5, <1>6, <1>9, <1>10

(***************************************************************************)
(* Before there is a plan nothing is queued, completed or started.         *)
(***************************************************************************)
LEMMA NothingPlanned ==
    ASSUME TypeInv, QueueInv, WorkerInv, plan = << >>
    PROVE  /\ Ids(plan) = {} /\ todo = << >> /\ completed = << >>
           /\ \A s \in Ident : wstate[s] = "idle"
<1>1. Ids(plan) = {} /\ Len(plan) = 0
  BY DEF Ids
<1>2. Len(completed) \in Nat /\ Len(todo) \in Nat
  BY DEF TypeInv
<1>3. Len(completed) + Len(todo) = 0
  BY <1>1 DEF QueueInv, Ended
<1>4. Len(completed) = 0 /\ Len(todo) = 0
  BY <1>2, <1>3
<1>5. todo = << >> /\ completed = << >>
  BY <1>4 DEF TypeInv
<1>6. QED
  BY <1>1, <1>5 DEF WorkerInv

(***************************************************************************)
(* A run starts with nothing planned.                                      *)
(***************************************************************************)
LEMMA InitInv == Init => TypeInv /\ QueueInv /\ WorkerInv
<1> SUFFICES ASSUME Init
             PROVE  TypeInv /\ QueueInv /\ WorkerInv
  OBVIOUS
<1>1. Len(completed) = 0 /\ Len(todo) = 0 /\ Len(plan) = 0 /\ Ids(plan) = {}
  BY DEF Init, Ids
<1>2. MaxSteps \in Nat \ {0}
  BY AgentAssumption
<1>3. TypeInv
  <2>1. calls \in [Ident -> 0..MaxSteps]
    BY <1>2 DEF Init
  <2>2. completed \in Seq(Ids(plan)) /\ todo \in Seq(Ids(plan))
    BY DEF Init
  <2>3. wstate \in [Ident -> {"idle", "running", "completed", "raised"}
                                \cup Failing]
    BY DEF Init
  <2>4. QED
    BY <1>2, <2>1, <2>2, <2>3 DEF Init, TypeInv
<1>4. QueueInv
  BY <1>1 DEF Init, QueueInv, Ended
<1>5. WorkerInv
  BY <1>1, <1>2 DEF Init, WorkerInv, Ended
<1>6. QED
  BY <1>3, <1>4, <1>5

(***************************************************************************)
(* The execution order of a plan is a list of its subtasks.                *)
(***************************************************************************)
LEMMA OrderType ==
    ASSUME NEW p \in Plans, ValidPlan(p)
    PROVE  ExecutionOrder(p) \in Seq(Ids(p)) /\ Len(ExecutionOrder(p)) = Len(p)
<1>1. Len(p) \in Nat /\ DOMAIN p = 1..Len(p)
  BY PlanType
<1>2. /\ \A i \in 1..Len(p) : ExecutionOrder(p)[i] \in Ids(p)
      /\ ExecutionOrder(p) = [i \in 1..Len(p) |-> ExecutionOrder(p)[i]]
  <2>1. \A i \in 1..Len(p) : ExecutionOrder(p)[i] \in Ids(p)
    BY <1>1, OrderIsSorted
  <2> DEFINE next(i) ==
                 CHOOSE s \in Ids(p) :
                     Cardinality({t \in Ids(p) : RunsBefore(p, t, s)}) = i - 1
  <2>2. ExecutionOrder(p) = [i \in 1..Len(p) |-> next(i)]
    BY DEF ExecutionOrder
  <2> HIDE DEF next
  <2>3. QED
    BY <2>1, <2>2
<1> DEFINE o == ExecutionOrder(p)
<1> HIDE DEF o
<1>3. o \in [1..Len(p) -> Ids(p)]
  BY <1>2 DEF o
<1>4. o \in Seq(Ids(p)) /\ Len(o) = Len(p)
  <2>1. \A n \in Nat : \A f \in [1..n -> Ids(p)] :
            f \in Seq(Ids(p)) /\ Len(f) = n
    OBVIOUS
  <2>2. QED
    BY ONLY <1>1, <1>3, <2>1
<1>5. QED
  BY <1>4 DEF o

(***************************************************************************)
(* Every step keeps the types.                                             *)
(***************************************************************************)
LEMMA TypePreserved ==
    TypeInv /\ QueueInv /\ WorkerInv /\ [Next]_vars => TypeInv'
<1> SUFFICES ASSUME TypeInv, QueueInv, WorkerInv, [Next]_vars PROVE TypeInv'
  OBVIOUS
<1>p. /\ pc = "planning" => plan = << >>
      /\ pc = "working" => todo # << >>
  BY DEF QueueInv
<1>e. ASSUME pc = "working", NEW result \in {"completed"} \cup Failing,
             EndSubtask(result)
      PROVE  /\ pc' \in {"choosing", "returned"}
             /\ todo' \in Seq(Ids(plan)) /\ completed' \in Seq(Ids(plan))
             /\ wstate' \in [Ident -> {"idle", "running", "completed",
                                       "raised"} \cup Failing]
             /\ status' \in {"none", "completed"} \cup Failing
  <2>1. Head(todo) \in Ids(plan) /\ todo # << >>
    BY <1>e, <1>p, CurrentSubtask
  <2>2. todo' = Tail(todo) /\ completed' = Append(completed, Head(todo))
    BY <1>e DEF EndSubtask
  <2>3. todo' \in Seq(Ids(plan)) /\ completed' \in Seq(Ids(plan))
    BY <2>1, <2>2 DEF TypeInv
  <2>4. wstate' \in [Ident -> {"idle", "running", "completed", "raised"}
                                 \cup Failing]
    BY <1>e DEF EndSubtask, TypeInv
  <2>5. /\ pc' \in {"choosing", "returned"}
        /\ status' \in {"none", "completed"} \cup Failing
    BY <1>e DEF EndSubtask, Return, TypeInv
  <2>6. QED
    BY <2>3, <2>4, <2>5
<1>c. ASSUME pc = "working"
      PROVE  [calls EXCEPT ![Head(todo)] = @ + 1] \in [Ident -> 0..MaxSteps]
  <2>1. Head(todo) \in Ident /\ Head(todo) = Order[Ended + 1]
        /\ Ended + 1 \in 1..Len(plan)
    BY <1>c, <1>p, CurrentSubtask
  <2>2. wstate[Head(todo)] = "running"
    BY <1>c, <2>1 DEF WorkerInv
  <2>3. calls[Head(todo)] < MaxSteps /\ calls[Head(todo)] \in 0..MaxSteps
        /\ MaxSteps \in Nat
    BY <2>1, <2>2, AgentAssumption DEF WorkerInv, TypeInv
  <2>4. calls[Head(todo)] + 1 \in 0..MaxSteps
    BY <2>3
  <2>5. QED
    BY <2>4 DEF TypeInv
<1>1. CASE PlanRequestFails \/ PlanRejected \/ PlanRaises
  BY <1>1 DEF PlanRequestFails, PlanRejected, PlanRaises, Return, WorkVars,
     TypeInv, Failing
<1>2. CASE PlanAccepted
  <2>1. /\ plan' \in Plans /\ ValidPlan(plan') /\ todo' = ExecutionOrder(plan')
        /\ answered' = TRUE /\ pc' = "choosing" /\ pc = "planning"
        /\ UNCHANGED <<completed, wstate, calls, status>>
    BY <1>2 DEF PlanAccepted
  <2>2. completed = << >>
    BY <2>1, <1>p, NothingPlanned
  <2>3. todo' \in Seq(Ids(plan'))
    BY <2>1, OrderType
  <2>4. completed' \in Seq(Ids(plan'))
    BY <2>1, <2>2
  <2>5. QED
    BY <2>1, <2>3, <2>4 DEF TypeInv
<1>3. CASE StartSubtask
  BY <1>3 DEF StartSubtask, TypeInv
<1>4. CASE WorkerAnswers
  <2>1. /\ pc = "working" /\ EndSubtask("completed")
        /\ calls' = [calls EXCEPT ![Head(todo)] = @ + 1]
        /\ UNCHANGED <<plan, answered>>
    BY <1>4 DEF WorkerAnswers, TypeInv
  <2>2. QED
    BY <2>1, <1>e, <1>c DEF TypeInv
<1>5. CASE WorkerUsesTools
  <2>1. IF AtLimit(calls[Head(todo)] + 1)
        THEN EndSubtask("max_steps")
        ELSE UNCHANGED <<pc, todo, completed, wstate, status>>
    BY <1>5 DEF WorkerUsesTools
  <2>2. /\ pc = "working"
        /\ calls' = [calls EXCEPT ![Head(todo)] = @ + 1]
        /\ UNCHANGED <<plan, answered>>
    BY <1>5, AgentAssumption DEF WorkerUsesTools
  <2>3. CASE EndSubtask("max_steps")
    BY <2>1, <2>2, <2>3, <1>e, <1>c DEF TypeInv, Failing
  <2>4. CASE UNCHANGED <<pc, todo, completed, wstate, status>>
    BY <2>1, <2>2, <2>4, <1>c DEF TypeInv
  <2>5. QED
    BY <2>1, <2>3, <2>4
<1>6. CASE WorkerRequestFails
  <2>1. /\ pc = "working" /\ EndSubtask("failed")
        /\ UNCHANGED <<plan, answered, calls>>
    BY <1>6 DEF WorkerRequestFails, TypeInv
  <2>2. QED
    BY <2>1, <1>e DEF TypeInv, Failing
<1>7. CASE WorkerRaises
  BY <1>7 DEF WorkerRaises, TypeInv
<1>8. CASE Complete
  BY <1>8 DEF Complete, Return, WorkVars, TypeInv
<1>9. CASE UNCHANGED vars
  BY <1>9 DEF vars, TypeInv
<1>10. QED
  BY <1>1, <1>2, <1>3, <1>4, <1>5, <1>6, <1>7, <1>8, <1>9
     DEF Next, Terminated

(***************************************************************************)
(* What the end of a subtask does to the queue: its place becomes the last *)
(* of the completed list.                                                  *)
(***************************************************************************)
LEMMA EndMovesOn ==
    ASSUME TypeInv, QueueInv, pc = "working", plan' = plan,
           NEW result \in {"completed"} \cup Failing,
           EndSubtask(result)
    PROVE  /\ Ended' = Ended + 1 /\ Order' = Order
           /\ Len(todo') = Len(todo) - 1
           /\ \A i \in 1..Len(todo') : todo'[i] = todo[i + 1]
           /\ \A i \in 1..Ended : completed'[i] = completed[i]
           /\ completed'[Ended + 1] = Head(todo)
           /\ wstate' = [wstate EXCEPT ![Head(todo)] = result]
           /\ IF result = "completed" THEN pc' = "choosing" /\ status' = status
                                      ELSE pc' = "returned" /\ status' = result
<1>1. todo # << >> /\ Head(todo) \in Ids(plan)
  <2>1. todo # << >>
    BY DEF QueueInv
  <2>2. QED
    BY <2>1, CurrentSubtask
<1>2. todo' = Tail(todo) /\ completed' = Append(completed, Head(todo))
  BY DEF EndSubtask
<1>3. /\ Len(todo') = Len(todo) - 1
      /\ \A i \in 1..Len(todo') : todo'[i] = todo[i + 1]
  BY <1>1, <1>2 DEF TypeInv
<1>4. /\ Len(completed') = Len(completed) + 1
      /\ \A i \in 1..Len(completed) : completed'[i] = completed[i]
      /\ completed'[Len(completed) + 1] = Head(todo)
  BY <1>1, <1>2 DEF TypeInv
<1>5. Order' = Order
  BY DEF Order
<1>6. QED
  BY <1>3, <1>4, <1>5 DEF Ended, EndSubtask, StopsAfter, Return, Failing

(***************************************************************************)
(* Every step keeps the two parts of the order.                            *)
(***************************************************************************)
LEMMA QueuePreserved ==
    TypeInv /\ QueueInv /\ WorkerInv /\ [Next]_vars => QueueInv'
<1> SUFFICES ASSUME TypeInv, QueueInv, WorkerInv, [Next]_vars PROVE QueueInv'
  OBVIOUS
<1>k. ASSUME UNCHANGED <<plan, todo, completed>>
      PROVE  /\ plan # << >> => ValidPlan(plan)
             /\ Ended' = Ended /\ Order' = Order
             /\ Ended' + Len(todo') = Len(plan')
             /\ \A i \in 1..Ended' : completed'[i] = Order'[i]
             /\ \A i \in 1..Len(todo') : todo'[i] = Order'[Ended' + i]
  BY <1>k DEF QueueInv, Ended, Order
<1>1. CASE PlanRequestFails \/ PlanRejected \/ PlanRaises
  <2>1. /\ pc = "planning" /\ UNCHANGED <<plan, todo, completed>>
        /\ \/ pc' = "returned" /\ status' = "failed"
           \/ pc' = "raised" /\ status' = status
    BY <1>1 DEF PlanRequestFails, PlanRejected, PlanRaises, Return, WorkVars
  <2>2. QED
    BY <2>1, <1>k DEF QueueInv
<1>2. CASE PlanAccepted
  <2>1. /\ pc = "planning" /\ pc' = "choosing" /\ plan' \in Plans
        /\ ValidPlan(plan') /\ todo' = ExecutionOrder(plan')
        /\ UNCHANGED <<completed, status>>
    BY <1>2 DEF PlanAccepted
  <2>2. completed' = << >> /\ Len(completed') = 0
    BY <2>1, NothingPlanned DEF QueueInv
  <2>3. Len(todo') = Len(plan') /\ Len(plan') \in Nat
    BY <2>1, OrderType, PlanType
  <2>4. Ended' = 0 /\ Order' = todo'
    BY <2>1, <2>2 DEF Ended, Order
  <2>5. status' = "none"
    BY <2>1 DEF QueueInv
  <2>6. QED
    BY <2>1, <2>3, <2>4, <2>5 DEF QueueInv
<1>3. CASE StartSubtask
  <2>1. /\ pc = "choosing" /\ pc' = "working" /\ todo # << >>
        /\ UNCHANGED <<plan, todo, completed, status>>
    BY <1>3 DEF StartSubtask
  <2>2. QED
    BY <2>1, <1>k DEF QueueInv
<1>4. ASSUME NEW result \in {"completed"} \cup Failing,
             pc = "working", plan' = plan, EndSubtask(result)
      PROVE  QueueInv'
  <2>1. /\ Ended \in Nat /\ Len(todo) \in Nat /\ Len(plan) \in Nat
        /\ Head(todo) = Order[Ended + 1] /\ todo # << >>
        /\ ValidPlan(plan) /\ status = "none"
    <3>1. todo # << >> /\ status = "none"
      BY <1>4 DEF QueueInv
    <3>2. /\ Ended + 1 \in 1..Len(plan) /\ Len(plan) \in Nat /\ Ended \in Nat
          /\ Head(todo) = Order[Ended + 1]
      BY <3>1, CurrentSubtask
    <3>3. plan # << >>
      BY <3>2
    <3>4. QED
      BY <3>1, <3>2, <3>3 DEF QueueInv, TypeInv
  <2>2. /\ Ended' = Ended + 1 /\ Order' = Order
        /\ Len(todo') = Len(todo) - 1
        /\ \A i \in 1..Len(todo') : todo'[i] = todo[i + 1]
        /\ \A i \in 1..Ended : completed'[i] = completed[i]
        /\ completed'[Ended + 1] = Head(todo)
        /\ IF result = "completed" THEN pc' = "choosing" /\ status' = status
                                   ELSE pc' = "returned" /\ status' = result
    BY <1>4, EndMovesOn
  <2>3. /\ Ended + Len(todo) = Len(plan)
        /\ \A i \in 1..Ended : completed[i] = Order[i]
        /\ \A i \in 1..Len(todo) : todo[i] = Order[Ended + i]
    BY DEF QueueInv
  <2>4. Ended' + Len(todo') = Len(plan')
    <3>1. Len(plan') = Len(plan)
      BY <1>4
    <3>2. Ended' + Len(todo') = (Ended + 1) + (Len(todo) - 1)
      BY <2>2
    <3>3. (Ended + 1) + (Len(todo) - 1) = Ended + Len(todo)
      BY <2>1
    <3>4. QED
      BY <2>3, <3>1, <3>2, <3>3
  <2>5. \A i \in 1..Ended' : completed'[i] = Order'[i]
    <3> SUFFICES ASSUME NEW i \in 1..Ended'
                 PROVE  completed'[i] = Order'[i]
      OBVIOUS
    <3>1. i \in 1..Ended \/ i = Ended + 1
      BY <2>1, <2>2
    <3>2. CASE i \in 1..Ended
      BY <2>2, <2>3, <3>2
    <3>3. CASE i = Ended + 1
      BY <2>1, <2>2, <3>3
    <3>4. QED
      BY <3>1, <3>2, <3>3
  <2>6. \A i \in 1..Len(todo') : todo'[i] = Order'[Ended' + i]
    <3> SUFFICES ASSUME NEW i \in 1..Len(todo')
                 PROVE  todo'[i] = Order'[Ended' + i]
      OBVIOUS
    <3>1. i + 1 \in 1..Len(todo) /\ Ended + (i + 1) = Ended' + i
      BY <2>1, <2>2
    <3>2. todo[i + 1] = Order[Ended + (i + 1)]
      BY <2>3, <3>1
    <3>3. QED
      BY <2>2, <3>1, <3>2
  <2>7. status' # "completed"
    BY <2>1, <2>2
  <2>8. QED
    BY <1>4, <2>1, <2>2, <2>4, <2>5, <2>6, <2>7 DEF QueueInv
<1>5. CASE WorkerAnswers
  BY <1>5, <1>4 DEF WorkerAnswers
<1>6. CASE WorkerUsesTools
  <2>1. /\ pc = "working" /\ plan' = plan
        /\ \/ EndSubtask("max_steps")
           \/ UNCHANGED <<pc, todo, completed, status>>
    BY <1>6 DEF WorkerUsesTools
  <2>2. CASE EndSubtask("max_steps")
    BY <2>1, <2>2, <1>4 DEF Failing
  <2>3. CASE UNCHANGED <<pc, todo, completed, status>>
    BY <2>1, <2>3, <1>k DEF QueueInv
  <2>4. QED
    BY <2>1, <2>2, <2>3
<1>7. CASE WorkerRequestFails
  BY <1>7, <1>4 DEF WorkerRequestFails, Failing
<1>8. CASE WorkerRaises
  <2>1. /\ pc = "working" /\ pc' = "raised"
        /\ UNCHANGED <<plan, todo, completed, status>>
    BY <1>8 DEF WorkerRaises
  <2>2. QED
    BY <2>1, <1>k DEF QueueInv
<1>9. CASE Complete
  <2>1. /\ pc = "choosing" /\ pc' = "returned" /\ todo = << >>
        /\ UNCHANGED <<plan, todo, completed>>
    BY <1>9 DEF Complete, Return, WorkVars
  <2>2. QED
    BY <2>1, <1>k DEF QueueInv
<1>10. CASE UNCHANGED vars
  <2>1. UNCHANGED <<pc, plan, todo, completed, status>>
    BY <1>10 DEF vars
  <2>2. QED
    BY <2>1, <1>k DEF QueueInv
<1>11. QED
  BY <1>1, <1>2, <1>3, <1>5, <1>6, <1>7, <1>8, <1>9, <1>10
     DEF Next, Terminated

(***************************************************************************)
(* Every step keeps the state of the workers.                              *)
(***************************************************************************)
LEMMA WorkerPreserved ==
    TypeInv /\ QueueInv /\ WorkerInv /\ [Next]_vars => WorkerInv'
<1> SUFFICES ASSUME TypeInv, QueueInv, WorkerInv, [Next]_vars PROVE WorkerInv'
  OBVIOUS
<1>q. /\ pc = "planning" => plan = << >>
      /\ pc = "working" => todo # << >>
      /\ pc \in {"planning", "choosing", "working", "raised"} => status = "none"
  BY DEF QueueInv
<1>1. CASE PlanRequestFails \/ PlanRejected \/ PlanRaises
  <2>1. /\ pc = "planning" /\ UNCHANGED <<plan, completed, wstate, calls>>
    BY <1>1 DEF PlanRequestFails, PlanRejected, PlanRaises, WorkVars
  <2>2. Len(plan) = 0
    BY <2>1, <1>q
  <2>3. QED
    BY <2>1, <2>2 DEF WorkerInv
<1>2. CASE PlanAccepted
  <2>1. /\ pc = "planning" /\ pc' = "choosing" /\ plan' \in Plans
        /\ ValidPlan(plan') /\ UNCHANGED <<completed, wstate, calls>>
    BY <1>2 DEF PlanAccepted
  <2>2. /\ \A s \in Ident : wstate[s] = "idle"
        /\ Len(completed') = 0
    BY <2>1, <1>q, NothingPlanned
  <2>3. /\ Ids(plan') \subseteq Ident /\ Len(plan') \in Nat
        /\ \A i \in 1..Len(plan') : Order'[i] \in Ids(plan')
    <3>1. Len(plan') \in Nat /\ DOMAIN plan' = 1..Len(plan')
          /\ Ids(plan') \subseteq Ident
      BY <2>1, PlanType
    <3>2. QED
      BY <2>1, <3>1, OrderIsSorted DEF Order
  <2>4. \A i \in 1..Len(plan') : wstate'[Order'[i]] = "idle"
    BY <2>1, <2>2, <2>3
  <2>5. \A s \in Ident : calls'[s] = 0 /\ wstate'[s] = "idle"
    BY <2>1, <2>2 DEF WorkerInv
  <2>6. Ended' = 0
    BY <2>2 DEF Ended
  <2>7. QED
    BY <2>1, <2>3, <2>4, <2>5, <2>6 DEF WorkerInv
<1>3. CASE StartSubtask
  <2>1. /\ pc = "choosing" /\ pc' = "working" /\ todo # << >>
        /\ wstate' = [wstate EXCEPT ![Head(todo)] = "running"]
        /\ UNCHANGED <<plan, completed, calls, status>>
    BY <1>3 DEF StartSubtask
  <2>2. /\ Ended \in Nat /\ Ended + 1 \in 1..Len(plan) /\ Len(plan) \in Nat
        /\ Head(todo) = Order[Ended + 1]
        /\ Head(todo) \in Ids(plan) /\ Head(todo) \in Ident
        /\ \A i \in 1..Len(plan) : Order[i] \in Ident
        /\ \A i \in 1..Len(plan) : i # Ended + 1 => Order[i] # Head(todo)
    BY <2>1, CurrentSubtask
  <2>3. Ended' = Ended /\ Order' = Order
    BY <2>1 DEF Ended, Order
  <2>4. /\ wstate'[Order[Ended + 1]] = "running"
        /\ \A s \in Ident : s # Head(todo) => wstate'[s] = wstate[s]
    BY <2>1, <2>2 DEF TypeInv
  <2>5. \A i \in 1..Len(plan) : i # Ended + 1 => wstate'[Order[i]] = wstate[Order[i]]
    BY <2>2, <2>4
  <2>6. wstate[Head(todo)] = "idle" /\ calls[Head(todo)] = 0 /\ 0 < MaxSteps
    BY <2>1, <2>2, AgentAssumption DEF WorkerInv
  <2>7. \A s \in Ident : (wstate'[s] = "idle" => calls[s] = 0)
                         /\ (wstate'[s] = "running" => calls[s] < MaxSteps)
    BY <2>1, <2>2, <2>6 DEF WorkerInv, TypeInv
  <2>8. \A s \in Ident \ Ids(plan) : wstate'[s] = "idle"
    BY <2>2, <2>4 DEF WorkerInv
  <2>9. QED
    BY <2>1, <2>2, <2>3, <2>4, <2>5, <2>7, <2>8 DEF WorkerInv
<1>4. ASSUME NEW result \in {"completed"} \cup Failing,
             pc = "working", plan' = plan, EndSubtask(result),
             \A s \in Ident : s # Head(todo) => calls'[s] = calls[s]
      PROVE  WorkerInv'
  <2>1. /\ Ended \in Nat /\ Ended + 1 \in 1..Len(plan) /\ Len(plan) \in Nat
        /\ Head(todo) = Order[Ended + 1]
        /\ Head(todo) \in Ids(plan) /\ Head(todo) \in Ident
        /\ \A i \in 1..Len(plan) : Order[i] \in Ident
        /\ \A i \in 1..Len(plan) : i # Ended + 1 => Order[i] # Head(todo)
    BY <1>4, <1>q, CurrentSubtask
  <2>2. /\ Ended' = Ended + 1 /\ Order' = Order
        /\ wstate' = [wstate EXCEPT ![Head(todo)] = result]
        /\ IF result = "completed" THEN pc' = "choosing" /\ status' = status
                                   ELSE pc' = "returned" /\ status' = result
    BY <1>4, EndMovesOn
  <2>3. /\ wstate'[Order[Ended + 1]] = result /\ result \notin {"idle", "running"}
        /\ \A s \in Ident : s # Head(todo) => wstate'[s] = wstate[s]
    BY <2>1, <2>2 DEF TypeInv, Failing
  <2>4. \A i \in 1..Len(plan) : i # Ended + 1 => wstate'[Order[i]] = wstate[Order[i]]
    BY <2>1, <2>3
  <2>5. \A s \in Ident : (wstate'[s] = "idle" => calls'[s] = 0)
                         /\ (wstate'[s] = "running" => calls'[s] < MaxSteps)
    BY <1>4, <2>1, <2>3 DEF WorkerInv
  <2>6. \A s \in Ident \ Ids(plan) : wstate'[s] = "idle"
    BY <2>1, <2>3 DEF WorkerInv
  <2>7. \A i \in 1..Len(plan) :
            /\ i < Ended + 1 => wstate[Order[i]] = "completed"
            /\ i > Ended + 1 => wstate[Order[i]] = "idle"
    BY <1>4, <2>1 DEF WorkerInv
  <2>8. \A i \in 1..Len(plan) :
            /\ i < Ended + 1 => wstate'[Order[i]] = "completed"
            /\ i = Ended + 1 =>
                   IF pc' = "returned" THEN wstate'[Order[i]] = status'
                                       ELSE wstate'[Order[i]] = "completed"
            /\ i > Ended + 1 => wstate'[Order[i]] = "idle"
    BY <2>1, <2>2, <2>3, <2>4, <2>7
  <2>9. pc' \notin {"working", "raised"}
    BY <2>2
  <2>10. QED
    BY <1>4, <2>1, <2>2, <2>5, <2>6, <2>8, <2>9 DEF WorkerInv
<1>5. CASE WorkerAnswers
  BY <1>5, <1>4 DEF WorkerAnswers, TypeInv
<1>6. CASE WorkerUsesTools
  <2>1. IF AtLimit(calls[Head(todo)] + 1)
        THEN EndSubtask("max_steps")
        ELSE UNCHANGED <<pc, todo, completed, wstate, status>>
    BY <1>6 DEF WorkerUsesTools
  <2>2. /\ pc = "working" /\ plan' = plan
        /\ calls' = [calls EXCEPT ![Head(todo)] = @ + 1]
    BY <1>6 DEF WorkerUsesTools
  <2>3. CASE AtLimit(calls[Head(todo)] + 1)
    BY <2>1, <2>2, <2>3, <1>4 DEF Failing, TypeInv
  <2>4. CASE ~AtLimit(calls[Head(todo)] + 1)
    <3>1. /\ Head(todo) \in Ident /\ Head(todo) = Order[Ended + 1]
          /\ Ended + 1 \in 1..Len(plan)
      BY <2>2, <1>q, CurrentSubtask
    <3>2. wstate[Head(todo)] = "running"
      BY <2>2, <3>1 DEF WorkerInv
    <3>3. /\ calls[Head(todo)] < MaxSteps /\ calls[Head(todo)] \in 0..MaxSteps
          /\ MaxSteps \in Nat
      BY <3>1, <3>2, AgentAssumption DEF WorkerInv, TypeInv
    <3>4. calls[Head(todo)] + 1 < MaxSteps
      BY <2>4, <3>3 DEF AtLimit
    <3>5. UNCHANGED <<pc, completed, wstate, status, Order, Ended>>
      BY <2>1, <2>2, <2>4 DEF Order, Ended
    <3>6. \A s \in Ident : (wstate[s] = "idle" => calls'[s] = 0)
                           /\ (wstate[s] = "running" => calls'[s] < MaxSteps)
      BY <2>2, <3>1, <3>2, <3>4 DEF WorkerInv, TypeInv
    <3>7. QED
      BY <2>2, <3>5, <3>6 DEF WorkerInv
  <2>5. QED
    BY <2>3, <2>4
<1>7. CASE WorkerRequestFails
  BY <1>7, <1>4 DEF WorkerRequestFails, Failing
<1>8. CASE WorkerRaises
  <2>1. /\ pc = "working" /\ pc' = "raised"
        /\ wstate' = [wstate EXCEPT ![Head(todo)] = "raised"]
        /\ UNCHANGED <<plan, completed, calls, status>>
    BY <1>8 DEF WorkerRaises
  <2>2. /\ Ended \in Nat /\ Ended + 1 \in 1..Len(plan) /\ Len(plan) \in Nat
        /\ Head(todo) = Order[Ended + 1]
        /\ Head(todo) \in Ids(plan) /\ Head(todo) \in Ident
        /\ \A i \in 1..Len(plan) : Order[i] \in Ident
        /\ \A i \in 1..Len(plan) : i # Ended + 1 => Order[i] # Head(todo)
    BY <2>1, <1>q, CurrentSubtask
  <2>3. Ended' = Ended /\ Order' = Order
    BY <2>1 DEF Ended, Order
  <2>4. /\ wstate'[Order[Ended + 1]] = "raised"
        /\ \A s \in Ident : s # Head(todo) => wstate'[s] = wstate[s]
    BY <2>1, <2>2 DEF TypeInv
  <2>5. \A i \in 1..Len(plan) : i # Ended + 1 => wstate'[Order[i]] = wstate[Order[i]]
    BY <2>2, <2>4
  <2>6. \A s \in Ident : (wstate'[s] = "idle" => calls[s] = 0)
                         /\ (wstate'[s] = "running" => calls[s] < MaxSteps)
    BY <2>1, <2>2, <2>4 DEF WorkerInv, TypeInv
  <2>7. \A s \in Ident \ Ids(plan) : wstate'[s] = "idle"
    BY <2>2, <2>4 DEF WorkerInv
  <2>8. QED
    BY <2>1, <2>2, <2>3, <2>4, <2>5, <2>6, <2>7 DEF WorkerInv
<1>9. CASE Complete
  <2>1. /\ pc = "choosing" /\ pc' = "returned" /\ status' = "completed"
        /\ UNCHANGED <<plan, completed, wstate, calls>>
    BY <1>9 DEF Complete, Return, WorkVars
  <2>2. Ended' = Ended /\ Order' = Order
    BY <2>1 DEF Ended, Order
  <2>3. QED
    BY <2>1, <2>2 DEF WorkerInv
<1>10. CASE UNCHANGED vars
  <2>1. UNCHANGED <<pc, plan, completed, wstate, calls, status, Order, Ended>>
    BY <1>10 DEF vars, Order, Ended
  <2>2. QED
    BY <2>1 DEF WorkerInv
<1>11. QED
  BY <1>1, <1>2, <1>3, <1>5, <1>6, <1>7, <1>8, <1>9, <1>10
     DEF Next, Terminated

(***************************************************************************)
(* Queue and workers hold together throughout.                             *)
(***************************************************************************)
THEOREM LoopIsCorrect ==
    Spec => [](TypeInv /\ QueueInv /\ WorkerInv)
BY InitInv, TypePreserved, QueuePreserved, WorkerPreserved, PTL DEF Spec

-----------------------------------------------------------------------------
(***************************************************************************)
(* Where the subtasks stand: every subtask of the plan has a place, the    *)
(* places have the order's properties, and a subtask that started has a    *)
(* place up to the current one.                                            *)
(***************************************************************************)
LEMMA PlacesOfRun ==
    ASSUME TypeInv, QueueInv, WorkerInv, NEW s \in Ident, wstate[s] # "idle"
    PROVE  /\ ValidPlan(plan) /\ Len(plan) \in Nat /\ DOMAIN plan = 1..Len(plan)
           /\ Ended \in Nat /\ Ended <= Len(plan)
           /\ \E i \in 1..Len(plan) :
                  /\ i <= Ended + 1 /\ Order[i] = s
                  /\ i = Ended + 1 => pc \in {"working", "raised"}
<1>1. Len(plan) \in Nat /\ DOMAIN plan = 1..Len(plan)
  BY PlanType DEF TypeInv
<1>2. s \in Ids(plan)
  BY DEF WorkerInv
<1>3. plan # << >>
  BY <1>2, NothingPlanned
<1>4. ValidPlan(plan)
  BY <1>3 DEF QueueInv
<1>5. Ended \in Nat /\ Ended <= Len(plan)
  <2>1. Ended \in Nat /\ Len(todo) \in Nat /\ Ended + Len(todo) = Len(plan)
    BY DEF TypeInv, QueueInv, Ended
  <2>2. QED
    BY <1>1, <2>1
<1>6. PICK i \in 1..Len(plan) : Order[i] = s
  BY <1>1, <1>2, <1>4, OrderIsSorted DEF Order
<1>7. ~ (i > Ended + 1)
  BY <1>6 DEF WorkerInv
<1>8. i = Ended + 1 => pc \in {"working", "raised"}
  BY <1>6 DEF WorkerInv
<1>9. QED
  BY <1>1, <1>4, <1>5, <1>6, <1>7, <1>8

(***************************************************************************)
(* The prerequisites of a subtask that started completed.                  *)
(***************************************************************************)
LEMMA PrerequisitesCompleted ==
    ASSUME TypeInv, QueueInv, WorkerInv, NEW s \in Ident, wstate[s] # "idle",
           NEW d \in DepsOf(plan, s)
    PROVE  wstate[d] = "completed"
<1>1. /\ ValidPlan(plan) /\ Len(plan) \in Nat /\ DOMAIN plan = 1..Len(plan)
      /\ Ended \in Nat /\ Ended <= Len(plan)
  BY PlacesOfRun
<1>2. PICK i \in 1..Len(plan) :
          /\ i <= Ended + 1 /\ Order[i] = s
          /\ i = Ended + 1 => pc \in {"working", "raised"}
  BY PlacesOfRun
<1>3. PICK j \in 1..Len(plan) : j < i /\ Order[j] = d
  BY <1>1, <1>2, OrderIsTopological DEF Order
<1>4. j < Ended \/ (j = Ended /\ pc \in {"working", "raised"})
  BY <1>1, <1>2, <1>3
<1>5. QED
  BY <1>3, <1>4 DEF WorkerInv

(***************************************************************************)
(* For every plan: when a worker has started its prerequisites completed.  *)
(***************************************************************************)
THEOREM EarlierChangesAreObserved == Spec => []WorkersObserveEarlierChanges
<1>1. ASSUME TypeInv, QueueInv, WorkerInv
      PROVE  WorkersObserveEarlierChanges
  BY <1>1, PrerequisitesCompleted DEF Started, WorkersObserveEarlierChanges
<1>2. QED
  BY <1>1, LoopIsCorrect, PTL

(***************************************************************************)
(* Whatever the plan: the first subtask that does not complete is the last *)
(* to run and to be reported, and its status is the run's.                 *)
(***************************************************************************)
THEOREM FirstFailureIsLast == Spec => []StopsAtFirstFailure
<1>1. ASSUME TypeInv, QueueInv, WorkerInv PROVE StopsAtFirstFailure
  <2> SUFFICES ASSUME NEW s \in Ident, wstate[s] \in Failing
               PROVE  /\ pc = "returned" /\ status = wstate[s]
                      /\ s = completed[Len(completed)]
                      /\ {completed[i] : i \in DOMAIN completed} = Started
    BY DEF StopsAtFirstFailure
  <2>0. wstate[s] \notin {"idle", "completed", "running", "raised"}
    BY DEF Failing
  <2>1. /\ ValidPlan(plan) /\ Len(plan) \in Nat /\ DOMAIN plan = 1..Len(plan)
        /\ Ended \in Nat /\ Ended <= Len(plan)
    BY <1>1, <2>0, PlacesOfRun
  <2>2. PICK i \in 1..Len(plan) : i <= Ended + 1 /\ Order[i] = s
    BY <1>1, <2>0, PlacesOfRun
  <2>3. i = Ended /\ pc = "returned" /\ status = wstate[s]
    <3>1. i # Ended + 1
      BY <1>1, <2>0, <2>2 DEF WorkerInv
    <3>2. ~ (i < Ended)
      BY <1>1, <2>0, <2>2 DEF WorkerInv
    <3>3. i = Ended
      BY <2>1, <2>2, <3>1, <3>2
    <3>4. QED
      BY <1>1, <2>0, <2>2, <3>3 DEF WorkerInv
  <2>4. s = completed[Len(completed)]
    <3>1. Ended \in 1..Ended /\ Ended > 0
      BY <2>1, <2>2, <2>3
    <3>2. completed[Ended] = Order[Ended]
      BY <1>1, <2>3, <3>1 DEF QueueInv
    <3>3. QED
      BY <2>2, <2>3, <3>2 DEF Ended
  <2>5. {completed[j] : j \in DOMAIN completed} = Started
    <3>1. DOMAIN completed = 1..Ended
      BY <1>1 DEF TypeInv, Ended
    <3>2. ASSUME NEW j \in 1..Ended PROVE completed[j] \in Started
      <4>1. completed[j] = Order[j] /\ j \in 1..Len(plan)
        BY <1>1, <2>1 DEF QueueInv
      <4>2. Order[j] \in Ident
        <5>1. Order[j] \in Ids(plan)
          BY <2>1, <4>1, OrderIsSorted DEF Order
        <5>2. QED
          BY <1>1, <5>1, PlanType DEF TypeInv
      <4>3. wstate[Order[j]] # "idle"
        <5>1. j < Ended \/ j = Ended
          BY <2>1
        <5>2. QED
          BY <1>1, <2>0, <2>3, <4>1, <5>1 DEF WorkerInv
      <4>4. QED
        BY <4>1, <4>2, <4>3 DEF Started
    <3>3. ASSUME NEW t \in Started PROVE \E j \in 1..Ended : completed[j] = t
      <4>1. PICK j \in 1..Len(plan) :
                /\ j <= Ended + 1 /\ Order[j] = t
                /\ j = Ended + 1 => pc \in {"working", "raised"}
        BY <1>1, PlacesOfRun DEF Started
      <4>2. j \in 1..Ended
        BY <2>1, <2>3, <4>1
      <4>3. QED
        BY <1>1, <4>1, <4>2 DEF QueueInv
    <3>4. QED
      BY <3>1, <3>2, <3>3
  <2>6. QED
    BY <2>3, <2>4, <2>5
<1>2. QED
  BY <1>1, LoopIsCorrect, PTL

-----------------------------------------------------------------------------
(***************************************************************************)
(* PlanExecution reads a plan as this module does.                         *)
(***************************************************************************)
LEMMA SamePlanOperators ==
    ASSUME NEW p, NEW done
    PROVE  /\ Execution!Ids(p) = Ids(p)
           /\ Execution!Ready(p, done) = Ready(p, done)
           /\ Execution!ValidPlan(p) <=> ValidPlan(p)
<1>1. Execution!Ids(p) = Ids(p)
  BY DEF Execution!Ids, Ids
<1>2. \A s : Execution!DepsOf(p, s) = DepsOf(p, s)
  BY DEF Execution!DepsOf, DepsOf
<1>3. Execution!Ready(p, done) = Ready(p, done)
  BY <1>1, <1>2 DEF Execution!Ready, Execution!ReadyAmong, Ready, ReadyAmong
<1>4. Execution!Cyclic(p) <=> Cyclic(p)
  BY <1>1, <1>2 DEF Execution!Cyclic, Execution!Knot, Cyclic, Knot
<1>5. /\ Execution!IdsAreUnique(p) <=> IdsAreUnique(p)
      /\ Execution!NoSelfDependency(p) <=> NoSelfDependency(p)
      /\ Execution!DependenciesKnown(p) <=> DependenciesKnown(p)
  BY <1>1 DEF Execution!IdsAreUnique, IdsAreUnique,
     Execution!NoSelfDependency, NoSelfDependency,
     Execution!DependenciesKnown, DependenciesKnown
<1>6. QED
  BY <1>1, <1>3, <1>4, <1>5 DEF Execution!ValidPlan, ValidPlan

(***************************************************************************)
(* The work that is in the workspace for good, as PlanExecution sees it.   *)
(***************************************************************************)
Done == {s \in Ident : wstate[s] = "completed"}

(***************************************************************************)
(* A subtask that completes was ready: its prerequisites are done and it   *)
(* was not.  One that does not complete adds nothing.                      *)
(***************************************************************************)
LEMMA EndRefines ==
    ASSUME TypeInv, QueueInv, WorkerInv, pc = "working", plan' = plan,
           NEW result \in {"completed"} \cup Failing,
           EndSubtask(result)
    PROVE  [Execution!Next]_<<Phase, plan, Done>>
<1>1. /\ Head(todo) \in Ident /\ Head(todo) \in Ids(plan)
      /\ wstate[Head(todo)] = "running"
  <2>1. todo # << >>
    BY DEF QueueInv
  <2>2. /\ Head(todo) \in Ident /\ Head(todo) \in Ids(plan)
        /\ Head(todo) = Order[Ended + 1] /\ Ended + 1 \in 1..Len(plan)
    BY <2>1, CurrentSubtask
  <2>3. QED
    BY <2>2 DEF WorkerInv
<1>2. /\ wstate' = [wstate EXCEPT ![Head(todo)] = result]
      /\ IF result = "completed" THEN pc' = "choosing" /\ status' = status
                                 ELSE pc' = "returned" /\ status' = result
  BY EndMovesOn
<1>3. Phase = "executing"
  BY DEF Phase
<1>4. CASE result = "completed"
  <2>1. Done' = Done \cup {Head(todo)}
    BY <1>1, <1>2, <1>4 DEF Done, TypeInv
  <2>2. Head(todo) \notin Done
    BY <1>1 DEF Done
  <2>3. DepsOf(plan, Head(todo)) \subseteq Done
    <3>1. \A d \in DepsOf(plan, Head(todo)) : wstate[d] = "completed"
      BY <1>1, PrerequisitesCompleted
    <3>2. DepsOf(plan, Head(todo)) \subseteq Ids(plan) /\ Ids(plan) \subseteq Ident
      <4>1. plan # << >>
        BY <1>1, NothingPlanned
      <4>2. QED
        BY <4>1, PlanType
           DEF QueueInv, ValidPlan, DependenciesKnown, DepsOf, TypeInv
    <3>3. QED
      BY <3>1, <3>2 DEF Done
  <2>4. {Head(todo)} \in (SUBSET Execution!Ready(plan, Done)) \ {{}}
    <3>1. Head(todo) \in Ready(plan, Done)
      BY <1>1, <2>2, <2>3 DEF Ready, ReadyAmong
    <3>2. QED
      BY <3>1, SamePlanOperators
  <2>5. Phase' = "executing"
    BY <1>2, <1>4 DEF Phase
  <2>6. Execution!FinishBatch
    BY <1>3, <2>1, <2>4, <2>5 DEF Execution!FinishBatch, Done
  <2>7. QED
    BY <2>6 DEF Execution!Next
<1>5. CASE result # "completed"
  <2>1. Done' = Done
    BY <1>1, <1>2, <1>5 DEF Done, TypeInv
  <2>2. Phase' = "stopped"
    BY <1>2, <1>5 DEF Phase, Failing
  <2>3. Execution!Stop
    BY <1>3, <2>1, <2>2 DEF Execution!Stop, Done
  <2>4. QED
    BY <2>3 DEF Execution!Next
<1>6. QED
  BY <1>4, <1>5

(***************************************************************************)
(* Each step of the run is one of PlanExecution or changes nothing there.  *)
(***************************************************************************)
LEMMA StepRefinesExecution ==
    TypeInv /\ QueueInv /\ WorkerInv /\ [Next]_vars
    => [Execution!Next]_<<Phase, plan, Done>>
<1> SUFFICES ASSUME TypeInv, QueueInv, WorkerInv, [Next]_vars
             PROVE  [Execution!Next]_<<Phase, plan, Done>>
  OBVIOUS
<1>m. ASSUME UNCHANGED <<plan, Done>>, pc \in {"choosing", "working"},
             pc' \in {"choosing", "working"}
      PROVE  [Execution!Next]_<<Phase, plan, Done>>
  BY <1>m DEF Phase
<1>s. ASSUME UNCHANGED <<plan, Done>>, pc \in {"planning", "choosing", "working"},
             pc' \in {"returned", "raised"}, pc' = "returned" => status' # "completed"
      PROVE  [Execution!Next]_<<Phase, plan, Done>>
  <2>1. Phase \in {"planning", "executing"} /\ Phase' = "stopped"
    BY <1>s DEF Phase
  <2>2. Execution!Stop
    BY <1>s, <2>1 DEF Execution!Stop, Done
  <2>3. QED
    BY <2>2 DEF Execution!Next
<1>1. CASE PlanRequestFails \/ PlanRejected \/ PlanRaises
  <2>1. /\ pc = "planning" /\ UNCHANGED <<plan, wstate>>
        /\ pc' \in {"returned", "raised"}
        /\ pc' = "returned" => status' # "completed"
    BY <1>1 DEF PlanRequestFails, PlanRejected, PlanRaises, Return, WorkVars
  <2>2. QED
    BY <2>1, <1>s DEF Done
<1>2. CASE PlanAccepted
  <2>1. /\ pc = "planning" /\ pc' = "choosing" /\ wstate' = wstate
        /\ \E p \in Plans : ValidPlan(p) /\ plan' = p
    BY <1>2 DEF PlanAccepted
  <2>2. Phase = "planning" /\ Phase' = "executing" /\ Done' = Done
    BY <2>1 DEF Phase, Done
  <2>3. Execution!Accept
    BY <2>1, <2>2, SamePlanOperators DEF Execution!Accept, Done
  <2>4. QED
    BY <2>3 DEF Execution!Next
<1>3. CASE StartSubtask
  <2>1. /\ pc = "choosing" /\ pc' = "working" /\ todo # << >> /\ plan' = plan
        /\ wstate' = [wstate EXCEPT ![Head(todo)] = "running"]
    BY <1>3 DEF StartSubtask
  <2>2. /\ Head(todo) \in Ident /\ wstate[Head(todo)] = "idle"
    <3>1. /\ Head(todo) \in Ident /\ Head(todo) = Order[Ended + 1]
          /\ Ended + 1 \in 1..Len(plan)
      BY <2>1, CurrentSubtask
    <3>2. QED
      BY <2>1, <3>1 DEF WorkerInv
  <2>3. Done' = Done
    BY <2>1, <2>2 DEF Done, TypeInv
  <2>4. QED
    BY <2>1, <2>3, <1>m
<1>4. CASE WorkerAnswers
  BY <1>4, EndRefines DEF WorkerAnswers
<1>5. CASE WorkerUsesTools
  <2>1. /\ pc = "working" /\ plan' = plan
        /\ \/ EndSubtask("max_steps")
           \/ UNCHANGED <<pc, wstate>>
    BY <1>5 DEF WorkerUsesTools
  <2>2. CASE EndSubtask("max_steps")
    BY <2>1, <2>2, EndRefines DEF Failing
  <2>3. CASE UNCHANGED <<pc, wstate>>
    BY <2>1, <2>3, <1>m DEF Done
  <2>4. QED
    BY <2>1, <2>2, <2>3
<1>6. CASE WorkerRequestFails
  BY <1>6, EndRefines DEF WorkerRequestFails, Failing
<1>7. CASE WorkerRaises
  <2>1. /\ pc = "working" /\ pc' = "raised" /\ plan' = plan
        /\ wstate' = [wstate EXCEPT ![Head(todo)] = "raised"]
    BY <1>7 DEF WorkerRaises
  <2>2. Head(todo) \in Ident /\ wstate[Head(todo)] = "running"
    <3>1. /\ Head(todo) \in Ident /\ Head(todo) = Order[Ended + 1]
          /\ Ended + 1 \in 1..Len(plan)
      BY <2>1, CurrentSubtask DEF QueueInv
    <3>2. QED
      BY <2>1, <3>1 DEF WorkerInv
  <2>3. Done' = Done
    BY <2>1, <2>2 DEF Done, TypeInv
  <2>4. QED
    BY <2>1, <2>3, <1>s
<1>8. CASE Complete
  <2>1. /\ pc = "choosing" /\ pc' = "returned" /\ status' = "completed"
        /\ todo = << >> /\ UNCHANGED <<plan, wstate>>
    BY <1>8 DEF Complete, Return, WorkVars
  <2>2. Done = Ids(plan)
    <3>1. /\ Len(plan) \in Nat /\ DOMAIN plan = 1..Len(plan)
          /\ Ids(plan) \subseteq Ident
      BY PlanType DEF TypeInv
    <3>2. Ended = Len(plan)
      <4>1. Len(todo) = 0
        BY <2>1
      <4>2. Ended \in Nat /\ Ended + Len(todo) = Len(plan)
        BY DEF TypeInv, QueueInv, Ended
      <4>3. QED
        BY <4>1, <4>2
    <3>3. ASSUME NEW s \in Ids(plan) PROVE wstate[s] = "completed"
      <4>1. plan # << >>
        BY <3>3, NothingPlanned
      <4>2. PICK i \in 1..Len(plan) : Order[i] = s
        BY <3>1, <4>1, OrderIsSorted DEF Order, QueueInv
      <4>3. \A n \in Nat : \A k \in 1..n : k < n \/ k = n
        OBVIOUS
      <4>4. i < Ended \/ i = Ended
        BY <3>1, <3>2, <4>2, <4>3
      <4>5. QED
        BY <2>1, <4>2, <4>4 DEF WorkerInv
    <3>4. \A s \in Ident \ Ids(plan) : wstate[s] # "completed"
      BY DEF WorkerInv
    <3>5. QED
      BY <3>1, <3>3, <3>4 DEF Done
  <2>3. Phase = "executing" /\ Phase' = "completed" /\ Done' = Done
    BY <2>1 DEF Phase, Done
  <2>4. Execution!Succeed
    BY <2>1, <2>2, <2>3, SamePlanOperators DEF Execution!Succeed, Done
  <2>5. QED
    BY <2>4 DEF Execution!Next
<1>9. CASE UNCHANGED vars
  BY <1>9 DEF vars, Phase, Done
<1>10. QED
  BY <1>1, <1>2, <1>3, <1>4, <1>5, <1>6, <1>7, <1>8, <1>9
     DEF Next, Terminated

(***************************************************************************)
(* SequentialAgent.run executes every plan as PlanExecution says, in       *)
(* batches of one ready subtask.                                           *)
(***************************************************************************)
THEOREM RunImplementsPlanExecution == Spec => ImplementsPlanExecution
<1>1. Init => Execution!Init
  BY DEF Init, Phase, Execution!Init
<1>2. TypeInv /\ QueueInv /\ WorkerInv /\ [Next]_vars
          => [Execution!Next]_(Execution!vars)
  BY StepRefinesExecution DEF Execution!vars, Done
<1>3. QED
  BY <1>1, <1>2, LoopIsCorrect, PTL
     DEF Spec, ImplementsPlanExecution, Execution!Spec

-----------------------------------------------------------------------------
(***************************************************************************)
(* Every step takes each worker along a step of WorkerContract, or leaves  *)
(* it where it is.                                                         *)
(***************************************************************************)
LEMMA StepRefinesWorker ==
    ASSUME TypeInv, QueueInv, WorkerInv, [Next]_vars, NEW t \in Ident
    PROVE  [WorkerOf(t)!Next]_<<wstate[t], calls[t]>>
<1> DEFINE s == Head(todo)
<1>m. ASSUME UNCHANGED <<wstate, calls>>
      PROVE  [WorkerOf(t)!Next]_<<wstate[t], calls[t]>>
  BY <1>m
<1>o. ASSUME s # t, \A u \in Ident : u # s => wstate'[u] = wstate[u]
                                            /\ calls'[u] = calls[u]
      PROVE  [WorkerOf(t)!Next]_<<wstate[t], calls[t]>>
  BY <1>o
<1>c. ASSUME todo # << >>
      PROVE  /\ s \in Ident
             /\ pc = "choosing" => wstate[s] = "idle"
             /\ pc = "working" => wstate[s] = "running" /\ calls[s] < MaxSteps
                                  /\ calls[s] \in Nat
  <2>1. /\ s \in Ident /\ s = Order[Ended + 1] /\ Ended + 1 \in 1..Len(plan)
    BY <1>c, CurrentSubtask
  <2> HIDE DEF s
  <2>2. /\ pc = "choosing" => wstate[s] = "idle"
        /\ pc = "working" => wstate[s] = "running"
    BY <2>1 DEF WorkerInv
  <2>3. calls[s] \in Nat
    BY <2>1, AgentAssumption DEF TypeInv
  <2>4. QED
    BY <2>1, <2>2, <2>3 DEF WorkerInv
<1>w. pc = "working" => todo # << >>
  BY DEF QueueInv
<1>1. CASE PlanRequestFails \/ PlanRejected \/ PlanRaises \/ PlanAccepted
           \/ Complete \/ UNCHANGED vars
  BY <1>1, <1>m DEF PlanRequestFails, PlanRejected, PlanRaises, PlanAccepted,
     Complete, WorkVars, vars
<1>2. CASE StartSubtask
  <2>1. /\ s \in Ident /\ wstate[s] = "idle" /\ calls' = calls
        /\ wstate' = [wstate EXCEPT ![s] = "running"]
    BY <1>2, <1>c DEF StartSubtask
  <2> HIDE DEF s
  <2>2. CASE s = t
    <3>1. WorkerOf(t)!Begin
      BY <2>1, <2>2 DEF WorkerOf!Begin, TypeInv
    <3>2. QED
      BY <3>1 DEF WorkerOf!Next
  <2>3. CASE s # t
    BY <2>1, <2>3, <1>o DEF TypeInv
  <2>4. QED
    BY <2>2, <2>3
<1>3. CASE WorkerAnswers
  <2>1. /\ s \in Ident /\ wstate[s] = "running" /\ calls[s] < MaxSteps
        /\ calls' = [calls EXCEPT ![s] = @ + 1]
        /\ wstate' = [wstate EXCEPT ![s] = "completed"]
    BY <1>3, <1>c, <1>w DEF WorkerAnswers, EndSubtask
  <2> HIDE DEF s
  <2>2. CASE s = t
    <3>1. WorkerOf(t)!Answer
      BY <2>1, <2>2 DEF WorkerOf!Answer, TypeInv
    <3>2. QED
      BY <3>1 DEF WorkerOf!Next
  <2>3. CASE s # t
    BY <2>1, <2>3, <1>o DEF TypeInv
  <2>4. QED
    BY <2>2, <2>3
<1>4. CASE WorkerUsesTools
  <2>1. IF AtLimit(calls[s] + 1)
        THEN EndSubtask("max_steps")
        ELSE UNCHANGED <<pc, todo, completed, wstate, status>>
    BY <1>4 DEF WorkerUsesTools
  <2>2. /\ s \in Ident /\ wstate[s] = "running" /\ calls[s] < MaxSteps
        /\ calls[s] \in Nat /\ calls' = [calls EXCEPT ![s] = @ + 1]
    BY <1>4, <1>c, <1>w DEF WorkerUsesTools
  <2>3. wstate' = IF calls[s] + 1 = MaxSteps
                  THEN [wstate EXCEPT ![s] = "max_steps"] ELSE wstate
    BY <2>1 DEF AtLimit, EndSubtask
  <2> HIDE DEF s
  <2>4. /\ calls'[s] = calls[s] + 1
        /\ wstate'[s] = IF calls[s] + 1 = MaxSteps THEN "max_steps" ELSE "running"
        /\ \A u \in Ident : u # s => wstate'[u] = wstate[u] /\ calls'[u] = calls[u]
    BY <2>2, <2>3 DEF TypeInv
  <2>5. CASE s = t
    <3>1. WorkerOf(t)!UseTools
      BY <2>2, <2>4, <2>5 DEF WorkerOf!UseTools
    <3>2. QED
      BY <3>1 DEF WorkerOf!Next
  <2>6. CASE s # t
    BY <2>4, <2>6, <1>o
  <2>7. QED
    BY <2>5, <2>6
<1>5. CASE WorkerRequestFails \/ WorkerRaises
  <2>1. /\ s \in Ident /\ wstate[s] = "running" /\ calls[s] < MaxSteps
        /\ calls' = calls
        /\ \E r \in {"failed", "raised"} : wstate' = [wstate EXCEPT ![s] = r]
    BY <1>5, <1>c, <1>w DEF WorkerRequestFails, WorkerRaises, EndSubtask
  <2> HIDE DEF s
  <2>2. CASE s = t
    <3>1. WorkerOf(t)!Fail
      BY <2>1, <2>2 DEF WorkerOf!Fail, TypeInv
    <3>2. QED
      BY <3>1 DEF WorkerOf!Next
  <2>3. CASE s # t
    BY <2>1, <2>3, <1>o DEF TypeInv
  <2>4. QED
    BY <2>2, <2>3
<1>6. QED
  BY <1>1, <1>2, <1>3, <1>4, <1>5 DEF Next, Terminated

(***************************************************************************)
(* Each worker of a sequential run behaves as WorkerContract says.         *)
(***************************************************************************)
THEOREM WorkersImplementContract == Spec => ImplementsWorkerContract
<1>1. Init => \A s \in Ident : WorkerOf(s)!Init
  BY DEF Init, WorkerOf!Init
<1>2. TypeInv /\ QueueInv /\ WorkerInv /\ [Next]_vars =>
          [\A s \in Ident :
              [WorkerOf(s)!Next]_<<wstate[s], calls[s]>>]_vars
  BY StepRefinesWorker
<1>3. QED
  BY <1>1, <1>2, LoopIsCorrect, PTL DEF Spec, ImplementsWorkerContract

-----------------------------------------------------------------------------
(***************************************************************************)
(* The most steps a run has still before it: the planner's answer and the  *)
(* end, the start of each subtask to do and its model calls.               *)
(***************************************************************************)
StepsAhead ==
    CASE pc = "planning" -> 2 + Cardinality(Ident) * (MaxSteps + 1)
      [] pc = "choosing" -> 1 + Len(todo) * (MaxSteps + 1)
      [] pc = "working" ->
             1 + Len(todo) * (MaxSteps + 1) - (1 + calls[Head(todo)])
      [] OTHER -> 0

MostSteps == 2 + Cardinality(Ident) * (MaxSteps + 1)

(***************************************************************************)
(* A plan has no more subtasks than there are names.                       *)
(***************************************************************************)
LEMMA PlanIsShort ==
    ASSUME NEW p \in Plans \cup {<< >>}, p # << >> => ValidPlan(p)
    PROVE  Len(p) \in 0..Cardinality(Ident)
<1>1. /\ Len(p) \in Nat /\ DOMAIN p = 1..Len(p)
      /\ Ids(p) \subseteq Ident /\ IsFiniteSet(Ident)
  BY PlanType, AgentAssumption
<1> DEFINE name == [i \in 1..Len(p) |-> p[i].id]
<1>2. name \in [1..Len(p) -> Ident]
  BY <1>1 DEF Ids
<1>3. \A i, j \in 1..Len(p) : name[i] = name[j] => i = j
  BY <1>1 DEF ValidPlan, IdsAreUnique
<1> HIDE DEF name
<1>4. name \in Injection(1..Len(p), Ident)
  BY <1>2, <1>3 DEF Injection, IsInjective
<1>5. Cardinality(1..Len(p)) <= Cardinality(Ident)
  BY <1>1, <1>4, FS_Injection
<1>6. 1 \in Int /\ Len(p) \in Int
  BY <1>1
<1>7. Cardinality(1..Len(p)) = IF 1 > Len(p) THEN 0 ELSE Len(p) - 1 + 1
  BY ONLY <1>6, FS_Interval
<1>8. Cardinality(Ident) \in Nat
  BY <1>1, FS_CardinalityType
<1>9. QED
  BY <1>1, <1>5, <1>7, <1>8

(***************************************************************************)
(* What the steps of a number of subtasks are.                             *)
(***************************************************************************)
LEMMA StepsOfSubtasks ==
    ASSUME NEW n \in Nat
    PROVE  /\ n * (MaxSteps + 1) \in Nat
           /\ n > 0 => n * (MaxSteps + 1) >= MaxSteps + 1
           /\ n > 0 => (n - 1) * (MaxSteps + 1)
                           = n * (MaxSteps + 1) - (MaxSteps + 1)
           /\ \A m \in 0..n : m * (MaxSteps + 1) <= n * (MaxSteps + 1)
<1> DEFINE k == MaxSteps + 1
<1>1. k \in Nat
  BY AgentAssumption
<1>2. ASSUME NEW a \in Nat, NEW b \in Nat
      PROVE  a * b \in Nat /\ (a + 1) * b = a * b + b
  OBVIOUS
<1> HIDE DEF k
<1>3. n * k \in Nat
  BY <1>1, <1>2
<1>4. n > 0 => (n - 1) * k \in Nat /\ n * k = (n - 1) * k + k
  <2> SUFFICES ASSUME n > 0 PROVE (n - 1) * k \in Nat /\ n * k = (n - 1) * k + k
    OBVIOUS
  <2>1. n - 1 \in Nat /\ (n - 1) + 1 = n
    OBVIOUS
  <2>2. (n - 1) * k \in Nat /\ ((n - 1) + 1) * k = (n - 1) * k + k
    BY ONLY <1>1, <1>2, <2>1
  <2>3. QED
    BY <2>1, <2>2
<1>5. \A m \in 0..n : m * k <= n * k
  <2> TAKE m \in 0..n
  <2>1. n - m \in Nat /\ m + (n - m) = n /\ m \in Nat
    OBVIOUS
  <2>2. ASSUME NEW a \in Nat, NEW b \in Nat PROVE (a + b) * k = a * k + b * k
    BY <1>1
  <2>3. /\ (m + (n - m)) * k = m * k + (n - m) * k
        /\ m * k \in Nat /\ (n - m) * k \in Nat
    BY ONLY <1>1, <1>2, <2>1, <2>2
  <2>4. QED
    BY <2>1, <2>3
<1>6. QED
  BY <1>1, <1>3, <1>4, <1>5 DEF k

(***************************************************************************)
(* While a worker is at work its calls are fewer than its limit.           *)
(***************************************************************************)
LEMMA CallsOfCurrent ==
    ASSUME TypeInv, QueueInv, WorkerInv
    PROVE  /\ Len(todo) \in Nat /\ MaxSteps \in Nat
           /\ pc \in {"choosing", "working"} /\ todo # << >> =>
                  /\ Len(todo) > 0 /\ Len(Tail(todo)) = Len(todo) - 1
                  /\ Head(todo) \in Ident
                  /\ calls[Head(todo)] \in Nat
                  /\ pc = "choosing" => calls[Head(todo)] = 0
                  /\ pc = "working" => calls[Head(todo)] < MaxSteps
           /\ pc = "working" => todo # << >>
<1>1. Len(todo) \in Nat /\ MaxSteps \in Nat
  BY AgentAssumption DEF TypeInv
<1>2. ASSUME pc \in {"choosing", "working"}, todo # << >>
      PROVE  /\ Len(todo) > 0 /\ Len(Tail(todo)) = Len(todo) - 1
             /\ Head(todo) \in Ident
             /\ calls[Head(todo)] \in Nat
             /\ pc = "choosing" => calls[Head(todo)] = 0
             /\ pc = "working" => calls[Head(todo)] < MaxSteps
  <2>1. /\ Head(todo) = Order[Ended + 1] /\ Ended + 1 \in 1..Len(plan)
        /\ Head(todo) \in Ident
    BY <1>2, CurrentSubtask
  <2>2. /\ pc = "choosing" => wstate[Head(todo)] = "idle"
        /\ pc = "working" => wstate[Head(todo)] = "running"
    BY <1>2, <2>1 DEF WorkerInv
  <2>3. Len(todo) > 0 /\ Len(Tail(todo)) = Len(todo) - 1
    BY <1>2 DEF TypeInv
  <2>4. calls[Head(todo)] \in Nat
    BY <1>1, <2>1 DEF TypeInv
  <2>5. QED
    BY <2>1, <2>2, <2>3, <2>4 DEF WorkerInv
<1>3. QED
  BY <1>1, <1>2 DEF QueueInv

(***************************************************************************)
(* Every step leaves fewer.                                                *)
(***************************************************************************)
LEMMA StepIsProgress ==
    ASSUME TypeInv, QueueInv, WorkerInv, TypeInv', QueueInv', Next,
           ~UNCHANGED vars
    PROVE  StepsAhead' < StepsAhead
<1> DEFINE k == MaxSteps + 1
           s == Head(todo)
<1>0. /\ Len(todo) \in Nat /\ MaxSteps \in Nat /\ k \in Nat
      /\ Len(todo) * k \in Nat /\ Cardinality(Ident) \in Nat
      /\ Cardinality(Ident) * k \in Nat
      /\ Len(todo) > 0 => Len(todo) * k >= k
  BY CallsOfCurrent, StepsOfSubtasks, AgentAssumption, FS_CardinalityType
<1>1. CASE PlanRequestFails \/ PlanRejected \/ PlanRaises
  <2>1. pc = "planning" /\ pc' \in {"returned", "raised"}
    BY <1>1 DEF PlanRequestFails, PlanRejected, PlanRaises, Return
  <2>2. StepsAhead = 2 + Cardinality(Ident) * k /\ StepsAhead' = 0
    BY <2>1 DEF StepsAhead
  <2> HIDE DEF k
  <2>3. QED
    BY <1>0, <2>2
<1>2. CASE PlanAccepted
  <2>1. /\ pc = "planning" /\ pc' = "choosing"
        /\ completed' = completed
    BY <1>2 DEF PlanAccepted
  <2>2. plan = << >> /\ completed = << >>
    BY <2>1, NothingPlanned DEF QueueInv
  <2>3. Len(todo') = Len(plan') /\ Len(todo') \in Nat
    <3>1. Ended' = 0
      BY <2>1, <2>2 DEF Ended
    <3>2. Len(todo') \in Nat
      BY DEF TypeInv
    <3>3. QED
      BY <3>1, <3>2 DEF QueueInv
  <2>4. Len(plan') \in 0..Cardinality(Ident)
    BY PlanIsShort DEF TypeInv, QueueInv
  <2>5. Len(todo') * k <= Cardinality(Ident) * k /\ Len(todo') * k \in Nat
    BY <1>0, <2>3, <2>4, StepsOfSubtasks
  <2>6. /\ StepsAhead = 2 + Cardinality(Ident) * k
        /\ StepsAhead' = 1 + Len(todo') * k
    BY <2>1 DEF StepsAhead
  <2> HIDE DEF k
  <2>7. QED
    BY <1>0, <2>5, <2>6
<1>3. CASE StartSubtask
  <2>1. /\ pc = "choosing" /\ todo # << >> /\ pc' = "working"
        /\ todo' = todo /\ calls' = calls
    BY <1>3 DEF StartSubtask
  <2>2. calls[s] = 0
    BY <2>1, CallsOfCurrent
  <2>3. /\ StepsAhead = 1 + Len(todo) * k
        /\ StepsAhead' = 1 + Len(todo) * k - (1 + calls[s])
    BY <2>1 DEF StepsAhead
  <2> HIDE DEF k, s
  <2>4. QED
    BY <1>0, <2>2, <2>3
<1>4. ASSUME pc = "working"
      PROVE  /\ StepsAhead = 1 + Len(todo) * k - (1 + calls[s])
             /\ Len(todo) > 0 /\ s \in Ident
             /\ calls[s] \in Nat /\ calls[s] < MaxSteps
             /\ StepsAhead > 1 + (Len(todo) - 1) * k
             /\ (Len(todo) - 1) * k \in Nat
  <2>1. /\ Len(todo) > 0 /\ s \in Ident
        /\ calls[s] \in Nat /\ calls[s] < MaxSteps
    BY <1>4, CallsOfCurrent
  <2>2. StepsAhead = 1 + Len(todo) * k - (1 + calls[s])
    BY <1>4 DEF StepsAhead
  <2>3. (Len(todo) - 1) * k = Len(todo) * k - k
    BY <1>0, <2>1, StepsOfSubtasks
  <2>4. k = MaxSteps + 1
    OBVIOUS
  <2> DEFINE all == Len(todo) * k
             others == (Len(todo) - 1) * k
  <2>5. /\ k \in Nat /\ MaxSteps \in Nat
        /\ all \in Nat /\ all >= k /\ others = all - k
        /\ StepsAhead = 1 + all - (1 + calls[s])
    BY ONLY <1>0, <2>1, <2>2, <2>3
  <2> HIDE DEF k, s, all, others
  <2>6. others \in Nat /\ StepsAhead > 1 + others
    BY ONLY <1>0, <2>1, <2>4, <2>5
  <2>7. QED
    BY <2>1, <2>2, <2>6 DEF others
<1>5. ASSUME pc = "working", NEW result, EndSubtask(result)
      PROVE  StepsAhead' < StepsAhead
  <2>1. /\ todo' = Tail(todo)
        /\ pc' \in {"choosing", "returned"}
    BY <1>5 DEF EndSubtask, Return
  <2>2. Len(todo') = Len(todo) - 1
    BY <1>5, <2>1, CallsOfCurrent
  <2>3. StepsAhead' \in {0, 1 + (Len(todo) - 1) * k}
    BY <2>1, <2>2 DEF StepsAhead
  <2> HIDE DEF k, s
  <2>4. QED
    BY <1>0, <1>4, <1>5, <2>3
<1>6. CASE WorkerAnswers \/ WorkerRequestFails
  BY <1>5, <1>6 DEF WorkerAnswers, WorkerRequestFails
<1>7. CASE WorkerUsesTools
  <2>1. IF AtLimit(calls[s] + 1)
        THEN EndSubtask("max_steps")
        ELSE UNCHANGED <<pc, todo, completed, wstate, status>>
    BY <1>7 DEF WorkerUsesTools
  <2>2. pc = "working" /\ calls' = [calls EXCEPT ![s] = @ + 1]
    BY <1>7 DEF WorkerUsesTools
  <2>3. CASE AtLimit(calls[s] + 1)
    BY <1>5, <2>1, <2>2, <2>3
  <2>4. CASE ~AtLimit(calls[s] + 1)
    <3>1. pc' = "working" /\ todo' = todo
      BY <2>1, <2>2, <2>4
    <3>2. calls'[s] = calls[s] + 1
      <4>1. s \in Ident
        BY <1>4, <2>2
      <4>2. QED
        BY <2>2, <4>1 DEF TypeInv
    <3>3. StepsAhead' = 1 + Len(todo) * k - (1 + calls'[s])
      BY <3>1 DEF StepsAhead
    <3> DEFINE all == Len(todo) * k
    <3>4. /\ all \in Nat /\ calls[s] \in Nat
          /\ StepsAhead = 1 + all - (1 + calls[s])
          /\ StepsAhead' = 1 + all - (1 + (calls[s] + 1))
      BY <1>0, <1>4, <2>2, <3>2, <3>3
    <3> HIDE DEF k, s, all
    <3>5. QED
      BY ONLY <3>4
  <2>5. QED
    BY <2>3, <2>4
<1>8. CASE WorkerRaises
  <2>1. pc = "working" /\ pc' = "raised"
    BY <1>8 DEF WorkerRaises
  <2>2. StepsAhead' = 0
    BY <2>1 DEF StepsAhead
  <2> HIDE DEF k, s
  <2>3. QED
    BY <1>0, <1>4, <2>1, <2>2
<1>9. CASE Complete
  <2>1. pc = "choosing" /\ pc' = "returned"
    BY <1>9 DEF Complete, Return
  <2>2. StepsAhead = 1 + Len(todo) * k /\ StepsAhead' = 0
    BY <2>1 DEF StepsAhead
  <2> HIDE DEF k, s
  <2>3. QED
    BY <1>0, <2>2
<1>10. QED
  BY <1>1, <1>2, <1>3, <1>6, <1>7, <1>8, <1>9 DEF Next, Terminated

(***************************************************************************)
(* A sequential run ends: every step leaves fewer before it, and at the    *)
(* beginning there are at most two, and for each subtask one more than the *)
(* limit of its worker.                                                    *)
(***************************************************************************)
THEOREM RunIsBounded ==
    Spec => [](StepsAhead \in 0..MostSteps) /\ [][StepsAhead' < StepsAhead]_vars
<1>1. TypeInv /\ QueueInv /\ WorkerInv => StepsAhead \in 0..MostSteps
  <2> SUFFICES ASSUME TypeInv, QueueInv, WorkerInv
               PROVE  StepsAhead \in 0..MostSteps
    OBVIOUS
  <2> DEFINE k == MaxSteps + 1
             n == Cardinality(Ident)
  <2>1. /\ n \in Nat /\ Len(todo) \in Nat /\ Len(completed) \in Nat
        /\ MaxSteps \in Nat /\ k \in Nat
    BY AgentAssumption, FS_CardinalityType DEF TypeInv
  <2>2. Len(todo) \in 0..n
    <3>1. Len(plan) \in 0..n
      BY PlanIsShort DEF TypeInv, QueueInv
    <3>2. QED
      BY <2>1, <3>1 DEF QueueInv, Ended
  <2>3. /\ Len(todo) * k <= n * k /\ Len(todo) * k \in Nat /\ n * k \in Nat
        /\ Len(todo) > 0 => Len(todo) * k >= k
    BY <2>1, <2>2, StepsOfSubtasks
  <2>4. CASE pc = "working"
    <3>1. /\ Len(todo) > 0 /\ calls[Head(todo)] \in Nat
          /\ calls[Head(todo)] < MaxSteps
      BY <2>4, CallsOfCurrent
    <3>2. /\ StepsAhead = 1 + Len(todo) * k - (1 + calls[Head(todo)])
          /\ MostSteps = 2 + n * k /\ k = MaxSteps + 1
      BY <2>4 DEF StepsAhead, MostSteps
    <3> HIDE DEF k, n
    <3>3. QED
      BY <2>1, <2>3, <3>1, <3>2
  <2>5. CASE pc # "working"
    <3>1. /\ StepsAhead \in {2 + n * k, 1 + Len(todo) * k, 0}
          /\ MostSteps = 2 + n * k
      BY <2>5 DEF StepsAhead, MostSteps
    <3> HIDE DEF k, n
    <3>2. QED
      BY <2>1, <2>3, <3>1
  <2>6. QED
    BY <2>4, <2>5
<1>2. TypeInv /\ QueueInv /\ WorkerInv /\ TypeInv' /\ QueueInv' /\ [Next]_vars
          => [StepsAhead' < StepsAhead]_vars
  BY StepIsProgress
<1>3. QED
  BY <1>1, <1>2, LoopIsCorrect, PTL DEF Spec
=============================================================================
