-------------------------- MODULE ToolExecutorProofs --------------------------
(***************************************************************************)
(* Proofs about ToolExecutor, for any number of calls, any concurrency     *)
(* limit, with and without a timeout.                                      *)
(***************************************************************************)
EXTENDS ToolExecutor, FiniteSetTheorems, WellFoundedInduction, TLAPS

-----------------------------------------------------------------------------
(* The inductive invariant.  The parts that a pass changes are stated for  *)
(* any statuses, kinds and leads, since add_tool queues a call before the  *)
(* pass begins.                                                            *)

Active == {"check", "check_error", "start", "running", "store"}

\* A queued call comes after everything that has started.
Ordered(st) ==
    \A i, j \in Tools : i < j /\ st[i] = "Queued" => st[j] \in {"absent", "Queued"}

\* A call executes exactly while its task has not stored a result.
Linked(st, tk) == \A i \in Tools : st[i] = "Executing" <=> tk[i] \in Active

\* The calls present are the first ones.
Present(st, n) == \A i \in Tools : st[i] = "absent" <=> i > n

\* A non-safe call executes only with calls of the same pass.
LeadsAgree(st, sf, ld) ==
    \A i, j \in Tools :
        i # j /\ st[i] = "Executing" /\ st[j] = "Executing" /\ ~sf[i] => ld[i] = ld[j]

Limited(st) == Cardinality(In(st, "Executing")) <= max_concurrency

\* discard() leaves nothing in the queue.
Drained == discarded => In(status, "Queued") = {}

\* A notification that everything has finished is due, or came too early.
WakeUpDue ==
    waiter \in {"unlocked", "listening"} /\ AllDone =>
        missed \/ \E i \in Tools : task[i] \in {"dispatch", "notify"}

IInv ==
    /\ TypeOK
    /\ Present(status, added)
    /\ Linked(status, task)
    /\ LeadsAgree(status, safe, lead)
    /\ StartedInOrder
    /\ NonSafeInOrder
    /\ QueuedHasDriver
    /\ Drained
    /\ WakeUpDue

-----------------------------------------------------------------------------
(* Numbers and finite sets *)

\* A non-empty set of numbers has a least element.
LEMMA LeastNat ==
    ASSUME NEW T \in SUBSET Nat, T # {}
    PROVE  \E x \in T : \A y \in T : x <= y
  <1>1. PICK x \in T : \A y \in T : ~ (<<y, x>> \in OpToRel(<, Nat))
    BY NatLessThanWellFounded, WFMin, Zenon
  <1>2. ASSUME NEW y \in T, y < x
        PROVE  FALSE
    <2>1. /\ <<y, x>> \in Nat \X Nat
          /\ <<y, x>>[1] < <<y, x>>[2]
      BY <1>2
    <2>2. <<y, x>> \in OpToRel(<, Nat)
      BY <2>1, Zenon DEF OpToRel
    <2> QED
      BY <1>1, <2>2
  <1> QED
    BY <1>2

\* A non-empty set of calls has a first and a last one.
LEMMA FirstAndLast ==
    ASSUME NEW T \in SUBSET Tools, T # {}
    PROVE  /\ \E x \in T : \A y \in T : x <= y
           /\ \E x \in T : \A y \in T : y <= x
  <1>1. MaxTools \in Nat /\ T \in SUBSET Nat /\ \A x \in T : x <= MaxTools
    BY ExecutorAssumption DEF Tools
  <1>2. \E x \in T : \A y \in T : x <= y
    BY <1>1, LeastNat
  <1> DEFINE U == {MaxTools - x : x \in T}
  <1>3. U \in SUBSET Nat /\ U # {}
    <2>1. \A x \in T : MaxTools - x \in Nat
      BY <1>1
    <2> QED
      BY <2>1, Zenon
  <1>4. PICK u \in U : \A v \in U : u <= v
    BY <1>3, LeastNat
  <1>5. PICK x \in T : u = MaxTools - x
    OBVIOUS
  <1>6. ASSUME NEW y \in T
        PROVE  y <= x
    <2>1. u <= MaxTools - y
      BY <1>4
    <2> QED
      BY <1>1, <1>5, <2>1
  <1> QED
    BY <1>2, <1>6

\* Sets of calls are finite.
LEMMA ToolsFinite ==
    ASSUME NEW T \in SUBSET Tools
    PROVE  IsFiniteSet(T) /\ Cardinality(T) \in Nat
  <1>1. IsFiniteSet(Tools)
    BY ExecutorAssumption, FS_Interval DEF Tools
  <1> QED
    BY <1>1, FS_Subset, FS_CardinalityType

-----------------------------------------------------------------------------
(* What a pass chooses *)

\* Only queued calls, none that may not run beside what executes, and no call
\* before an earlier one that is queued.
LEMMA ChosenAllowed ==
    ASSUME NEW st \in [Tools -> Statuses], NEW sf \in [Tools -> BOOLEAN]
    PROVE  /\ to_dispatch(st, sf) \subseteq In(st, "Queued")
           /\ \A j \in to_dispatch(st, sf), k \in In(st, "Executing") : sf[j] /\ sf[k]
           /\ \A j \in to_dispatch(st, sf), i \in In(st, "Queued") :
                 i < j => i \in to_dispatch(st, sf)
  <1> DEFINE go == to_dispatch(st, sf)
  <1>1. go \subseteq In(st, "Queued")
    BY DEF to_dispatch
  <1>2. ASSUME NEW j \in go, NEW k \in In(st, "Executing")
        PROVE  sf[j] /\ sf[k]
    <2>1. can_execute(sf[j], st, sf)
      BY DEF to_dispatch, Blocked
    <2> QED
      BY <2>1 DEF can_execute
  <1>3. ASSUME NEW j \in go, NEW i \in In(st, "Queued"), i < j
        PROVE  i \in go
    <2>1. i \in Tools /\ j \in Tools /\ sf[i] \in BOOLEAN /\ sf[j] \in BOOLEAN
      BY <1>1 DEF In
    <2>2. can_execute(sf[j], st, sf)
      BY DEF to_dispatch, Blocked
    <2>3. \A k \in In(st, "Queued") : k < j /\ ~sf[k] => can_execute(FALSE, st, sf)
      BY DEF to_dispatch, Blocked
    <2>4. can_execute(sf[i], st, sf)
      <3>1. CASE sf[i] = FALSE
        BY <1>3, <2>3, <3>1
      <3>2. CASE sf[i] = TRUE
        BY <2>2, <3>2 DEF can_execute
      <3> QED
        BY <2>1, <3>1, <3>2
    <2>5. ~Blocked(i, st, sf)
      <3>1. \A k \in In(st, "Queued") : k < i => k < j
        BY <1>3, <2>1, ExecutorAssumption DEF In, Tools
      <3> QED
        BY <2>3, <2>4, <3>1 DEF Blocked
    <2>6. Ahead(i, st) \subseteq Ahead(j, st) /\ Ahead(j, st) \in SUBSET Tools
      BY <1>3, <2>1, ExecutorAssumption DEF Ahead, In, Tools
    <2>7. Cardinality(Ahead(i, st)) <= Cardinality(Ahead(j, st))
      BY <2>6, ToolsFinite, FS_Subset
    <2>8. Cardinality(In(st, "Executing")) + Cardinality(Ahead(j, st)) < max_concurrency
      BY DEF to_dispatch
    <2>9. /\ Cardinality(In(st, "Executing")) \in Nat
          /\ Cardinality(Ahead(i, st)) \in Nat
          /\ Cardinality(Ahead(j, st)) \in Nat
      <3>1. In(st, "Executing") \in SUBSET Tools
        BY DEF In
      <3> QED
        BY <2>6, <3>1, ToolsFinite
    <2>10. Cardinality(In(st, "Executing")) + Cardinality(Ahead(i, st)) < max_concurrency
      BY <2>7, <2>8, <2>9, ExecutorAssumption
    <2> QED
      BY <2>5, <2>10 DEF to_dispatch
  <1> QED
    BY <1>1, <1>2, <1>3

\* The calls chosen fit in the limit together with those that execute.
LEMMA ChosenFit ==
    ASSUME NEW st \in [Tools -> Statuses], NEW sf \in [Tools -> BOOLEAN], Limited(st)
    PROVE  Cardinality(In(st, "Executing") \cup to_dispatch(st, sf)) <= max_concurrency
  <1> DEFINE go == to_dispatch(st, sf)
             busy == In(st, "Executing")
  <1>1. go \in SUBSET Tools /\ busy \in SUBSET Tools
    BY DEF to_dispatch, In
  <1>2. CASE go = {}
    BY <1>2 DEF Limited
  <1>3. CASE go # {}
    <2>1. PICK m \in go : \A j \in go : j <= m
      BY <1>1, <1>3, FirstAndLast
    <2> DEFINE ahead == Ahead(m, st)
    <2>2. ahead \in SUBSET Tools /\ m \notin ahead /\ go \subseteq ahead \cup {m}
      BY <1>1, <2>1, ExecutorAssumption DEF Ahead, In, Tools, to_dispatch
    <2>3. Cardinality(busy) + Cardinality(ahead) < max_concurrency
      BY DEF to_dispatch
    <2>4. /\ IsFiniteSet(busy) /\ IsFiniteSet(ahead) /\ IsFiniteSet(go)
          /\ Cardinality(busy) \in Nat /\ Cardinality(ahead) \in Nat
          /\ Cardinality(go) \in Nat
      BY <1>1, <2>2, ToolsFinite
    <2>5. Cardinality(go) <= Cardinality(ahead) + 1
      <3>1. IsFiniteSet(ahead \cup {m}) /\ Cardinality(ahead \cup {m}) = Cardinality(ahead) + 1
        BY <2>2, <2>4, FS_AddElement
      <3> QED
        BY <2>2, <3>1, FS_Subset
    <2>6. Cardinality(busy \cup go) <= Cardinality(busy) + Cardinality(go)
      <3>1. Cardinality(busy \cup go)
              = Cardinality(busy) + Cardinality(go) - Cardinality(busy \cap go)
        BY <2>4, FS_Union
      <3>2. Cardinality(busy \cap go) \in Nat
        BY <1>1, ToolsFinite
      <3> QED
        BY <2>4, <3>1, <3>2
    <2>7. Cardinality(busy \cup go) \in Nat
      BY <1>1, ToolsFinite
    <2> QED
      BY <2>3, <2>4, <2>5, <2>6, <2>7, ExecutorAssumption
  <1> QED
    BY <1>2, <1>3

\* When nothing executes, the first call of the queue is chosen.
LEMMA ChosenWhenIdle ==
    ASSUME NEW st \in [Tools -> Statuses], NEW sf \in [Tools -> BOOLEAN],
           In(st, "Executing") = {}, In(st, "Queued") # {}
    PROVE  to_dispatch(st, sf) # {}
  <1>1. In(st, "Queued") \in SUBSET Tools
    BY DEF In
  <1>2. PICK i \in In(st, "Queued") : \A j \in In(st, "Queued") : i <= j
    BY <1>1, FirstAndLast
  <1>3. Ahead(i, st) = {}
    BY <1>1, <1>2, ExecutorAssumption DEF Ahead, Tools
  <1>4. ~Blocked(i, st, sf)
    BY DEF Blocked, can_execute
  <1>5. Cardinality(In(st, "Executing")) + Cardinality(Ahead(i, st)) < max_concurrency
    BY <1>3, FS_EmptySet, ExecutorAssumption
  <1> QED
    BY <1>4, <1>5 DEF to_dispatch

-----------------------------------------------------------------------------
(* What a pass does *)

\* A pass keeps the statuses in order and within the limit, links each call it
\* starts to its task, never starts a non-safe call beside one that executes,
\* and leaves nothing queued while nothing executes.
LEMMA PassKeeps ==
    ASSUME NEW st \in [Tools -> Statuses], NEW sf \in [Tools -> BOOLEAN],
           NEW tk \in [Tools -> Steps], NEW first \in {"check", "start"},
           NEW n \in Nat,
           lead \in [Tools -> 0 .. MaxTools],
           Limited(st), Ordered(st), Linked(st, tk), Present(st, n),
           LeadsAgree(st, sf, lead),
           Pass(st, sf, tk, first)
    PROVE  /\ status' \in [Tools -> Statuses]
           /\ task' \in [Tools -> Steps]
           /\ lead' \in [Tools -> 0 .. MaxTools]
           /\ Limited(status')
           /\ Ordered(status')
           /\ Linked(status', task')
           /\ Present(status', n)
           /\ LeadsAgree(status', sf, lead')
           /\ In(status', "Queued") # {} => In(status', "Executing") # {}
           /\ \A i \in Tools :
                 \/ status'[i] = st[i] /\ task'[i] = tk[i]
                 \/ st[i] = "Queued" /\ status'[i] = "Executing"
  <1> DEFINE go == to_dispatch(st, sf)
  <1>1. /\ go \subseteq In(st, "Queued")
        /\ \A j \in go, k \in In(st, "Executing") : sf[j] /\ sf[k]
        /\ \A j \in go, i \in In(st, "Queued") : i < j => i \in go
    BY ChosenAllowed
  <1>2. go \in SUBSET Tools /\ \A i \in go : st[i] = "Queued"
    BY <1>1 DEF In
  <1>3. /\ status' = [i \in Tools |-> IF i \in go THEN "Executing" ELSE st[i]]
        /\ task' = [i \in Tools |-> IF i \in go THEN first ELSE tk[i]]
    BY DEF Pass
  <1>4. /\ lead' \in [Tools -> 0 .. MaxTools]
        /\ \A i, j \in go : lead'[i] = lead'[j]
        /\ \A i \in Tools \ go : lead'[i] = lead[i]
    <2> DEFINE k0 == CHOOSE k \in go : \A j \in go : k <= j
    <2>1. lead' = [i \in Tools |-> IF i \in go THEN k0 ELSE lead[i]]
      BY DEF Pass
    <2>2. go # {} => k0 \in go
      BY <1>2, FirstAndLast
    <2>3. go # {} => k0 \in 0 .. MaxTools
      BY <1>2, <2>2, ExecutorAssumption DEF Tools
    <2> HIDE DEF k0
    <2> QED
      BY <1>2, <2>1, <2>3
  <1>5. status' \in [Tools -> Statuses] /\ task' \in [Tools -> Steps]
    BY <1>3 DEF Statuses, Steps
  <1>6. In(status', "Executing") = In(st, "Executing") \cup go
    BY <1>2, <1>3 DEF In
  <1>7. Limited(status')
    BY <1>6, ChosenFit DEF Limited
  <1>8. Ordered(status')
    <2>1. SUFFICES ASSUME NEW i \in Tools, NEW j \in Tools, i < j, status'[i] = "Queued"
                   PROVE  status'[j] \in {"absent", "Queued"}
      BY DEF Ordered
    <2>2. st[i] = "Queued" /\ i \notin go
      BY <1>3, <2>1
    <2>3. j \notin go
      BY <1>1, <2>1, <2>2 DEF In
    <2> QED
      BY <1>3, <2>1, <2>2, <2>3 DEF Ordered
  <1>9. Linked(status', task')
    BY <1>2, <1>3 DEF Linked, Active
  <1>10. Present(status', n)
    BY <1>2, <1>3 DEF Present
  <1>11. LeadsAgree(status', sf, lead')
    <2>1. SUFFICES ASSUME NEW i \in Tools, NEW j \in Tools, i # j, ~sf[i],
                          status'[i] = "Executing", status'[j] = "Executing"
                   PROVE  lead'[i] = lead'[j]
      BY DEF LeadsAgree
    <2>2. /\ i \in go \/ (i \notin go /\ st[i] = "Executing")
          /\ j \in go \/ (j \notin go /\ st[j] = "Executing")
      BY <1>3, <2>1
    <2>3. CASE i \in go /\ j \in go
      BY <1>4, <2>3
    <2>4. CASE i \notin go /\ j \notin go
      BY <1>4, <2>1, <2>2, <2>4 DEF LeadsAgree
    <2>5. CASE (i \in go /\ j \notin go) \/ (i \notin go /\ j \in go)
      BY <1>1, <2>1, <2>2, <2>5 DEF In
    <2> QED
      BY <2>3, <2>4, <2>5
  <1>12. ASSUME In(status', "Queued") # {}
         PROVE  In(status', "Executing") # {}
    <2>1. In(st, "Queued") # {}
      BY <1>3, <1>12 DEF In
    <2>2. In(st, "Executing") # {} \/ go # {}
      BY <2>1, ChosenWhenIdle
    <2> QED
      BY <1>6, <2>2
  <1>13. \A i \in Tools :
            \/ status'[i] = st[i] /\ task'[i] = tk[i]
            \/ st[i] = "Queued" /\ status'[i] = "Executing"
    BY <1>2, <1>3
  <1> QED
    BY <1>4, <1>5, <1>7, <1>8, <1>9, <1>10, <1>11, <1>12, <1>13

-----------------------------------------------------------------------------
(* Every step keeps the invariant *)

\* The conjunct of TypeOK that limits the calls, by its own name.
LEMMA TypeLimits == TypeOK => Limited(status)
  BY DEF TypeOK, Limited

\* Nothing has been added.
LEMMA InitOK == ExecutorInit => IInv
  <1> SUFFICES ASSUME ExecutorInit PROVE IInv
    OBVIOUS
  <1>1. In(status, "Executing") = {} /\ In(status, "Queued") = {}
    BY DEF ExecutorInit, In
  <1>2. TypeOK
    <2>1. Cardinality(In(status, "Executing")) <= max_concurrency
      BY <1>1, FS_EmptySet, ExecutorAssumption
    <2>2. added \in 0 .. MaxTools /\ lead \in [Tools -> 0 .. MaxTools]
      BY ExecutorAssumption DEF ExecutorInit
    <2>3. /\ safe \in [Tools -> BOOLEAN]
          /\ discarded \in BOOLEAN /\ has_errored \in BOOLEAN /\ missed \in BOOLEAN
      BY Zenon DEF ExecutorInit
    <2>4. /\ status \in [Tools -> Statuses]
          /\ task \in [Tools -> Steps]
          /\ body \subseteq Tools
          /\ waiter \in WaiterSteps
      BY DEF ExecutorInit, Statuses, Steps, WaiterSteps
    <2> QED
      BY <2>1, <2>2, <2>3, <2>4, Zenon DEF TypeOK
  <1>3. Present(status, added)
    BY ExecutorAssumption DEF ExecutorInit, Present, Tools
  <1>4. /\ Linked(status, task)
        /\ LeadsAgree(status, safe, lead)
        /\ StartedInOrder
        /\ NonSafeInOrder
    BY DEF ExecutorInit, Linked, Active, LeadsAgree, StartedInOrder, NonSafeInOrder
  <1>5. QueuedHasDriver /\ Drained /\ WakeUpDue
    BY <1>1 DEF ExecutorInit, QueuedHasDriver, Drained, WakeUpDue
  <1> QED
    BY <1>2, <1>3, <1>4, <1>5 DEF IInv

\* Queueing a call before the pass of add_tool keeps the parts a pass needs.
LEMMA QueueOne ==
    ASSUME IInv, added < MaxTools, NEW is_safe \in BOOLEAN
    PROVE  LET i == added + 1
               st == [status EXCEPT ![i] = "Queued"]
               sf == [safe EXCEPT ![i] = is_safe]
           IN  /\ i \in Tools
               /\ status[i] = "absent"
               /\ st \in [Tools -> Statuses]
               /\ sf \in [Tools -> BOOLEAN]
               /\ Limited(st) /\ Ordered(st) /\ Linked(st, task) /\ Present(st, i)
               /\ LeadsAgree(st, sf, lead)
  <1> DEFINE i == added + 1
             st == [status EXCEPT ![i] = "Queued"]
             sf == [safe EXCEPT ![i] = is_safe]
  <1>1. added \in Nat /\ i \in Tools
    BY ExecutorAssumption DEF IInv, TypeOK, Tools
  <1>2. status[i] = "absent" /\ \A j \in Tools : i < j => status[j] = "absent"
    BY <1>1, ExecutorAssumption DEF IInv, Present, Tools
  <1>3. st \in [Tools -> Statuses] /\ sf \in [Tools -> BOOLEAN]
    BY DEF IInv, TypeOK, Statuses
  <1>4. \A j \in Tools : st[j] = IF j = i THEN "Queued" ELSE status[j]
    BY DEF IInv, TypeOK
  <1>5. Limited(st)
    <2>1. In(st, "Executing") = In(status, "Executing")
      BY <1>2, <1>4 DEF In
    <2> QED
      BY <2>1, TypeLimits DEF IInv, Limited
  <1>6. Ordered(st)
    BY <1>1, <1>2, <1>4 DEF Ordered, IInv, StartedInOrder
  <1>7. Linked(st, task)
    BY <1>2, <1>4 DEF Linked, IInv
  <1>8. Present(st, i)
    BY <1>1, <1>2, <1>4, ExecutorAssumption DEF Present, IInv, Tools
  <1>9. LeadsAgree(st, sf, lead)
    <2>1. \A j \in Tools : j # i => sf[j] = safe[j]
      BY DEF IInv, TypeOK
    <2> QED
      BY <1>4, <2>1 DEF LeadsAgree, IInv
  <1> QED
    BY <1>1, <1>2, <1>3, <1>5, <1>6, <1>7, <1>8, <1>9

LEMMA AddToolKeeps ==
    ASSUME IInv, NEW is_safe \in BOOLEAN, add_tool(is_safe)
    PROVE  IInv'
  <1> DEFINE i == added + 1
             st == [status EXCEPT ![i] = "Queued"]
             sf == [safe EXCEPT ![i] = is_safe]
  <1>1. /\ added' = i /\ safe' = sf /\ Pass(st, sf, task, "check")
        /\ ~discarded /\ added < MaxTools
        /\ UNCHANGED <<body, flags, waitVars>>
    BY DEF add_tool
  <1>2. /\ i \in Tools
        /\ status[i] = "absent"
        /\ st \in [Tools -> Statuses]
        /\ sf \in [Tools -> BOOLEAN]
        /\ Limited(st) /\ Ordered(st) /\ Linked(st, task) /\ Present(st, i)
        /\ LeadsAgree(st, sf, lead)
    BY <1>1, QueueOne
  <1>3. i \in Nat /\ task \in [Tools -> Steps] /\ lead \in [Tools -> 0 .. MaxTools]
    BY ExecutorAssumption DEF IInv, TypeOK
  <1>4. /\ status' \in [Tools -> Statuses]
        /\ task' \in [Tools -> Steps]
        /\ lead' \in [Tools -> 0 .. MaxTools]
        /\ Limited(status')
        /\ Ordered(status')
        /\ Linked(status', task')
        /\ Present(status', i)
        /\ LeadsAgree(status', sf, lead')
        /\ In(status', "Queued") # {} => In(status', "Executing") # {}
        /\ \A j \in Tools :
              \/ status'[j] = st[j] /\ task'[j] = task[j]
              \/ st[j] = "Queued" /\ status'[j] = "Executing"
    <2> HIDE DEF st, sf, i
    <2> QED
      BY <1>1, <1>2, <1>3, PassKeeps
  <1>5. \A j \in Tools : st[j] = IF j = i THEN "Queued" ELSE status[j]
    BY DEF IInv, TypeOK
  <1>6. TypeOK'
    <2>1. added' \in 0 .. MaxTools
      BY <1>1, <1>3, ExecutorAssumption DEF IInv, TypeOK
    <2> QED
      BY <1>1, <1>2, <1>4, <2>1 DEF IInv, TypeOK, Limited, flags, waitVars
  <1>7. StartedInOrder'
    BY <1>4 DEF Ordered, StartedInOrder
  <1>8. NonSafeInOrder'
    <2>1. SUFFICES ASSUME NEW j \in Tools, NEW k \in Tools,
                          j < k, ~safe'[j], status'[k] = "Yielded"
                   PROVE  status'[j] = "Yielded"
      BY DEF NonSafeInOrder
    <2>2. k # i /\ status[k] = "Yielded"
      BY <1>4, <1>5, <2>1
    <2>3. k <= added
      BY <2>2, ExecutorAssumption DEF IInv, TypeOK, Present, Tools
    <2>4. j # i
      BY <1>3, <2>1, <2>3, ExecutorAssumption DEF IInv, TypeOK, Tools
    <2>5. safe'[j] = safe[j]
      BY <1>1, <2>4 DEF IInv, TypeOK
    <2>6. status[j] = "Yielded"
      BY <2>1, <2>2, <2>5 DEF IInv, NonSafeInOrder
    <2> QED
      BY <1>4, <1>5, <2>4, <2>6
  <1>9. QueuedHasDriver'
    BY <1>4 DEF QueuedHasDriver
  <1>10. Drained'
    BY <1>1 DEF Drained, flags
  <1>11. ~AllDone'
    <2>1. status'[i] \in {"Queued", "Executing"}
      BY <1>2, <1>4, <1>5
    <2>2. i \in 1 .. added'
      BY <1>1, <1>2, ExecutorAssumption DEF Tools, IInv, TypeOK
    <2> QED
      BY <2>1, <2>2 DEF AllDone
  <1> QED
    BY <1>1, <1>4, <1>6, <1>7, <1>8, <1>9, <1>10, <1>11 DEF IInv, WakeUpDue

LEMMA DispatchQueuedKeeps ==
    ASSUME IInv, NEW i \in Tools, dispatch_queued(i)
    PROVE  IInv'
  <1> DEFINE tk == [task EXCEPT ![i] = "notify"]
  <1>1. /\ task[i] = "dispatch" /\ Pass(status, safe, tk, "start")
        /\ UNCHANGED <<added, safe, body, flags, waitVars>>
    BY DEF dispatch_queued
  <1>2. tk \in [Tools -> Steps] /\ tk[i] = "notify"
    BY DEF IInv, TypeOK, Steps
  <1>3. Linked(status, tk)
    BY <1>1 DEF IInv, TypeOK, Linked, Active
  <1>4. /\ status \in [Tools -> Statuses] /\ safe \in [Tools -> BOOLEAN]
        /\ lead \in [Tools -> 0 .. MaxTools] /\ added \in Nat
        /\ Limited(status) /\ Ordered(status) /\ Present(status, added)
        /\ LeadsAgree(status, safe, lead)
    BY TypeLimits, ExecutorAssumption DEF IInv, TypeOK, StartedInOrder, Ordered
  <1>5. /\ status' \in [Tools -> Statuses]
        /\ task' \in [Tools -> Steps]
        /\ lead' \in [Tools -> 0 .. MaxTools]
        /\ Limited(status')
        /\ Ordered(status')
        /\ Linked(status', task')
        /\ Present(status', added)
        /\ LeadsAgree(status', safe, lead')
        /\ In(status', "Queued") # {} => In(status', "Executing") # {}
        /\ \A j \in Tools :
              \/ status'[j] = status[j] /\ task'[j] = tk[j]
              \/ status[j] = "Queued" /\ status'[j] = "Executing"
    <2> HIDE DEF tk
    <2> QED
      BY <1>1, <1>2, <1>3, <1>4, PassKeeps
  <1>6. TypeOK'
    BY <1>1, <1>5 DEF IInv, TypeOK, Limited, flags, waitVars
  <1>7. StartedInOrder'
    BY <1>5 DEF Ordered, StartedInOrder
  <1>8. NonSafeInOrder'
    BY <1>1, <1>5 DEF IInv, NonSafeInOrder
  <1>9. QueuedHasDriver'
    BY <1>5 DEF QueuedHasDriver
  <1>10. Drained'
    BY <1>1, <1>5 DEF IInv, Drained, In, flags
  <1>11. WakeUpDue'
    <2>1. ASSUME AllDone'
          PROVE  task'[i] = "notify"
      <3>1. CASE status'[i] = status[i] /\ task'[i] = tk[i]
        BY <1>2, <3>1
      <3>2. CASE status[i] = "Queued" /\ status'[i] = "Executing"
        <4>1. i \in 1 .. added'
          BY <1>1, <1>4, <3>2, ExecutorAssumption DEF Present, Tools
        <4> QED
          BY <2>1, <3>2, <4>1 DEF AllDone
      <3> QED
        BY <1>5, <3>1, <3>2
    <2> QED
      BY <2>1 DEF WakeUpDue
  <1> QED
    BY <1>1, <1>5, <1>6, <1>7, <1>8, <1>9, <1>10, <1>11 DEF IInv

\* A task that goes on before it stores a result, and a tool that starts or
\* returns, change nothing the invariant is about.
LEMMA TaskMoves ==
    ASSUME IInv, NEW i \in Tools, NEW to \in Steps,
           to = task[i] \/ (task[i] \in Active /\ to \in Active),
           task' = [task EXCEPT ![i] = to],
           body' \in SUBSET Tools,
           UNCHANGED <<added, safe, status, flags, waitVars, lead>>
    PROVE  IInv'
  <1>1. UNCHANGED <<added, safe, status, discarded, has_errored, waiter, missed, lead>>
    BY DEF flags, waitVars
  <1>2. /\ task' \in [Tools -> Steps]
        /\ \A j \in Tools : task'[j] \in Active <=> task[j] \in Active
        /\ \A j \in Tools : task[j] \in {"dispatch", "notify"} => task'[j] = task[j]
    BY DEF IInv, TypeOK, Active
  <1>3. TypeOK'
    BY <1>1, <1>2 DEF IInv, TypeOK
  <1>4. /\ Present(status, added)'
        /\ LeadsAgree(status, safe, lead)'
        /\ StartedInOrder'
        /\ NonSafeInOrder'
        /\ Drained'
    BY <1>1 DEF IInv, Present, LeadsAgree, StartedInOrder, NonSafeInOrder, Drained, In
  <1>5. Linked(status, task)'
    BY <1>1, <1>2 DEF IInv, Linked
  <1>6. QueuedHasDriver'
    BY <1>1, <1>2 DEF IInv, QueuedHasDriver, In
  <1>7. WakeUpDue'
    BY <1>1, <1>2 DEF IInv, WakeUpDue, AllDone
  <1> QED
    BY <1>3, <1>4, <1>5, <1>6, <1>7 DEF IInv

LEMMA StoreKeeps ==
    ASSUME IInv, NEW i \in Tools, Store(i)
    PROVE  IInv'
  <1>1. /\ task[i] = "store" /\ status[i] = "Executing"
        /\ task' = [task EXCEPT ![i] = "dispatch"]
        /\ status' = [status EXCEPT ![i] = "Completed"]
        /\ UNCHANGED <<added, safe, body, discarded, has_errored, waiter, missed, lead>>
    BY DEF Store, Goes, IInv, Linked, Active, flags, waitVars
  <1>2. /\ task' \in [Tools -> Steps] /\ status' \in [Tools -> Statuses]
        /\ task'[i] = "dispatch" /\ status'[i] = "Completed"
        /\ \A j \in Tools \ {i} : task'[j] = task[j] /\ status'[j] = status[j]
    BY <1>1 DEF IInv, TypeOK, Steps, Statuses
  <1>3. TypeOK'
    <2>1. In(status', "Executing") \subseteq In(status, "Executing")
      BY <1>2 DEF In
    <2>2. In(status, "Executing") \in SUBSET Tools /\ In(status', "Executing") \in SUBSET Tools
      BY DEF In
    <2>3. /\ Cardinality(In(status', "Executing")) <= Cardinality(In(status, "Executing"))
          /\ Cardinality(In(status', "Executing")) \in Nat
          /\ Cardinality(In(status, "Executing")) \in Nat
      BY <2>1, <2>2, ToolsFinite, FS_Subset
    <2>4. Cardinality(In(status', "Executing")) <= max_concurrency
      BY <2>3, ExecutorAssumption DEF IInv, TypeOK
    <2> QED
      BY <1>1, <1>2, <2>4 DEF IInv, TypeOK
  <1>4. Present(status, added)' /\ Linked(status, task)'
    BY <1>1, <1>2 DEF IInv, Present, Linked, Active
  <1>5. LeadsAgree(status, safe, lead)'
    BY <1>1, <1>2 DEF IInv, LeadsAgree
  <1>6. StartedInOrder' /\ NonSafeInOrder'
    BY <1>1, <1>2 DEF IInv, StartedInOrder, NonSafeInOrder
  <1>7. QueuedHasDriver' /\ WakeUpDue'
    BY <1>2 DEF QueuedHasDriver, WakeUpDue
  <1>8. Drained'
    BY <1>1, <1>2 DEF IInv, Drained, In
  <1> QED
    BY <1>3, <1>4, <1>5, <1>6, <1>7, <1>8 DEF IInv

LEMMA NotifyKeeps ==
    ASSUME IInv, NEW i \in Tools, Notify(i)
    PROVE  IInv'
  <1>1. /\ task[i] = "notify"
        /\ task' = [task EXCEPT ![i] = "done"]
        /\ waiter' = IF waiter = "listening" THEN "check" ELSE waiter
        /\ missed' = (missed \/ waiter = "unlocked")
        /\ UNCHANGED <<added, safe, status, body, discarded, has_errored, lead>>
    BY DEF Notify, Goes, notify_waiters, flags
  <1>2. /\ task' \in [Tools -> Steps] /\ task'[i] = "done"
        /\ \A j \in Tools \ {i} : task'[j] = task[j]
    BY <1>1 DEF IInv, TypeOK, Steps
  <1>3. missed' \in BOOLEAN
    BY <1>1, Zenon DEF IInv, TypeOK
  <1>4. TypeOK'
    BY <1>1, <1>2, <1>3 DEF IInv, TypeOK, WaiterSteps
  <1>5. /\ Present(status, added)'
        /\ LeadsAgree(status, safe, lead)'
        /\ StartedInOrder'
        /\ NonSafeInOrder'
        /\ Drained'
    BY <1>1 DEF IInv, Present, LeadsAgree, StartedInOrder, NonSafeInOrder, Drained, In
  <1>6. Linked(status, task)'
    BY <1>1, <1>2 DEF IInv, Linked, Active
  <1>7. QueuedHasDriver'
    BY <1>1, <1>2 DEF IInv, QueuedHasDriver, In
  <1>8. WakeUpDue'
    BY <1>1 DEF WakeUpDue
  <1> QED
    BY <1>4, <1>5, <1>6, <1>7, <1>8 DEF IInv

LEMMA DiscardKeeps ==
    ASSUME IInv, discard
    PROVE  IInv'
  <1>1. /\ discarded' = TRUE
        /\ status' = [i \in Tools |-> IF status[i] = "Queued" THEN "Completed" ELSE status[i]]
        /\ waiter' = IF waiter = "listening" THEN "check" ELSE waiter
        /\ missed' = (missed \/ waiter = "unlocked")
        /\ UNCHANGED <<added, safe, task, body, has_errored, lead>>
    BY DEF discard, notify_waiters
  <1>2. In(status', "Executing") = In(status, "Executing") /\ In(status', "Queued") = {}
    BY <1>1 DEF In
  <1>3. missed' \in BOOLEAN
    BY <1>1, Zenon DEF IInv, TypeOK
  <1>4. status' \in [Tools -> Statuses]
    BY <1>1 DEF IInv, TypeOK, Statuses
  <1>5. TypeOK'
    BY <1>1, <1>2, <1>3, <1>4 DEF IInv, TypeOK, WaiterSteps
  <1>6. Present(status, added)' /\ Linked(status, task)' /\ LeadsAgree(status, safe, lead)'
    BY <1>1 DEF IInv, Present, Linked, LeadsAgree
  <1>7. StartedInOrder' /\ NonSafeInOrder'
    BY <1>1 DEF IInv, StartedInOrder, NonSafeInOrder
  <1>8. QueuedHasDriver' /\ Drained' /\ WakeUpDue'
    BY <1>1, <1>2 DEF QueuedHasDriver, Drained, WakeUpDue
  <1> QED
    BY <1>5, <1>6, <1>7, <1>8 DEF IInv

\* Handing out results, from completed_results or at the end of a wait.
LEMMA CollectKeeps ==
    ASSUME IInv, Collect, missed' = missed, waiter' \in {waiter, "idle"}
    PROVE  IInv'
  <1>1. /\ status' = [i \in Tools |-> IF i \in Collectable THEN "Yielded" ELSE status[i]]
        /\ UNCHANGED <<added, safe, task, body, discarded, has_errored, lead>>
    BY DEF Collect, flags
  <1>2. /\ Collectable \in SUBSET Tools /\ \A i \in Collectable : status[i] = "Completed"
        /\ \A i \in Collectable, j \in Tools : status[j] = "Executing" /\ j < i => safe[j]
    BY DEF Collectable, In
  <1>3. status' \in [Tools -> Statuses]
    BY <1>1 DEF IInv, TypeOK, Statuses
  <1>4. /\ In(status', "Executing") = In(status, "Executing")
        /\ In(status', "Queued") = In(status, "Queued")
    BY <1>1, <1>2 DEF In
  <1>5. TypeOK'
    BY <1>1, <1>3, <1>4 DEF IInv, TypeOK, WaiterSteps
  <1>6. Present(status, added)' /\ Linked(status, task)' /\ LeadsAgree(status, safe, lead)'
    BY <1>1, <1>2 DEF IInv, Present, Linked, LeadsAgree
  <1>7. StartedInOrder'
    BY <1>1, <1>2 DEF IInv, StartedInOrder
  <1>8. NonSafeInOrder'
    <2>1. SUFFICES ASSUME NEW i \in Tools, NEW j \in Tools,
                          i < j, ~safe[i], status'[j] = "Yielded"
                   PROVE  status'[i] = "Yielded"
      BY <1>1 DEF NonSafeInOrder
    <2>2. CASE status[j] = "Yielded"
      BY <1>1, <2>1, <2>2 DEF IInv, NonSafeInOrder
    <2>3. CASE j \in Collectable
      <3>1. status[j] = "Completed" /\ status[i] \in Statuses
        BY <1>2, <2>3 DEF IInv, TypeOK
      <3>2. status[i] # "Executing"
        BY <1>2, <2>1, <2>3
      <3>3. status[i] # "Queued"
        BY <2>1, <3>1 DEF IInv, StartedInOrder
      <3>4. status[i] # "absent"
        BY <2>1, <3>1, ExecutorAssumption DEF IInv, Present, TypeOK, Tools
      <3>5. CASE status[i] = "Completed"
        <4>1. \A k \in In(status, "Executing") : k < i => safe[k]
          BY <1>2, <2>1, <2>3, ExecutorAssumption DEF In, Tools
        <4>2. i \in Collectable
          BY <3>5, <4>1 DEF Collectable, In
        <4> QED
          BY <1>1, <4>2
      <3>6. CASE status[i] = "Yielded"
        BY <1>1, <3>6
      <3> QED
        BY <3>1, <3>2, <3>3, <3>4, <3>5, <3>6 DEF Statuses
    <2> QED
      BY <1>1, <2>1, <2>2, <2>3
  <1>9. QueuedHasDriver' /\ Drained'
    BY <1>1, <1>4 DEF IInv, QueuedHasDriver, Drained
  <1>10. WakeUpDue'
    <2>1. AllDone' => AllDone
      <3>1. 1 .. added \subseteq Tools
        BY ExecutorAssumption DEF IInv, TypeOK, Tools
      <3> QED
        BY <1>1, <1>2, <3>1 DEF AllDone
    <2> QED
      BY <1>1, <2>1 DEF IInv, WakeUpDue
  <1> QED
    BY <1>5, <1>6, <1>7, <1>8, <1>9, <1>10 DEF IInv

\* Steps that only move the waiter or set has_errored.
LEMMA WaiterMoves ==
    ASSUME IInv, UNCHANGED <<added, safe, status, task, body, discarded, lead>>,
           has_errored' \in BOOLEAN, missed' \in BOOLEAN, waiter' \in WaiterSteps, WakeUpDue'
    PROVE  IInv'
  BY DEF IInv, TypeOK, Present, Linked, LeadsAgree, StartedInOrder, NonSafeInOrder,
         QueuedHasDriver, Drained, In

LEMMA WaitKeeps ==
    ASSUME IInv, BeginWait \/ WaitStep \/ mark_error \/ completed_results
    PROVE  IInv'
  <1>1. CASE BeginWait
    <2>1. WakeUpDue'
      BY <1>1 DEF BeginWait, WakeUpDue
    <2> QED
      BY <1>1, <2>1, WaiterMoves DEF BeginWait, flags, WaiterSteps, IInv, TypeOK
  <1>2. CASE CheckAllDone
    <2>1. AllDone' <=> AllDone
      BY <1>2 DEF CheckAllDone, AllDone
    <2>2. WakeUpDue'
      BY <1>2, <2>1 DEF CheckAllDone, WakeUpDue
    <2> QED
      BY <1>2, <2>2, WaiterMoves DEF CheckAllDone, flags, WaiterSteps, IInv, TypeOK
  <1>3. CASE Listen
    <2>1. WakeUpDue'
      BY <1>3 DEF Listen, WakeUpDue, AllDone, IInv
    <2> QED
      BY <1>3, <2>1, WaiterMoves DEF Listen, flags, WaiterSteps, IInv, TypeOK
  <1>4. CASE EndWait
    BY <1>4, CollectKeeps DEF EndWait
  <1>5. CASE mark_error
    <2>1. WakeUpDue'
      BY <1>5 DEF mark_error, WakeUpDue, AllDone, IInv, waitVars
    <2> QED
      BY <1>5, <2>1, WaiterMoves DEF mark_error, waitVars, IInv, TypeOK
  <1>6. CASE completed_results
    BY <1>6, CollectKeeps DEF completed_results, waitVars
  <1> QED
    BY <1>1, <1>2, <1>3, <1>4, <1>5, <1>6 DEF WaitStep

LEMMA TaskKeeps ==
    ASSUME IInv, NEW i \in Tools, TaskStep(i) \/ ToolReturns(i)
    PROVE  IInv'
  <1>1. ASSUME NEW from \in Active, NEW to \in Active, Goes(i, from, to),
               body' \in SUBSET Tools,
               UNCHANGED <<added, safe, status, flags, waitVars, lead>>
        PROVE  IInv'
    <2>1. to \in Steps
      BY DEF Active, Steps
    <2> QED
      BY <1>1, <2>1, TaskMoves DEF Goes
  <1>2. body \in SUBSET Tools
    BY DEF IInv, TypeOK
  <1>3. CASE CheckDiscarded(i)
    BY <1>1, <1>2, <1>3 DEF CheckDiscarded, Active
  <1>4. CASE CheckErrored(i)
    BY <1>1, <1>2, <1>4 DEF CheckErrored, Active
  <1>5. CASE StartTool(i)
    BY <1>1, <1>2, <1>5 DEF StartTool, Active
  <1>6. CASE Timeout(i)
    BY <1>1, <1>2, <1>6 DEF Timeout, Active
  <1>7. CASE ToolReturns(i)
    <2> DEFINE to == IF task[i] = "running" THEN "store" ELSE task[i]
    <2>1. to \in Steps /\ (to = task[i] \/ (task[i] \in Active /\ to \in Active))
      BY DEF IInv, TypeOK, Steps, Active
    <2>2. task' = [task EXCEPT ![i] = to] /\ body' \in SUBSET Tools
      BY <1>2, <1>7 DEF ToolReturns
    <2> QED
      BY <1>7, <2>1, <2>2, TaskMoves DEF ToolReturns
  <1> QED
    BY <1>3, <1>4, <1>5, <1>6, <1>7, StoreKeeps, DispatchQueuedKeeps, NotifyKeeps DEF TaskStep

LEMMA StepKeeps == IInv /\ [ExecutorNext]_vars => IInv'
  <1> SUFFICES ASSUME IInv, [ExecutorNext]_vars PROVE IInv'
    OBVIOUS
  <1>1. CASE \E is_safe \in BOOLEAN : add_tool(is_safe)
    BY <1>1, AddToolKeeps
  <1>2. CASE discard
    BY <1>2, DiscardKeeps
  <1>3. CASE BeginWait \/ WaitStep \/ mark_error \/ completed_results
    BY <1>3, WaitKeeps
  <1>4. CASE \E i \in Tools : TaskStep(i) \/ ToolReturns(i)
    BY <1>4, TaskKeeps
  <1>5. CASE UNCHANGED vars
    <2>1. WakeUpDue'
      BY <1>5 DEF vars, IInv, WakeUpDue, AllDone
    <2> QED
      BY <1>5, <2>1, WaiterMoves DEF vars, IInv, TypeOK
  <1> QED
    BY <1>1, <1>2, <1>3, <1>4, <1>5 DEF ExecutorNext

-----------------------------------------------------------------------------
(* Theorems *)

\* The inductive invariant holds of every behaviour of the executor.
THEOREM Invariance == ExecutorSpec => []IInv
  BY InitOK, StepKeeps, PTL DEF ExecutorSpec

\* Every variable keeps its type and no more than max_concurrency calls
\* execute, whoever runs the passes of StreamingToolExecutor.
THEOREM TypeCorrect == ExecutorSpec => []TypeOK
  <1>1. IInv => TypeOK
    BY DEF IInv
  <1> QED
    BY <1>1, Invariance, PTL

\* A queued call always has an executing call, or a task about to run
\* dispatch_queued, that will look at the queue.
THEOREM DriverCorrect == ExecutorSpec => []QueuedHasDriver
  <1>1. IInv => QueuedHasDriver
    BY DEF IInv
  <1> QED
    BY <1>1, Invariance, PTL

\* Calls start in the order in which add_tool received them.
THEOREM OrderCorrect == ExecutorSpec => []StartedInOrder
  <1>1. IInv => StartedInOrder
    BY DEF IInv
  <1> QED
    BY <1>1, Invariance, PTL

\* completed_results keeps results behind those of earlier non-safe calls.
THEOREM ResultsCorrect == ExecutorSpec => []NonSafeInOrder
  <1>1. IInv => NonSafeInOrder
    BY DEF IInv
  <1> QED
    BY <1>1, Invariance, PTL

\* A non-safe tool shares the machine only with calls of its own pass and with
\* tools whose call was given up at the timeout.
THEOREM AloneCorrect == ExecutorSpec => []AloneUnlessSamePass
  <1>1. IInv => AloneUnlessSamePass
    BY DEF IInv, TypeOK, Linked, Active, LeadsAgree, AloneUnlessSamePass
  <1> QED
    BY <1>1, Invariance, PTL

\* wait_for_remaining oversleeps only because of a notification that came
\* between its look at the statuses and its listening.
THEOREM WakeUpCorrect == ExecutorSpec => []SleepsOnlyIfMissed
  <1>1. IInv => SleepsOnlyIfMissed
    BY DEF IInv, WakeUpDue, SleepsOnlyIfMissed
  <1> QED
    BY <1>1, Invariance, PTL

\* A task gets past its look at the flag only if the flag was not set, or was
\* spawned by a pass over a queue that discard() has not emptied.
LEMMA DiscardedStep ==
    ASSUME IInv, discarded, [ExecutorNext]_vars
    PROVE  LetThrough' \subseteq LetThrough
  <1>1. CASE \E i \in Tools : dispatch_queued(i)
    <2>1. PICK i \in Tools : dispatch_queued(i)
      BY <1>1
    <2>2. to_dispatch(status, safe) = {}
      BY DEF IInv, Drained, to_dispatch
    <2>3. /\ task' = [k \in Tools |-> [task EXCEPT ![i] = "notify"][k]]
          /\ body' = body
      BY <2>1, <2>2 DEF dispatch_queued, Pass
    <2> QED
      BY <2>3 DEF LetThrough, IInv, TypeOK
  <1>2. CASE \E i \in Tools : \/ CheckDiscarded(i) \/ CheckErrored(i) \/ StartTool(i)
                              \/ Timeout(i) \/ Store(i) \/ Notify(i) \/ ToolReturns(i)
    <2>1. PICK i \in Tools : \/ CheckDiscarded(i) \/ CheckErrored(i) \/ StartTool(i)
                             \/ Timeout(i) \/ Store(i) \/ Notify(i) \/ ToolReturns(i)
      BY <1>2
    <2>2. \A k \in Tools \ {i} : task'[k] = task[k] /\ (k \in body' <=> k \in body)
      BY <2>1 DEF CheckDiscarded, CheckErrored, StartTool, Timeout, Store, Notify,
                  ToolReturns, Goes, IInv, TypeOK
    <2>3. body' \subseteq Tools
      BY <2>1 DEF CheckDiscarded, CheckErrored, StartTool, Timeout, Store, Notify,
                  ToolReturns, IInv, TypeOK
    <2>4. i \in LetThrough' => i \in LetThrough
      BY <2>1 DEF CheckDiscarded, CheckErrored, StartTool, Timeout, Store, Notify,
                  ToolReturns, Goes, LetThrough, IInv, TypeOK
    <2> QED
      BY <2>2, <2>3, <2>4 DEF LetThrough
  <1>3. CASE UNCHANGED <<task, body>>
    BY <1>3 DEF LetThrough
  <1>4. \/ UNCHANGED <<task, body>>
        \/ \E i \in Tools : dispatch_queued(i)
        \/ \E i \in Tools : \/ CheckDiscarded(i) \/ CheckErrored(i) \/ StartTool(i)
                           \/ Timeout(i) \/ Store(i) \/ Notify(i) \/ ToolReturns(i)
    BY DEF ExecutorNext, vars, add_tool, mark_error, BeginWait, WaitStep, CheckAllDone,
           Listen, EndWait, Collect, completed_results, discard, TaskStep
  <1> QED
    BY <1>1, <1>2, <1>3, <1>4

\* After discard() no tool joins those that run or are about to, although
\* tasks spawned by dispatch_queued do not look at the flag.
THEOREM DiscardCorrect == ExecutorSpec => NoneLetThroughAfterDiscard
  <1>1. IInv /\ [ExecutorNext]_vars => [discarded => LetThrough' \subseteq LetThrough]_vars
    BY DiscardedStep
  <1> QED
    BY <1>1, Invariance, PTL DEF ExecutorSpec, NoneLetThroughAfterDiscard
=============================================================================
