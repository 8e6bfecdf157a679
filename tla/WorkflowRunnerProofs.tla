------------------------ MODULE WorkflowRunnerProofs ------------------------
(***************************************************************************)
(* Reflection edits the order the runner is walking.  For any plans, any   *)
(* configured repairs, any limits: no node is run twice or loses its       *)
(* result, the nodes are worked off in order, "completed" means all of     *)
(* them, and no node is inserted once the rounds are used up.  When plans  *)
(* and repairs execute what they make, only executed SQL is judged; when   *)
(* the steps suffice for the repairs, nothing but a failure of its own     *)
(* keeps a run from completing.                                            *)
(*                                                                         *)
(* A node is fresh when it is inserted because its id carries the round,   *)
(* and every node of the order is of an earlier one (RoundsPast); that the *)
(* current node alone may be neither completed nor pending (Frontier) is   *)
(* what an insertion right behind it preserves.  What the nodes still      *)
(* ahead will find is SqlInv; how long the order can get is SizeInv.       *)
(***************************************************************************)
EXTENDS WorkflowRunner, ParallelStep, TLAPS, SequenceTheorems

Node == [round : Nat, pos : Nat, type : NodeTypes]
NodeStatus == {"pending", "completed", "failed"}

-----------------------------------------------------------------------------
\* What inserting a batch behind position "at" makes of an order.
LEMMA InsertShape ==
  ASSUME NEW order \in Seq(Node), NEW batch \in Seq(Node), NEW at \in 1 .. Len(order)
  PROVE  LET new == Insert(order, at, batch)
         IN  /\ new \in Seq(Node)
             /\ Len(new) = Len(order) + Len(batch)
             /\ \A k \in 1 .. at : new[k] = order[k]
             /\ \A k \in at + 1 .. at + Len(batch) : new[k] = batch[k - at]
             /\ \A k \in at + Len(batch) + 1 .. Len(new) : new[k] = order[k - Len(batch)]
<1> DEFINE n == Len(order) + Len(batch)
           new == Insert(order, at, batch)
<1>1. Len(order) \in Nat /\ Len(batch) \in Nat /\ n \in Nat
  BY LenProperties
<1>2. \A k \in 1 .. n : (IF k <= at THEN order[k]
                         ELSE IF k <= at + Len(batch) THEN batch[k - at]
                         ELSE order[k - Len(batch)]) \in Node
  <2> SUFFICES ASSUME NEW k \in 1 .. n
               PROVE  /\ k <= at => order[k] \in Node
                      /\ k > at /\ k <= at + Len(batch) => batch[k - at] \in Node
                      /\ k > at + Len(batch) => order[k - Len(batch)] \in Node
    BY <1>1
  <2>1. k <= at => k \in 1 .. Len(order)
    BY <1>1
  <2>2. k > at /\ k <= at + Len(batch) => k - at \in 1 .. Len(batch)
    BY <1>1
  <2>3. k > at + Len(batch) => k - Len(batch) \in 1 .. Len(order)
    BY <1>1
  <2> QED BY <2>1, <2>2, <2>3, ElementOfSeq
<1>3. new = [k \in 1 .. n |-> IF k <= at THEN order[k]
                              ELSE IF k <= at + Len(batch) THEN batch[k - at]
                              ELSE order[k - Len(batch)]]
  BY DEF Insert
<1> HIDE DEF new, n
<1>4. new \in Seq(Node) /\ Len(new) = n
  BY <1>1, <1>2, <1>3
<1>5. /\ \A k \in 1 .. at : new[k] = order[k]
      /\ \A k \in at + 1 .. at + Len(batch) : new[k] = batch[k - at]
      /\ \A k \in at + Len(batch) + 1 .. n : new[k] = order[k - Len(batch)]
  BY <1>1, <1>3 DEF n
<1> QED BY <1>4, <1>5 DEF n, new

-----------------------------------------------------------------------------
\* The inductive invariant.

\* The order and the place in it.
Shape ==
  /\ node_order \in Seq(Node)
  /\ index \in 1 .. Len(node_order)
  /\ reflection_round \in Nat
  /\ status \in [NodesOf(node_order) -> NodeStatus]
  /\ maxRound \in Int

\* Every node's id is of a round that has been counted.
RoundsPast == \A k \in 1 .. Len(node_order) : node_order[k].round <= reflection_round

Frontier ==
  /\ \A k \in 1 .. index - 1 : status[node_order[k]] = "completed"
  /\ \A k \in index + 1 .. Len(node_order) : status[node_order[k]] = "pending"

Here ==
  /\ wfStatus \in {"pending", "completed"}
  /\ pc = "init" => index = 1
  /\ pc \in {"init", "evaluate"} => wfStatus = "pending"
  /\ pc = "evaluate" => status[current] = "completed"
  /\ pc \in {"init", "loop"} /\ wfStatus = "pending" => status[current] = "pending"
  /\ wfStatus = "completed" => index = Len(node_order) /\ status[current] = "completed"

OrderInv == Shape /\ NoNodeTwice /\ RoundsPast /\ Frontier /\ Here

LEMMA OrderInit == Init => OrderInv
<1> SUFFICES ASSUME Init PROVE OrderInv
  OBVIOUS
<1>1. plan \in Seq(NodeTypes) /\ Len(plan) \in Nat
  BY PlansAssumption, LenProperties DEF Init
<1> DEFINE n == Len(plan) + 1
<1>2. node_order = [k \in 1 .. n |-> PlanNode(k - 1, IF k = 1 THEN "start" ELSE plan[k - 1])]
  BY DEF Init, PlanOrder
<1>3. \A k \in 1 .. n : (IF k = 1 THEN "start" ELSE plan[k - 1]) \in NodeTypes
  <2> SUFFICES ASSUME NEW k \in 1 .. n PROVE (IF k = 1 THEN "start" ELSE plan[k - 1]) \in NodeTypes
    OBVIOUS
  <2>1. CASE k = 1
    BY <2>1, NodeTypesAssumption
  <2>2. CASE k # 1
    <3>1. k - 1 \in 1 .. Len(plan)
      BY <1>1, <2>2
    <3>2. plan[k - 1] \in NodeTypes
      BY <1>1, <3>1, ElementOfSeq
    <3> QED BY <2>2, <3>2
  <2> QED BY <2>1, <2>2
<1>4. \A k \in 1 .. n : PlanNode(k - 1, IF k = 1 THEN "start" ELSE plan[k - 1]) \in Node
  BY <1>1, <1>3 DEF PlanNode, Node
<1>5. n \in Nat \ {0}
  BY <1>1
<1> HIDE DEF n
<1>6. node_order \in Seq(Node) /\ Len(node_order) = n
  BY <1>2, <1>4, <1>5
<1>7. \A k \in 1 .. n : node_order[k].round = 0 /\ node_order[k].pos = k - 1
  BY <1>2 DEF PlanNode
<1>8. /\ index = 1 /\ reflection_round = 0 /\ wfStatus = "pending" /\ pc = "init"
      /\ status = [m \in NodesOf(node_order) |-> "pending"]
      /\ maxRound \in Int
  BY RoundLimitsAssumption DEF Init
<1>9. Shape
  BY <1>5, <1>6, <1>8 DEF Shape, NodeStatus
<1>10. NoNodeTwice
  BY <1>5, <1>6, <1>7 DEF NoNodeTwice
<1>11. RoundsPast
  BY <1>6, <1>7, <1>8 DEF RoundsPast
<1>12. Frontier /\ Here
  BY <1>5, <1>6, <1>8 DEF Frontier, Here, NodesOf, current
<1> QED BY <1>9, <1>10, <1>11, <1>12 DEF OrderInv

\* A node other than the current one is not the current one.
LEMMA CurrentApart ==
  ASSUME OrderInv
  PROVE  /\ current \in NodesOf(node_order)
         /\ \A k \in 1 .. Len(node_order) : /\ node_order[k] \in NodesOf(node_order)
                                            /\ node_order[k] = current <=> k = index
BY DEF OrderInv, Shape, NoNodeTwice, NodesOf, current

\* The current node changes its status, the order stays, and the place with it.
LEMMA MarkKeeps ==
  ASSUME OrderInv, NEW s \in NodeStatus, status' = [status EXCEPT ![current] = s],
         UNCHANGED <<node_order, index, reflection_round, maxRound>>, Here'
  PROVE  OrderInv'
<1>1. Shape'
  BY CurrentApart DEF OrderInv, Shape
<1>2. \A k \in 1 .. Len(node_order) : k # index => status'[node_order[k]] = status[node_order[k]]
  BY CurrentApart DEF OrderInv, Shape
<1>3. Frontier'
  BY <1>2 DEF OrderInv, Shape, Frontier
<1>4. NoNodeTwice' /\ RoundsPast'
  BY DEF OrderInv, NoNodeTwice, RoundsPast
<1> QED BY <1>1, <1>3, <1>4 DEF OrderInv

\* The second half of evaluate_result, over an order and statuses in which all up
\* to the current node is completed and all behind it pending.
LEMMA SetUpKeeps ==
  ASSUME NEW nodes, NEW trouble, SetUpNext(nodes, trouble),
         node_order' \in Seq(Node), index \in 1 .. Len(node_order'),
         nodes \in [NodesOf(node_order') -> NodeStatus],
         reflection_round' \in Nat, maxRound' \in Int,
         NoNodeTwice', RoundsPast', wfStatus = "pending",
         node_order'[index] = current,
         \A k \in 1 .. index : nodes[node_order'[k]] = "completed",
         \A k \in index + 1 .. Len(node_order') : nodes[node_order'[k]] = "pending"
  PROVE  OrderInv'
<1>1. Len(node_order') \in Nat
  BY LenProperties
<1>2. CASE status' = nodes /\ Advance
  <2>1. CASE index >= Len(node_order')
    <3>1. wfStatus' = "completed" /\ index' = index /\ pc' = "loop" /\ index = Len(node_order')
      BY <1>1, <1>2, <2>1 DEF Advance
    <3>2. Shape' /\ Frontier' /\ Here'
      BY <1>1, <1>2, <3>1 DEF Shape, Frontier, Here, current
    <3> QED BY <3>2 DEF OrderInv
  <2>2. CASE index < Len(node_order')
    <3>1. wfStatus' = "pending" /\ index' = index + 1 /\ pc' = "loop"
      BY <1>1, <1>2, <2>2 DEF Advance
    <3>2. Shape' /\ Frontier' /\ Here'
      BY <1>1, <1>2, <2>2, <3>1 DEF Shape, Frontier, Here, current
    <3> QED BY <3>2 DEF OrderInv
  <2> QED BY <1>1, <2>1, <2>2
<1>3. CASE /\ status' = [nodes EXCEPT ![current] = "failed"]
           /\ pc' = "finalize"
           /\ UNCHANGED <<index, wfStatus>>
  <2>1. \A k \in 1 .. Len(node_order') : k # index => node_order'[k] # current
    BY DEF NoNodeTwice
  <2>2. Shape'
    BY <1>3 DEF Shape, NodeStatus
  <2>3. Frontier'
    BY <1>1, <1>3, <2>1 DEF Frontier, NodesOf
  <2>4. Here'
    BY <1>3 DEF Here
  <2> QED BY <2>2, <2>3, <2>4 DEF OrderInv
<1> QED BY <1>2, <1>3 DEF SetUpNext

-----------------------------------------------------------------------------
\* What a reflection does to the order: a batch of fresh, distinct nodes of the new
\* round right behind the current node, and none once the limit is passed.
Reflects(batch) ==
  /\ reflection_round' = reflection_round + 1
  /\ node_order' = Insert(node_order, index, batch)
  /\ \A k \in 1 .. Len(batch) : batch[k].round = reflection_round + 1
  /\ \A i, j \in 1 .. Len(batch) : batch[i] = batch[j] => i = j
  /\ batch # <<>> => reflection_round < maxRound
  /\ SetUpNext([n \in NodesOf(node_order') |->
                  IF n \in NodesOf(batch) THEN "pending" ELSE status[n]], FALSE)

\* The batch is the repair of the round, if there is one.
Inserts(batch) ==
  \/ batch = <<>> /\ sql' = sql
  \/ /\ reflection_round + 1 <= maxRound
     /\ sql' \in {"made", sql}
     /\ \E s \in Repairs :
          /\ reflection_round + 1 = maxRound => s = "REASONING"
          /\ Len(batch) = Len(ReflectionNodes[s])
          /\ \A k \in 1 .. Len(batch) : batch[k].type = ReflectionNodes[s][k]

LEMMA ReflectBatch ==
  ASSUME OrderInv, EvaluateReflect
  PROVE  \E batch \in Seq(Node) : Reflects(batch) /\ Inserts(batch)
<1> DEFINE r == reflection_round + 1
           repair == Repair(strategy, r)
           types == IF repair = {} THEN <<>> ELSE ReflectionNodes[CHOOSE s \in repair : TRUE]
           batch == [k \in 1 .. Len(types) |-> ReflectNodeId(r, types[k])]
<1>1. r \in Nat /\ reflection_round' = r
  BY DEF OrderInv, Shape, EvaluateReflect
<1>2. /\ node_order' = Insert(node_order, index, batch)
      /\ SetUpNext([n \in NodesOf(node_order') |->
                      IF n \in NodesOf(batch) THEN "pending" ELSE status[n]], FALSE)
  BY <1>1 DEF EvaluateReflect
<1>13. sql' \in IF repair = {"SIMPLE_REGENERATE"} THEN {"made", sql} ELSE {sql}
  BY <1>1 DEF EvaluateReflect
<1>3. /\ repair \subseteq Repairs /\ (repair # {} => reflection_round < maxRound)
      /\ repair # {} /\ r = maxRound => repair = {"REASONING"}
  BY DEF Repair, Repairs, OrderInv, Shape
<1>10. repair = {} => sql' = sql
  BY <1>13
<1>11. sql' \in {"made", sql}
  BY <1>13
<1> HIDE DEF repair, r
<1>4. /\ types \in Seq(NodeTypes) /\ Len(types) \in Nat
      /\ \A i, j \in 1 .. Len(types) : types[i] = types[j] => i = j
      /\ types # <<>> => reflection_round < maxRound
  <2>1. CASE repair = {}
    BY <2>1
  <2>2. CASE repair # {}
    <3> DEFINE s == CHOOSE x \in repair : TRUE
    <3>1. s \in Repairs
      BY <1>3, <2>2
    <3>2. types = ReflectionNodes[s]
      BY <2>2
    <3> HIDE DEF s, types
    <3>3. types \in Seq(NodeTypes)
      BY <3>1, <3>2, ReflectionNodesAssumption
    <3>4. DOMAIN types = 1 .. Len(types) /\ Len(types) \in Nat
      BY <3>3, LenProperties
    <3> QED BY <1>3, <2>2, <3>1, <3>2, <3>3, <3>4, DistinctTypesAssumption
  <2> QED BY <2>1, <2>2
<1> HIDE DEF types
<1>5. \A k \in 1 .. Len(types) : ReflectNodeId(r, types[k]) \in Node
  BY <1>1, <1>4 DEF ReflectNodeId, Node
<1>6. batch \in Seq(Node) /\ Len(batch) = Len(types)
  BY <1>4, <1>5
<1>7. \A k \in 1 .. Len(batch) : batch[k].round = r /\ batch[k].type = types[k]
  BY <1>6 DEF ReflectNodeId
<1>8. batch # <<>> => types # <<>>
  BY <1>4, <1>6
<1> HIDE DEF batch
<1>9. Reflects(batch)
  BY <1>1, <1>2, <1>4, <1>6, <1>7, <1>8 DEF Reflects, r
<1>12. Inserts(batch)
  <2>1. CASE repair = {}
    <3>1. types = <<>>
      BY <2>1 DEF types
    <3>2. batch = <<>>
      BY <1>8, <3>1
    <3> QED BY <1>10, <2>1, <3>2 DEF Inserts
  <2>2. CASE repair # {}
    <3> DEFINE s == CHOOSE x \in repair : TRUE
    <3>1. s \in Repairs /\ s \in repair
      BY <1>3, <2>2
    <3>2. types = ReflectionNodes[s]
      BY <2>2 DEF types
    <3> HIDE DEF s
    <3>3. reflection_round + 1 = maxRound => s = "REASONING"
      BY <1>3, <2>2, <3>1 DEF r
    <3>4. reflection_round + 1 <= maxRound
      BY <1>3, <2>2 DEF OrderInv, Shape
    <3>5. Len(batch) = Len(ReflectionNodes[s])
          /\ \A k \in 1 .. Len(batch) : batch[k].type = ReflectionNodes[s][k]
      BY <1>6, <1>7, <3>2
    <3> QED BY <1>11, <3>1, <3>3, <3>4, <3>5 DEF Inserts
  <2> QED BY <2>1, <2>2
<1> QED BY <1>6, <1>9, <1>12

LEMMA ReflectKeeps ==
  ASSUME OrderInv, EvaluateReflect
  PROVE  OrderInv'
<1>1. PICK batch \in Seq(Node) : Reflects(batch)
  BY ReflectBatch
<1> DEFINE new == Insert(node_order, index, batch)
           nodes == [n \in NodesOf(node_order') |->
                       IF n \in NodesOf(batch) THEN "pending" ELSE status[n]]
<1>2. /\ node_order \in Seq(Node) /\ index \in 1 .. Len(node_order)
      /\ Len(node_order) \in Nat /\ Len(batch) \in Nat
      /\ reflection_round \in Nat
      /\ status \in [NodesOf(node_order) -> NodeStatus]
  BY LenProperties DEF OrderInv, Shape
<1>3. /\ new \in Seq(Node)
      /\ Len(new) = Len(node_order) + Len(batch)
      /\ \A k \in 1 .. index : new[k] = node_order[k]
      /\ \A k \in index + 1 .. index + Len(batch) : new[k] = batch[k - index]
      /\ \A k \in index + Len(batch) + 1 .. Len(new) : new[k] = node_order[k - Len(batch)]
  BY <1>2, InsertShape
<1>4. node_order' = new
  BY <1>1 DEF Reflects
<1> HIDE DEF new
<1>5. ASSUME NEW k \in 1 .. Len(new)
      PROVE  \/ k \in 1 .. index /\ k \in 1 .. Len(node_order) /\ new[k] = node_order[k]
             \/ /\ k \in index + 1 .. index + Len(batch)
                /\ k - index \in 1 .. Len(batch)
                /\ new[k] = batch[k - index]
             \/ /\ k \in index + Len(batch) + 1 .. Len(new)
                /\ k - Len(batch) \in index + 1 .. Len(node_order)
                /\ k - Len(batch) \in 1 .. Len(node_order)
                /\ new[k] = node_order[k - Len(batch)]
  <2>1. CASE k <= index
    <3>1. k \in 1 .. index /\ k \in 1 .. Len(node_order)
      BY <1>2, <2>1
    <3> QED BY <1>3, <3>1
  <2>2. CASE index < k /\ k <= index + Len(batch)
    <3>1. k \in index + 1 .. index + Len(batch) /\ k - index \in 1 .. Len(batch)
      BY <1>2, <2>2
    <3> QED BY <1>3, <3>1
  <2>3. CASE index + Len(batch) < k
    <3>1. k <= Len(node_order) + Len(batch)
      BY <1>3, <1>5
    <3>2. /\ k \in index + Len(batch) + 1 .. Len(new)
          /\ k - Len(batch) \in index + 1 .. Len(node_order)
          /\ k - Len(batch) \in 1 .. Len(node_order)
      BY <1>2, <1>3, <2>3, <3>1
    <3> QED BY <1>3, <3>2
  <2>4. k <= index \/ (index < k /\ k <= index + Len(batch)) \/ index + Len(batch) < k
    BY <1>2
  <2> QED BY <2>1, <2>2, <2>3, <2>4
\* A node of the batch is none of the old ones.
<1>6. \A i \in 1 .. Len(batch), k \in 1 .. Len(node_order) : batch[i] # node_order[k]
  <2> SUFFICES ASSUME NEW i \in 1 .. Len(batch), NEW k \in 1 .. Len(node_order),
                      batch[i] = node_order[k]
               PROVE  FALSE
    OBVIOUS
  <2>1. batch[i].round = reflection_round + 1
    BY <1>1 DEF Reflects
  <2>2. node_order[k].round <= reflection_round
    BY DEF OrderInv, RoundsPast
  <2> QED BY <1>2, <2>1, <2>2
<1>7. NoNodeTwice'
  <2> SUFFICES ASSUME NEW i \in 1 .. Len(new), NEW j \in 1 .. Len(new), new[i] = new[j]
               PROVE  i = j
    BY <1>4 DEF NoNodeTwice
  <2>1. \A x, y \in 1 .. Len(node_order) : node_order[x] = node_order[y] => x = y
    BY DEF OrderInv, NoNodeTwice
  <2>2. \A x, y \in 1 .. Len(batch) : batch[x] = batch[y] => x = y
    BY <1>1 DEF Reflects
  <2> DEFINE Old(k, x) == /\ x \in 1 .. Len(node_order) /\ new[k] = node_order[x]
                          /\ \/ k \in 1 .. index /\ x = k
                             \/ k > index + Len(batch) /\ x = k - Len(batch) /\ x > index
             Fresh(k, x) == x \in 1 .. Len(batch) /\ new[k] = batch[x] /\ x = k - index
  <2>3. \A k \in 1 .. Len(new) : \E x \in Int : Old(k, x) \/ Fresh(k, x)
    <3> TAKE k \in 1 .. Len(new)
    <3>1. k \in 1 .. index => Old(k, k) /\ k \in Int
      BY <1>2, <1>5
    <3>2. k \in index + 1 .. index + Len(batch) => Fresh(k, k - index) /\ k - index \in Int
      BY <1>2, <1>3
    <3>3. k \in index + Len(batch) + 1 .. Len(new) => Old(k, k - Len(batch)) /\ k - Len(batch) \in Int
      BY <1>2, <1>3
    <3>4. \/ k \in 1 .. index \/ k \in index + 1 .. index + Len(batch)
          \/ k \in index + Len(batch) + 1 .. Len(new)
      BY <1>2, <1>3
    <3> HIDE DEF Old, Fresh
    <3> QED BY <3>1, <3>2, <3>3, <3>4
  <2>4. PICK x \in Int : Old(i, x) \/ Fresh(i, x)
    BY <2>3
  <2>5. PICK y \in Int : Old(j, y) \/ Fresh(j, y)
    BY <2>3
  <2>6. \/ Old(i, x) /\ Old(j, y)
        \/ Fresh(i, x) /\ Fresh(j, y)
    <3>1. ASSUME Old(i, x), Fresh(j, y) PROVE FALSE
      BY <1>6, <3>1
    <3>2. ASSUME Fresh(i, x), Old(j, y) PROVE FALSE
      BY <1>6, <3>2
    <3> HIDE DEF Old, Fresh
    <3> QED BY <2>4, <2>5, <3>1, <3>2
  <2>7. x = y
    BY <2>1, <2>2, <2>6
  <2> QED BY <1>2, <2>6, <2>7
<1>8. RoundsPast'
  <2> SUFFICES ASSUME NEW k \in 1 .. Len(new)
               PROVE  new[k].round <= reflection_round + 1
    BY <1>1, <1>4 DEF RoundsPast, Reflects
  <2>1. \A x \in 1 .. Len(node_order) : node_order[x].round <= reflection_round + 1
    <3> TAKE x \in 1 .. Len(node_order)
    <3>1. node_order[x] \in Node
      BY <1>2, ElementOfSeq
    <3>2. node_order[x].round \in Nat /\ node_order[x].round <= reflection_round
      BY <3>1 DEF Node, OrderInv, RoundsPast
    <3> QED BY <1>2, <3>2
  <2>2. \A x \in 1 .. Len(batch) : batch[x].round = reflection_round + 1
    BY <1>1 DEF Reflects
  <2>3. \A x \in 1 .. Len(batch) : batch[x].round <= reflection_round + 1
    BY <1>2, <2>2
  <2>4. \/ \E x \in 1 .. Len(node_order) : new[k] = node_order[x]
        \/ \E x \in 1 .. Len(batch) : new[k] = batch[x]
    BY <1>5
  <2> QED BY <2>1, <2>3, <2>4
<1>9. nodes \in [NodesOf(node_order') -> NodeStatus]
  <2> SUFFICES ASSUME NEW k \in 1 .. Len(new)
               PROVE  (IF new[k] \in NodesOf(batch) THEN "pending" ELSE status[new[k]]) \in NodeStatus
    BY <1>4 DEF NodesOf
  <2>1. \A x \in 1 .. Len(node_order) : status[node_order[x]] \in NodeStatus
    BY <1>2 DEF NodesOf
  <2>2. \A x \in 1 .. Len(batch) : batch[x] \in NodesOf(batch)
    BY DEF NodesOf
  <2>3. "pending" \in NodeStatus
    BY DEF NodeStatus
  <2> QED BY <1>5, <2>1, <2>2, <2>3
<1>10. ASSUME NEW k \in 1 .. Len(new)
       PROVE  nodes[new[k]] = IF new[k] \in NodesOf(batch) THEN "pending" ELSE status[new[k]]
  BY <1>4 DEF NodesOf
<1> HIDE DEF nodes
<1>11. status[node_order[index]] = "completed" /\ wfStatus = "pending"
  BY DEF OrderInv, Here, EvaluateReflect, current
<1>12. \A k \in 1 .. index : nodes[new[k]] = "completed"
  <2> SUFFICES ASSUME NEW k \in 1 .. index PROVE nodes[new[k]] = "completed"
    OBVIOUS
  <2>1. k \in 1 .. Len(node_order) /\ k \in 1 .. Len(new) /\ new[k] = node_order[k]
    BY <1>2, <1>3
  <2>2. new[k] \notin NodesOf(batch)
    BY <1>6, <2>1 DEF NodesOf
  <2>3. status[node_order[k]] = "completed"
    BY <1>2, <1>11 DEF OrderInv, Frontier
  <2> QED BY <1>10, <2>1, <2>2, <2>3
<1>13. \A k \in index + 1 .. Len(new) : nodes[new[k]] = "pending"
  <2> SUFFICES ASSUME NEW k \in index + 1 .. Len(new) PROVE nodes[new[k]] = "pending"
    OBVIOUS
  <2>1. k \in 1 .. Len(new) /\ k \notin 1 .. index
    BY <1>2, <1>3
  <2>2. \A x \in index + 1 .. Len(node_order) : status[node_order[x]] = "pending"
    BY DEF OrderInv, Frontier
  <2>3. new[k] \notin NodesOf(batch) => status[new[k]] = "pending"
    BY <1>5, <2>1, <2>2 DEF NodesOf
  <2> QED BY <1>10, <2>1, <2>3
<1>14. /\ SetUpNext(nodes, FALSE)
       /\ reflection_round' \in Nat /\ maxRound' \in Int
       /\ index \in 1 .. Len(new) /\ new[index] = current
  <2>1. SetUpNext(nodes, FALSE)
    BY <1>1, Zenon DEF Reflects, nodes
  <2>2. reflection_round' \in Nat
    BY <1>1, <1>2 DEF Reflects
  <2>3. maxRound' \in Int
    BY DEF EvaluateReflect, request, OrderInv, Shape
  <2>4. index \in 1 .. Len(new) /\ new[index] = current
    BY <1>2, <1>3 DEF current
  <2> QED BY <2>1, <2>2, <2>3, <2>4
<1> QED BY <1>3, <1>4, <1>7, <1>8, <1>9, <1>11, <1>12, <1>13, <1>14, SetUpKeeps

-----------------------------------------------------------------------------
\* One step of the run.
LEMMA OrderNext == OrderInv /\ [Next]_vars => OrderInv'
<1> SUFFICES ASSUME OrderInv, [Next]_vars PROVE OrderInv'
  OBVIOUS
<1>1. CASE PrepareFirst
  <2>1. /\ status' = [status EXCEPT ![current] = "completed"]
        /\ UNCHANGED <<node_order, reflection_round, maxRound>>
        /\ \/ index' = 2 /\ Len(node_order) > 1 /\ pc' \in {"loop", "raised"} /\ wfStatus' = wfStatus
           \/ index' = index /\ Len(node_order) = 1 /\ pc' = "raised" /\ wfStatus' = "completed"
        /\ index = 1 /\ wfStatus = "pending"
    BY <1>1 DEF PrepareFirst, request, OrderInv, Here
  <2>2. \A k \in 1 .. Len(node_order) : k # index => status'[node_order[k]] = status[node_order[k]]
    BY <2>1, CurrentApart DEF OrderInv, Shape
  <2>3. status'[node_order[1]] = "completed"
    BY <2>1, CurrentApart DEF OrderInv, Shape, current
  <2>4. Shape'
    BY <2>1, CurrentApart DEF OrderInv, Shape, NodeStatus
  <2>5. \A k \in 2 .. Len(node_order) : status'[node_order[k]] = "pending"
    BY <2>1, <2>2 DEF OrderInv, Shape, Frontier
  <2>6. Frontier'
    BY <2>1, <2>3, <2>5 DEF Frontier, OrderInv, Shape
  <2>7. Here'
    BY <2>1, <2>3, <2>5 DEF Here, current, OrderInv, Shape
  <2>8. NoNodeTwice' /\ RoundsPast'
    BY <2>1 DEF OrderInv, NoNodeTwice, RoundsPast
  <2> QED BY <2>4, <2>6, <2>7, <2>8 DEF OrderInv
<1>2. CASE NodeCompletes
  <2>1. /\ status' = [status EXCEPT ![current] = "completed"]
        /\ UNCHANGED <<node_order, index, reflection_round, maxRound, wfStatus>>
        /\ pc' = "evaluate" /\ wfStatus = "pending"
    BY <1>2 DEF NodeCompletes, EnterNode, request, workflow, OrderInv, Here
  <2>2. status'[current] = "completed" /\ current' = current
    BY <2>1, CurrentApart DEF OrderInv, Shape, current
  <2>3. Here'
    BY <2>1, <2>2 DEF Here
  <2> QED BY <2>1, <2>3, MarkKeeps DEF NodeStatus
<1>3. CASE NodeFails \/ ResultLost
  <2>1. /\ status' = [status EXCEPT ![current] = "failed"]
        /\ UNCHANGED <<node_order, index, reflection_round, maxRound, wfStatus>>
        /\ pc' = "finalize" /\ wfStatus = "pending"
    BY <1>3 DEF NodeFails, ResultLost, EnterNode, request, workflow, OrderInv, Here
  <2>2. Here'
    BY <2>1 DEF Here
  <2> QED BY <2>1, <2>2, MarkKeeps DEF NodeStatus
<1>4. CASE LoopEnds \/ Finalize
  <2>1. /\ UNCHANGED <<node_order, index, reflection_round, maxRound, wfStatus, status>>
        /\ pc' \in {"finalize", "done"}
    BY <1>4 DEF LoopEnds, Finalize, request, workflow
  <2> QED BY <2>1 DEF OrderInv, Shape, NoNodeTwice, RoundsPast, Frontier, Here, current, NodesOf
<1>5. CASE Evaluate
  <2>1. /\ UNCHANGED <<node_order, reflection_round, maxRound>>
        /\ \E trouble \in BOOLEAN : SetUpNext(status, trouble)
        /\ wfStatus = "pending" /\ status[current] = "completed"
    BY <1>5 DEF Evaluate, request, OrderInv, Here
  <2>2. \A k \in 1 .. index : status[node_order[k]] = "completed"
    BY <2>1 DEF OrderInv, Frontier, Shape, current
  <2>3. NoNodeTwice' /\ RoundsPast'
    BY <2>1 DEF OrderInv, NoNodeTwice, RoundsPast
  <2> QED BY <2>1, <2>2, <2>3, SetUpKeeps DEF OrderInv, Shape, Frontier, current
<1>6. CASE EvaluateReflect
  BY <1>6, ReflectKeeps
<1>7. CASE Ended \/ UNCHANGED vars
  <2>1. /\ UNCHANGED <<node_order, index, reflection_round, maxRound, wfStatus, status>>
        /\ pc' = pc
    BY <1>7 DEF Ended, vars
  <2> QED BY <2>1 DEF OrderInv, Shape, NoNodeTwice, RoundsPast, Frontier, Here, current, NodesOf
<1> QED BY <1>1, <1>2, <1>3, <1>4, <1>5, <1>6, <1>7 DEF Next, RunStep

LEMMA OrderCorrect == Spec => []OrderInv
BY OrderInit, OrderNext, PTL DEF Spec

-----------------------------------------------------------------------------
\* No node stands in the order twice, however often reflect nodes rebuilt it, so none
\* is run a second time or has its finished result replaced (Workflow.add_node).
LEMMA NodesOnce == Spec => []NoNodeTwice
<1>1. OrderInv => NoNodeTwice
  BY DEF OrderInv
<1> QED BY <1>1, OrderCorrect, PTL

\* The runner works the nodes off in order: all before the current one completed, all
\* behind it untouched, through every insertion (WorkflowRunner.run, advance_to_next_node).
LEMMA OrderlyWork == Spec => []WorkedInOrder
<1>1. OrderInv => WorkedInOrder
  BY DEF OrderInv, Frontier, Here, WorkedInOrder
<1> QED BY <1>1, OrderCorrect, PTL

\* A workflow is reported completed only when every node is, the inserted ones too
\* (advance_to_next_node, which marks it by running off the end of the order).
LEMMA CompletedCorrect == Spec => []CompletedMeansAll
<1>1. OrderInv => CompletedMeansAll
  <2> SUFFICES ASSUME OrderInv, wfStatus = "completed", NEW k \in 1 .. Len(node_order)
               PROVE  status[node_order[k]] = "completed"
    BY DEF CompletedMeansAll, OrderInv, Shape, NodesOf
  <2>1. index = Len(node_order) /\ status[node_order[index]] = "completed"
    BY DEF OrderInv, Here, current
  <2>2. k # index => k \in 1 .. index - 1
    BY <2>1, LenProperties DEF OrderInv, Shape
  <2>3. \A x \in 1 .. index - 1 : status[node_order[x]] = "completed"
    BY DEF OrderInv, Frontier
  <2> QED BY <2>1, <2>2, <2>3
<1> QED BY <1>1, OrderCorrect, PTL

\* A reflection only adds nodes right behind the one that asked for them, and none once
\* MAX_REFLECTION_ROUNDS have been used up (_execute_reflection_strategy).
THEOREM RepairsCorrect == Spec => RepairsAreBounded
<1> DEFINE Bounded ==
      node_order' # node_order =>
        /\ reflection_round < maxRound
        /\ \A k \in 1 .. index : node_order'[k] = node_order[k]
        /\ \A k \in index + 1 .. Len(node_order) :
             node_order'[k + Len(node_order') - Len(node_order)] = node_order[k]
<1>1. OrderInv /\ [Next]_vars => [Bounded]_vars
  <2> SUFFICES ASSUME OrderInv, Next, node_order' # node_order PROVE Bounded
    BY DEF vars
  <2>1. EvaluateReflect
    BY DEF Next, RunStep, PrepareFirst, NodeCompletes, NodeFails, ResultLost, EnterNode, workflow,
           LoopEnds, Evaluate, Finalize, Ended, vars
  <2>2. PICK batch \in Seq(Node) : Reflects(batch)
    BY <2>1, ReflectBatch
  <2> DEFINE new == Insert(node_order, index, batch)
  <2>3. /\ node_order \in Seq(Node) /\ index \in 1 .. Len(node_order)
        /\ Len(node_order) \in Nat /\ Len(batch) \in Nat
    BY LenProperties DEF OrderInv, Shape
  <2>4. /\ new \in Seq(Node)
        /\ Len(new) = Len(node_order) + Len(batch)
        /\ \A k \in 1 .. index : new[k] = node_order[k]
        /\ \A k \in index + Len(batch) + 1 .. Len(new) : new[k] = node_order[k - Len(batch)]
    BY <2>3, InsertShape
  <2>5. node_order' = new /\ (batch # <<>> => reflection_round < maxRound)
    BY <2>2 DEF Reflects
  <2> HIDE DEF new
  <2>6. batch # <<>>
    <3> SUFFICES ASSUME batch = <<>> PROVE new = node_order
      BY <2>5
    <3>1. Len(batch) = 0
      OBVIOUS
    <3>2. Len(new) = Len(node_order) /\ \A k \in 1 .. Len(new) : new[k] = node_order[k]
      BY <2>3, <2>4, <3>1
    <3> QED BY <2>3, <2>4, <3>2, SeqEqual
  <2>7. \A k \in index + 1 .. Len(node_order) : new[k + Len(new) - Len(node_order)] = node_order[k]
    <3> TAKE k \in index + 1 .. Len(node_order)
    <3>1. k + Len(batch) \in index + Len(batch) + 1 .. Len(new)
      BY <2>3, <2>4
    <3>2. new[k + Len(batch)] = node_order[k + Len(batch) - Len(batch)]
      BY <2>4, <3>1
    <3>3. k + Len(batch) - Len(batch) = k /\ k + Len(new) - Len(node_order) = k + Len(batch)
      BY <2>3, <2>4
    <3> QED BY <3>2, <3>3
  <2> QED BY <2>4, <2>5, <2>6, <2>7
<1> QED BY <1>1, OrderCorrect, PTL DEF Spec, RepairsAreBounded

-----------------------------------------------------------------------------
\* What is left of the type invariant; a node is evaluated only within the step limit.
Rest ==
  /\ plan \in Plans /\ streaming \in BOOLEAN /\ maxRound \in RoundLimits
  /\ step_count \in 0 .. MaxSteps
  /\ pc = "evaluate" => step_count < MaxSteps
  /\ sql \in {"none", "made", "run"}
  /\ strategy \in Strategies
  /\ fault \in BOOLEAN
  /\ pc \in {"init", "loop", "evaluate", "finalize", "done", "raised"}

LEMMA SetUpTypes ==
  ASSUME NEW nodes, NEW trouble \in BOOLEAN, SetUpNext(nodes, trouble), Rest, pc = "evaluate"
  PROVE  /\ step_count' \in 0 .. MaxSteps
         /\ fault' \in BOOLEAN
         /\ pc' \in {"loop", "finalize"}
<1>1. step_count \in Int /\ 0 <= step_count /\ step_count + 1 <= MaxSteps
  BY MaxStepsAssumption DEF Rest
<1>2. step_count' = step_count \/ step_count' = step_count + 1
  BY DEF SetUpNext, Advance
<1>3. step_count' \in 0 .. MaxSteps
  BY <1>1, <1>2, MaxStepsAssumption
<1>4. pc' \in {"loop", "finalize"}
  BY DEF SetUpNext, Advance
<1>5. fault' \in BOOLEAN
  BY DEF SetUpNext, Rest
<1> QED BY <1>3, <1>4, <1>5

\* The state keeps its shape: one status per node of the order, the place in it within
\* its bounds, and no step beyond args.max_steps.
LEMMA TypeCorrect == Spec => []TypeOK
<1>1. Init => Rest
  <2>1. 0 \in 0 .. MaxSteps
    BY MaxStepsAssumption
  <2>2. "UNKNOWN" \in Strategies
    BY DEF Strategies
  <2> QED BY <2>1, <2>2 DEF Init, Rest
<1>2. Rest /\ [Next]_vars => Rest'
  <2> SUFFICES ASSUME Rest, [Next]_vars PROVE Rest'
    OBVIOUS
  <2>1. CASE PrepareFirst
    BY <2>1 DEF PrepareFirst, request, Rest
  <2>2. CASE NodeCompletes
    BY <2>2 DEF NodeCompletes, EnterNode, request, Rest
  <2>3. CASE NodeFails \/ ResultLost
    BY <2>3 DEF NodeFails, ResultLost, EnterNode, request, Rest
  <2>4. CASE LoopEnds \/ Finalize
    BY <2>4 DEF LoopEnds, Finalize, request, Rest
  <2>5. CASE Evaluate
    <3>1. \E trouble \in BOOLEAN : SetUpNext(status, trouble)
      BY <2>5 DEF Evaluate
    <3>2. step_count' \in 0 .. MaxSteps /\ fault' \in BOOLEAN /\ pc' \in {"loop", "finalize"}
      BY <2>5, <3>1, SetUpTypes DEF Evaluate
    <3>3. UNCHANGED <<plan, streaming, maxRound, strategy>> /\ sql' \in {"none", "made", "run"}
      BY <2>5 DEF Evaluate, request, Rest
    <3> QED BY <3>2, <3>3 DEF Rest
  <2>6. CASE EvaluateReflect
    <3>1. \E nodes : SetUpNext(nodes, FALSE)
      BY <2>6, Zenon DEF EvaluateReflect
    <3>2. step_count' \in 0 .. MaxSteps /\ fault' \in BOOLEAN /\ pc' \in {"loop", "finalize"}
      BY <2>6, <3>1, SetUpTypes DEF EvaluateReflect
    <3>3. \E repair : sql' \in IF repair = {"SIMPLE_REGENERATE"} THEN {"made", sql} ELSE {sql}
      BY <2>6, Zenon DEF EvaluateReflect
    <3>4. sql' \in {"none", "made", "run"}
      BY <3>3 DEF Rest
    <3>5. UNCHANGED <<plan, streaming, maxRound, strategy>>
      BY <2>6 DEF EvaluateReflect, request
    <3> QED BY <3>2, <3>4, <3>5 DEF Rest
  <2>7. CASE Ended \/ UNCHANGED vars
    BY <2>7 DEF Ended, vars, Rest
  <2> QED BY <2>1, <2>2, <2>3, <2>4, <2>5, <2>6, <2>7 DEF Next, RunStep
<1>3. OrderInv /\ Rest => TypeOK
  BY DEF OrderInv, Shape, Here, Rest, TypeOK, Node, NodeStatus
<1> QED BY <1>1, <1>2, <1>3, OrderCorrect, PTL DEF Spec

\* For any plans, repairs and limits: no node stands in the order twice, the nodes are
\* worked off in order through every insertion, and a workflow is reported completed only
\* when every node is (WorkflowRunner.run, ReflectNode, advance_to_next_node).
THEOREM OrderSoundCorrect == Spec => []OrderSound
BY TypeCorrect, NodesOnce, OrderlyWork, CompletedCorrect, PTL DEF OrderSound

-----------------------------------------------------------------------------
(***************************************************************************)
(* What the configuration adds: if its plans and repairs execute the SQL   *)
(* they make (SqlIsExecuted), so does every order the reflections build    *)
(* from them; and if the steps suffice (StepsSuffice), a run in which      *)
(* nothing failed by itself completes.                                     *)
(***************************************************************************)

Walking == pc \in {"loop", "evaluate"} /\ wfStatus = "pending"

\* Node k will find that the last SQL record has been executed, if the walk goes on from
\* node i with a record of which q is known.
Ahead(order, i, q, k) ==
  \/ \E j \in i .. k - 1 : /\ order[j].type = "execute_sql"
                           /\ \A m \in j + 1 .. k - 1 : order[m].type \notin Makers
  \/ q = "run" /\ \A m \in i .. k - 1 : order[m].type \notin Makers

WillBeExecuted(order, i, q) ==
  \A k \in i .. Len(order) : order[k].type \in Judges => Ahead(order, i, q, k)

SqlInv ==
  Walking => /\ current.type \in NeedsSql => sql # "none"
             /\ WillBeExecuted(node_order, index, sql)

\* What the run was asked to do, and where it starts.
RequestInv ==
  /\ plan \in Plans /\ maxRound \in RoundLimits
  /\ pc = "init" => node_order = PlanOrder(plan) /\ sql = "none" /\ step_count = 0

LEMMA RequestNext ==
  RequestInv /\ [Next]_vars => RequestInv' /\ UNCHANGED <<plan, streaming, maxRound>>
<1> SUFFICES ASSUME RequestInv, [Next]_vars
             PROVE  RequestInv' /\ UNCHANGED <<plan, streaming, maxRound>>
  OBVIOUS
<1>1. UNCHANGED <<plan, streaming, maxRound>>
  BY DEF Next, RunStep, PrepareFirst, NodeCompletes, NodeFails, ResultLost, EnterNode, LoopEnds,
         Evaluate, EvaluateReflect, Finalize, Ended, request, vars
<1>2. pc' = "init" => UNCHANGED <<pc, node_order, sql, step_count>>
  BY DEF Next, RunStep, PrepareFirst, NodeCompletes, NodeFails, ResultLost, LoopEnds,
         Evaluate, EvaluateReflect, SetUpNext, Advance, Finalize, Ended, vars
<1> QED BY <1>1, <1>2 DEF RequestInv

LEMMA RequestCorrect == Spec => []RequestInv
<1>1. Init => RequestInv
  BY DEF Init, RequestInv
<1> QED BY <1>1, RequestNext, PTL DEF Spec

\* The order of a plan: the start node, then its types one by one.
LEMMA PlanOrderShape ==
  ASSUME NEW p \in Plans
  PROVE  /\ Len(p) \in Nat /\ DOMAIN p = 1 .. Len(p)
         /\ Len(PlanOrder(p)) = Len(p) + 1
         /\ PlanOrder(p)[1].type = "start"
         /\ \A k \in 2 .. Len(p) + 1 : PlanOrder(p)[k].type = p[k - 1]
<1>1. p \in Seq(NodeTypes) /\ Len(p) \in Nat /\ DOMAIN p = 1 .. Len(p)
  BY PlansAssumption, LenProperties
<1> DEFINE n == Len(p) + 1
<1>2. PlanOrder(p) = [k \in 1 .. n |-> PlanNode(k - 1, IF k = 1 THEN "start" ELSE p[k - 1])]
  BY DEF PlanOrder
<1>3. n \in Nat /\ 1 \in 1 .. n /\ 2 .. n \subseteq 1 .. n
  BY <1>1
<1>4. Len(PlanOrder(p)) = n
  BY <1>2, <1>3
<1>5. PlanOrder(p)[1].type = "start"
  BY <1>2, <1>3 DEF PlanNode
<1>6. \A k \in 2 .. n : PlanOrder(p)[k].type = p[k - 1]
  BY <1>1, <1>2, <1>3 DEF PlanNode
<1> QED BY <1>1, <1>4, <1>5, <1>6

\* The plan is walked from its second node with no record made.
LEMMA PlanAhead ==
  ASSUME SqlIsExecuted, NEW p \in Plans
  PROVE  WillBeExecuted(PlanOrder(p), 2, "none")
<1> DEFINE order == PlanOrder(p)
<1>1. /\ Len(p) \in Nat /\ DOMAIN p = 1 .. Len(p) /\ Len(order) = Len(p) + 1
      /\ \A k \in 2 .. Len(p) + 1 : order[k].type = p[k - 1]
  BY PlanOrderShape
<1> HIDE DEF order
<1> SUFFICES ASSUME NEW k \in 2 .. Len(order), order[k].type \in Judges
             PROVE  Ahead(order, 2, "none", k)
  BY DEF WillBeExecuted, order
<1>2. k - 1 \in DOMAIN p /\ p[k - 1] \in Judges /\ k \in Int
  BY <1>1
<1>3. PICK j \in 1 .. k - 2 : p[j] = "execute_sql" /\ \A m \in j + 1 .. k - 2 : p[m] \notin Makers
  <2>1. ExecutedBefore(p, k - 1) /\ k - 1 - 1 = k - 2
    BY <1>2 DEF SqlIsExecuted
  <2> QED BY <2>1 DEF ExecutedBefore
<1>4. j + 1 \in 2 .. k - 1 /\ order[j + 1].type = "execute_sql"
  <2>1. j + 1 \in 2 .. Len(p) + 1 /\ (j + 1) - 1 = j /\ j + 1 \in 2 .. k - 1
    BY <1>1, <1>2
  <2> QED BY <1>1, <1>3, <2>1
<1>5. ASSUME NEW m \in j + 2 .. k - 1 PROVE order[m].type \notin Makers
  <2>1. m \in 2 .. Len(p) + 1 /\ m - 1 \in j + 1 .. k - 2
    BY <1>1, <1>2
  <2> QED BY <1>1, <1>3, <2>1
<1>6. (j + 1) + 1 = j + 2
  BY <1>2
<1> QED BY <1>4, <1>5, <1>6 DEF Ahead

\* A node that is worked off: it may make SQL, or execute it, or leave it.
LEMMA StepAhead ==
  ASSUME NEW order, NEW i \in Nat, NEW q, NEW r, WillBeExecuted(order, i, q),
         Len(order) \in Nat,
         \/ order[i].type \in Makers
         \/ order[i].type = "execute_sql" /\ r = "run"
         \/ order[i].type # "execute_sql" /\ r = q
  PROVE  WillBeExecuted(order, i + 1, r)
<1> SUFFICES ASSUME NEW k \in i + 1 .. Len(order), order[k].type \in Judges
             PROVE  Ahead(order, i + 1, r, k)
  BY DEF WillBeExecuted
<1>1. k \in i .. Len(order) /\ i \in i .. k - 1 /\ k \in Int
  OBVIOUS
<1>2. Ahead(order, i, q, k)
  BY <1>1 DEF WillBeExecuted
<1>3. CASE \E j \in i .. k - 1 : /\ order[j].type = "execute_sql"
                                 /\ \A m \in j + 1 .. k - 1 : order[m].type \notin Makers
  <2>1. PICK j \in i .. k - 1 : /\ order[j].type = "execute_sql"
                                /\ \A m \in j + 1 .. k - 1 : order[m].type \notin Makers
    BY <1>3
  <2>2. CASE j = i
    BY <2>1, <2>2 DEF Ahead, Makers, MakesSql, MayMakeSql
  <2>3. CASE j # i
    <3>1. j \in i + 1 .. k - 1
      BY <1>1, <2>3
    <3> QED BY <2>1, <3>1 DEF Ahead
  <2> QED BY <2>2, <2>3
<1>4. CASE q = "run" /\ \A m \in i .. k - 1 : order[m].type \notin Makers
  <2>1. r = "run"
    BY <1>1, <1>4
  <2>2. \A m \in i + 1 .. k - 1 : m \in i .. k - 1
    BY <1>1
  <2> QED BY <1>4, <2>1, <2>2 DEF Ahead
<1> QED BY <1>2, <1>3, <1>4 DEF Ahead

\* A repair behind the reflect node i: its own nodes are preceded by an execution in it,
\* and those behind it by its last.
LEMMA RepairAhead ==
  ASSUME SqlIsExecuted, NEW order \in Seq(Node), NEW batch \in Seq(Node),
         NEW i \in 1 .. Len(order), NEW q, NEW r, NEW s \in Repairs,
         WillBeExecuted(order, i, q), order[i].type = "reflect",
         Len(batch) = Len(ReflectionNodes[s]),
         \A k \in 1 .. Len(batch) : batch[k].type = ReflectionNodes[s][k]
  PROVE  WillBeExecuted(Insert(order, i, batch), i + 1, r)
<1> DEFINE new == Insert(order, i, batch)
           n == Len(batch)
           types == ReflectionNodes[s]
<1>1. /\ new \in Seq(Node) /\ Len(new) = Len(order) + n
      /\ \A k \in i + 1 .. i + n : new[k] = batch[k - i]
      /\ \A k \in i + n + 1 .. Len(new) : new[k] = order[k - n]
  BY InsertShape, Zenon
<1>2. /\ n \in Nat /\ Len(order) \in Nat /\ i \in Int /\ DOMAIN types = 1 .. n
      /\ types \in Seq(NodeTypes)
  BY ReflectionNodesAssumption, LenProperties
<1>3. /\ \A k \in 1 .. n : types[k] \in Judges => ExecutedBefore(types, k)
      /\ ExecutedBefore(types, n + 1)
  BY <1>2 DEF SqlIsExecuted
<1>4. \A k \in 1 .. n : batch[k].type = types[k]
  OBVIOUS
<1> HIDE DEF new, n, types
<1>5. \A k \in 1 .. n : new[i + k].type = types[k]
  <2> TAKE k \in 1 .. n
  <2>1. i + k \in i + 1 .. i + n /\ (i + k) - i = k
    BY <1>2
  <2> QED BY <1>1, <1>4, <2>1
<1> SUFFICES ASSUME NEW k \in i + 1 .. Len(new), new[k].type \in Judges
             PROVE  Ahead(new, i + 1, r, k)
  BY DEF WillBeExecuted, new
<1>6. ASSUME NEW b \in 1 .. n + 1, ExecutedBefore(types, b), i + b <= k,
             \A m \in i + b .. k - 1 : new[m].type \notin Makers
      PROVE  Ahead(new, i + 1, r, k)
  <2>1. PICK j \in 1 .. b - 1 : /\ types[j] = "execute_sql"
                                /\ \A m \in j + 1 .. b - 1 : types[m] \notin Makers
    BY <1>6 DEF ExecutedBefore
  <2>2. j \in 1 .. n /\ i + j \in i + 1 .. k - 1 /\ new[i + j].type = "execute_sql"
    <3>1. j \in 1 .. n /\ i + j \in i + 1 .. k - 1
      BY <1>2, <1>6
    <3> QED BY <1>5, <2>1, <3>1
  <2>3. ASSUME NEW m \in i + j + 1 .. k - 1 PROVE new[m].type \notin Makers
    <3>1. CASE m >= i + b
      <4>1. m \in i + b .. k - 1
        BY <1>2, <3>1
      <4> QED BY <1>6, <4>1
    <3>2. CASE m < i + b
      <4>1. /\ j \in Int /\ b \in Int /\ m \in Int /\ 1 <= j /\ b <= n + 1
            /\ i + j + 1 <= m /\ m < i + b
        BY <1>2, <3>2
      <4>2. m - i \in j + 1 .. b - 1 /\ m - i \in 1 .. n /\ i + (m - i) = m
        BY <1>2, <4>1
      <4> QED BY <1>5, <2>1, <4>2
    <3> QED BY <1>2, <3>1, <3>2
  <2> QED BY <2>2, <2>3 DEF Ahead
<1>7. CASE k <= i + n
  <2>1. k - i \in 1 .. n /\ k - i \in 1 .. n + 1 /\ i + (k - i) = k /\ i + (k - i) <= k
    BY <1>2, <1>7
  <2>2. types[k - i] \in Judges
    BY <1>5, <2>1
  <2>3. \A m \in i + (k - i) .. k - 1 : new[m].type \notin Makers
    BY <2>1
  <2> QED BY <1>3, <1>6, <2>1, <2>2, <2>3
<1>8. CASE k > i + n
  <2> DEFINE x == k - n
  <2>1. k \in i + n + 1 .. Len(new) /\ x \in i .. Len(order) /\ x > i /\ x \in Int
    BY <1>1, <1>2, <1>8
  <2>2. new[k] = order[x]
    BY <1>1, <2>1
  <2>3. ASSUME NEW m \in i + n + 1 .. k - 1 PROVE new[m] = order[m - n] /\ m - n \in i + 1 .. x - 1
    <3>1. m \in i + n + 1 .. Len(new)
      BY <1>1, <1>2
    <3> QED BY <1>1, <1>2, <3>1
  <2>4. Ahead(order, i, q, x)
    BY <2>1, <2>2 DEF WillBeExecuted
  <2>5. CASE \E j \in i .. x - 1 : /\ order[j].type = "execute_sql"
                                   /\ \A m \in j + 1 .. x - 1 : order[m].type \notin Makers
    <3>1. PICK j \in i .. x - 1 : /\ order[j].type = "execute_sql"
                                  /\ \A m \in j + 1 .. x - 1 : order[m].type \notin Makers
      BY <2>5
    <3>2. j # i
      BY <3>1
    <3>3. j + n \in i + n + 1 .. k - 1 /\ (j + n) - n = j /\ j + n \in i + 1 .. k - 1
      BY <1>2, <2>1, <3>2
    <3>4. new[j + n].type = "execute_sql"
      BY <2>3, <3>1, <3>3
    <3>5. ASSUME NEW m \in j + n + 1 .. k - 1 PROVE new[m].type \notin Makers
      <4>1. m \in i + n + 1 .. k - 1 /\ m - n \in j + 1 .. x - 1
        BY <1>2, <2>1, <3>3
      <4> QED BY <2>3, <3>1, <4>1
    <3> QED BY <3>3, <3>4, <3>5 DEF Ahead
  <2>6. CASE \A m \in i .. x - 1 : order[m].type \notin Makers
    <3>1. ASSUME NEW m \in i + (n + 1) .. k - 1 PROVE new[m].type \notin Makers
      <4>1. m \in i + n + 1 .. k - 1
        BY <1>2
      <4>2. m - n \in i .. x - 1
        BY <2>3, <4>1, <1>2, <2>1
      <4> QED BY <2>3, <2>6, <4>1, <4>2
    <3>2. n + 1 \in 1 .. n + 1 /\ i + (n + 1) <= k
      BY <1>2, <1>8
    <3> QED BY <1>3, <1>6, <3>1, <3>2
  <2> QED BY <2>4, <2>5, <2>6 DEF Ahead
<1> QED BY <1>2, <1>7, <1>8

\* How setting up the next node's input can end: behind the last node, at the next, or
\* with the run.
LEMMA SetUpOutcome ==
  ASSUME NEW nodes, NEW trouble \in BOOLEAN, SetUpNext(nodes, trouble),
         Len(node_order') \in Nat, index \in Nat, wfStatus = "pending"
  PROVE  /\ \/ pc' = "loop" /\ wfStatus' = "completed"
            \/ /\ pc' = "loop" /\ wfStatus' = "pending"
               /\ index < Len(node_order') /\ index' = index + 1
               /\ step_count' = step_count + 1
               /\ node_order'[index + 1].type \in NeedsSql => sql' # "none"
            \/ /\ pc' = "finalize" /\ wfStatus' = "pending"
               /\ index < Len(node_order')
               /\ ~ fault' => node_order'[index + 1].type \in NeedsSql /\ sql' = "none"
         /\ ~ fault' => ~ fault /\ ~ trouble
<1> DEFINE blind == /\ index < Len(node_order')
                    /\ node_order'[index + 1].type \in NeedsSql /\ sql' = "none"
<1>1. CASE ~ blind /\ fault' = (fault \/ trouble) /\ Advance
  <2>1. CASE index >= Len(node_order')
    <3>1. pc' = "loop" /\ wfStatus' = "completed"
      BY <1>1, <2>1 DEF Advance
    <3>2. ~ fault' => ~ fault /\ ~ trouble
      BY <1>1
    <3> QED BY <3>1, <3>2
  <2>2. CASE ~ (index >= Len(node_order'))
    <3>1. /\ pc' = "loop" /\ wfStatus' = "pending" /\ index < Len(node_order')
          /\ index' = index + 1 /\ step_count' = step_count + 1
      BY <1>1, <2>2 DEF Advance
    <3>2. ~ fault' => ~ fault /\ ~ trouble
      BY <1>1
    <3> QED BY <1>1, <3>1, <3>2
  <2> QED BY <2>1, <2>2
<1>2. CASE /\ index < Len(node_order') /\ fault' = (fault \/ trouble \/ ~ blind)
           /\ pc' = "finalize" /\ UNCHANGED wfStatus
  <2>1. ~ fault' => ~ fault /\ ~ trouble /\ blind
    BY <1>2
  <2> HIDE DEF blind
  <2>2. pc' = "finalize" /\ wfStatus' = "pending" /\ index < Len(node_order')
    BY <1>2
  <2> QED BY <2>1, <2>2 DEF blind
<1> QED BY <1>1, <1>2 DEF SetUpNext

\* What evaluate_result does to the record, and to what lies ahead.
LEMMA EvaluateRecord ==
  ASSUME OrderInv, Evaluate
  PROVE  /\ UNCHANGED node_order /\ index \in Nat /\ Len(node_order') \in Nat
         /\ Walking /\ current = node_order[index]
         /\ \E trouble \in BOOLEAN :
              /\ SetUpNext(status, trouble)
              /\ ~ trouble /\ current.type \in Makers => sql' # "none"
         /\ sql # "none" => sql' # "none"
<1>1. /\ UNCHANGED node_order /\ index \in Nat /\ Len(node_order') \in Nat
      /\ Walking /\ current = node_order[index]
  BY LenProperties DEF OrderInv, Shape, Evaluate, Walking, Here, current
<1>2. \E trouble \in BOOLEAN :
        /\ SetUpNext(status, trouble)
        /\ ~ trouble /\ current.type \in Makers => sql' # "none"
  BY DEF Evaluate, Makers
<1>3. sql # "none" => sql' # "none"
  BY DEF Evaluate
<1> QED BY <1>1, <1>2, <1>3

LEMMA EvaluateAhead ==
  ASSUME OrderInv, SqlInv, Evaluate
  PROVE  WillBeExecuted(node_order', index + 1, sql')
<1>1. /\ UNCHANGED node_order /\ index \in Nat /\ Len(node_order) \in Nat
      /\ Walking /\ current = node_order[index]
  BY EvaluateRecord
<1>2. /\ current.type \in NeedsSql => sql # "none"
      /\ WillBeExecuted(node_order, index, sql)
  BY <1>1 DEF SqlInv
<1>3. \/ current.type \in Makers
      \/ current.type = "execute_sql" /\ sql' = "run"
      \/ current.type # "execute_sql" /\ sql' = sql
  BY <1>2 DEF Evaluate, Makers, NeedsSql
<1> QED BY <1>1, <1>2, <1>3, StepAhead

\* The same of a reflect node.
LEMMA ReflectRecord ==
  ASSUME OrderInv, EvaluateReflect
  PROVE  /\ index \in Nat /\ Len(node_order') \in Nat
         /\ Walking /\ current = node_order[index] /\ current.type = "reflect"
         /\ \E nodes : \E trouble \in BOOLEAN : SetUpNext(nodes, trouble)
         /\ sql # "none" => sql' # "none"
<1>1. PICK batch \in Seq(Node) : Reflects(batch) /\ Inserts(batch)
  BY ReflectBatch
<1>2. index \in Nat /\ node_order' \in Seq(Node)
  BY OrderNext, LenProperties DEF OrderInv, Shape, Next, RunStep
<1>3. Walking /\ current = node_order[index] /\ current.type = "reflect"
  BY DEF Walking, EvaluateReflect, OrderInv, Here, current
<1>4. \E nodes : SetUpNext(nodes, FALSE)
  BY <1>1, Zenon DEF Reflects
<1>5. sql # "none" => sql' # "none"
  BY <1>1 DEF Inserts
<1> QED BY <1>2, <1>3, <1>4, <1>5, LenProperties

LEMMA ReflectAhead ==
  ASSUME SqlIsExecuted, OrderInv, SqlInv, EvaluateReflect
  PROVE  WillBeExecuted(node_order', index + 1, sql')
<1>1. /\ node_order \in Seq(Node) /\ index \in 1 .. Len(node_order) /\ index \in Nat
      /\ Len(node_order) \in Nat
  BY LenProperties DEF OrderInv, Shape
<1>2. Walking /\ current = node_order[index] /\ current.type = "reflect"
  BY DEF Walking, EvaluateReflect, OrderInv, Here, current
<1>3. WillBeExecuted(node_order, index, sql)
  BY <1>2 DEF SqlInv
<1>4. PICK batch \in Seq(Node) : Reflects(batch) /\ Inserts(batch)
  BY ReflectBatch
<1>5. node_order' = Insert(node_order, index, batch)
  BY <1>4 DEF Reflects
<1>6. CASE batch = <<>> /\ sql' = sql
  <2>1. node_order' = node_order
    <3>1. Len(batch) = 0
      BY <1>6
    <3>2. /\ node_order' \in Seq(Node) /\ Len(node_order') = Len(node_order) + Len(batch)
          /\ \A k \in 1 .. index : node_order'[k] = node_order[k]
          /\ \A k \in index + Len(batch) + 1 .. Len(node_order') :
               node_order'[k] = node_order[k - Len(batch)]
      BY <1>1, <1>5, InsertShape
    <3>3. /\ Len(node_order') = Len(node_order)
          /\ \A k \in 1 .. Len(node_order') : node_order'[k] = node_order[k]
      BY <1>1, <3>1, <3>2
    <3> QED BY <1>1, <3>2, <3>3, SeqEqual
  <2>2. node_order[index].type # "execute_sql"
    BY <1>2
  <2>3. WillBeExecuted(node_order, index + 1, sql)
    BY <1>1, <1>3, <2>2, StepAhead
  <2> QED BY <1>6, <2>1, <2>3
<1>7. ASSUME NEW s \in Repairs, Len(batch) = Len(ReflectionNodes[s]),
             \A k \in 1 .. Len(batch) : batch[k].type = ReflectionNodes[s][k]
      PROVE  WillBeExecuted(node_order', index + 1, sql')
  BY <1>1, <1>2, <1>3, <1>5, <1>7, RepairAhead
<1> QED BY <1>4, <1>6, <1>7 DEF Inserts

LEMMA SqlNext ==
  ASSUME SqlIsExecuted
  PROVE  OrderInv /\ RequestInv /\ SqlInv /\ [Next]_vars => SqlInv'
<1> SUFFICES ASSUME OrderInv, RequestInv, SqlInv, [Next]_vars PROVE SqlInv'
  OBVIOUS
<1>1. CASE PrepareFirst
  <2>1. /\ plan \in Plans /\ node_order = PlanOrder(plan) /\ sql = "none"
        /\ UNCHANGED <<node_order, sql>>
    BY <1>1 DEF PrepareFirst, RequestInv
  <2>2. ASSUME Walking' PROVE index' = 2 /\ node_order[2].type \notin NeedsSql
    BY <1>1, <2>2 DEF PrepareFirst, Walking
  <2>3. WillBeExecuted(node_order, 2, "none")
    BY <2>1, PlanAhead
  <2> QED BY <2>1, <2>2, <2>3 DEF SqlInv, current
<1>2. CASE NodeCompletes
  <2>1. /\ Walking /\ pc' = "evaluate"
        /\ UNCHANGED <<node_order, index, sql, wfStatus>>
    BY <1>2 DEF NodeCompletes, EnterNode, workflow, Walking, OrderInv, Here
  <2> QED BY <2>1 DEF SqlInv, current
<1>3. CASE NodeFails \/ ResultLost \/ LoopEnds \/ Finalize
  <2>1. pc' \in {"finalize", "done"}
    BY <1>3 DEF NodeFails, ResultLost, LoopEnds, Finalize
  <2> QED BY <2>1 DEF SqlInv, Walking
<1>4. CASE Evaluate \/ EvaluateReflect
  <2>1. /\ index \in Nat /\ Len(node_order') \in Nat /\ wfStatus = "pending"
        /\ \E nodes : \E trouble \in BOOLEAN : SetUpNext(nodes, trouble)
        /\ WillBeExecuted(node_order', index + 1, sql')
    <3>1. CASE Evaluate
      BY <3>1, EvaluateRecord, EvaluateAhead DEF Walking
    <3>2. CASE EvaluateReflect
      BY <3>2, ReflectRecord, ReflectAhead DEF Walking
    <3> QED BY <1>4, <3>1, <3>2
  <2>2. PICK nodes : \E trouble \in BOOLEAN : SetUpNext(nodes, trouble)
    BY <2>1
  <2>3. PICK trouble \in BOOLEAN : SetUpNext(nodes, trouble)
    BY <2>2
  <2>4. \/ wfStatus' = "completed" /\ pc' = "loop"
        \/ /\ pc' = "loop" /\ index' = index + 1
           /\ node_order'[index + 1].type \in NeedsSql => sql' # "none"
        \/ pc' = "finalize"
    BY <2>1, <2>3, SetUpOutcome
  <2> QED BY <2>1, <2>4 DEF SqlInv, Walking, current
<1>5. CASE Ended \/ UNCHANGED vars
  BY <1>5 DEF Ended, vars, SqlInv, Walking, current
<1> QED BY <1>1, <1>2, <1>3, <1>4, <1>5 DEF Next, RunStep

\* For any plans and repairs that execute what they make: whatever the reflections
\* inserted, SQL that is judged or handed out was executed, not a later one that never
\* ran (evaluate_result, ReflectNode.update_context, execute_sql).
THEOREM JudgedCorrect ==
  ASSUME SqlIsExecuted
  PROVE  Spec => []JudgedSqlWasExecuted
<1>1. Init => SqlInv
  BY DEF Init, SqlInv, Walking
<1>2. OrderInv /\ SqlInv => JudgedSqlWasExecuted
  <2> SUFFICES ASSUME OrderInv, SqlInv, pc = "loop", wfStatus # "completed", current.type \in Judges
               PROVE  sql = "run"
    BY DEF JudgedSqlWasExecuted, Judges
  <2>1. Walking /\ index \in index .. Len(node_order) /\ node_order[index].type \in Judges
    BY LenProperties DEF OrderInv, Here, Shape, Walking, current
  <2>2. Ahead(node_order, index, sql, index)
    BY <2>1 DEF SqlInv, WillBeExecuted
  <2>3. index .. index - 1 = {}
    BY DEF OrderInv, Shape
  <2> QED BY <2>2, <2>3 DEF Ahead
<1> QED BY <1>1, <1>2, SqlNext, OrderCorrect, RequestCorrect, PTL DEF Spec

-----------------------------------------------------------------------------
(***************************************************************************)
(* Completion.  The order never grows beyond the plan and a round's repair *)
(* per round, so the runner has run off its end before the steps are used  *)
(* up; and a node that needs a record finds one behind a node that makes   *)
(* it, so nothing but a failure of its own ends the run before.            *)
(***************************************************************************)

\* A node that needs a record finds one or comes behind a node that makes it.
Comes(order, i, q) ==
  \A k \in i .. Len(order) : order[k].type \in NeedsSql =>
    q # "none" \/ \E j \in i .. k - 1 : order[j].type \in Makers

NoneLost == streaming => \A n \in NodesOf(node_order) : n.type \notin ResultLostInStream

\* The most nodes that can have been inserted so far, when s is the longest repair.
SoFar(s, rounds, limit) ==
  IF rounds < limit THEN rounds * Len(ReflectionNodes[s]) ELSE MostRepairs(s, limit)

SizeInv ==
  /\ ~ Reflecting(plan) => node_order = PlanOrder(plan)
  /\ \E s \in Repairs : Len(node_order) <= 1 + Len(plan) + SoFar(s, reflection_round, maxRound)

WorkInv ==
  /\ Walking => index >= 2 /\ step_count = index - 2
  /\ pc = "evaluate" /\ current.type = "reflect" => sql # "none"
  /\ Walking /\ ~ fault /\ Generates(plan) => Comes(node_order, index, sql)
  /\ pc \in {"finalize", "done"} /\ ~ fault /\ Generates(plan) /\ NoneLost => wfStatus = "completed"

LEMMA RepairLength == \A s \in Repairs : Len(ReflectionNodes[s]) \in Nat
BY ReflectionNodesAssumption, LenProperties

\* Products of numbers.
LEMMA Products ==
  \A n, a, b \in Nat :
    /\ n * a \in Nat
    /\ (n + 1) * a = n * a + a
    /\ a <= b => n * a <= n * b /\ a * n <= b * n
OBVIOUS

\* The cases of SoFar, one by one.
LEMMA Rounds ==
  ASSUME NEW n \in Nat, NEW limit \in Int, NEW s \in Repairs
  PROVE  /\ n < limit => SoFar(s, n, limit) = n * Len(ReflectionNodes[s])
         /\ ~ (n < limit) => SoFar(s, n, limit) = MostRepairs(s, limit)
         /\ limit < 1 => MostRepairs(s, limit) = 0
         /\ ~ (limit < 1) =>
              MostRepairs(s, limit) =
                (limit - 1) * Len(ReflectionNodes[s]) + Len(ReflectionNodes["REASONING"])
BY Zenon DEF SoFar, MostRepairs

\* One more round adds at most the longer of the repairs; the last one is REASONING.
LEMMA OneMoreRound ==
  ASSUME NEW n \in Nat, NEW limit \in Int, NEW s \in Repairs, NEW t \in Repairs,
         n + 1 <= limit, n + 1 = limit => t = "REASONING"
  PROVE  \E u \in Repairs : SoFar(s, n, limit) + Len(ReflectionNodes[t]) <= SoFar(u, n + 1, limit)
<1> DEFINE a == Len(ReflectionNodes[s])
           b == Len(ReflectionNodes[t])
           na == n * a
           nb == n * b
<1>1. /\ a \in Nat /\ b \in Nat /\ n + 1 \in Nat /\ n < limit
  BY RepairLength
<1>2. SoFar(s, n, limit) = na
  BY <1>1, Rounds
<1> HIDE DEF a, b
<1>3. na \in Nat /\ nb \in Nat
  BY <1>1, Products, Zenon
<1>4. (a <= b => na <= nb) /\ (b <= a => nb <= na)
  BY <1>1, Products, Zenon
<1>5. (n + 1) * a = na + a /\ (n + 1) * b = nb + b
  BY <1>1, Products, Zenon
<1>6. CASE n + 1 = limit
  <2>1. ~ (n + 1 < limit) /\ ~ (limit < 1) /\ limit - 1 = n /\ t = "REASONING"
    BY <1>6
  <2>2. SoFar(s, n + 1, limit) = MostRepairs(s, limit)
    BY <1>1, <2>1, Rounds, Zenon
  <2>3. MostRepairs(s, limit) = (limit - 1) * a + b
    BY <2>1, Rounds, Zenon DEF a, b
  <2>4. SoFar(s, n + 1, limit) = na + b
    BY <2>1, <2>2, <2>3
  <2> HIDE DEF na
  <2> QED BY <1>1, <1>2, <1>3, <2>4 DEF b
<1>7. CASE n + 1 < limit
  <2>1. SoFar(s, n + 1, limit) = na + a /\ SoFar(t, n + 1, limit) = nb + b
    <3>1. /\ SoFar(s, n + 1, limit) = (n + 1) * Len(ReflectionNodes[s])
          /\ SoFar(t, n + 1, limit) = (n + 1) * Len(ReflectionNodes[t])
      BY <1>1, <1>7, Rounds, Zenon
    <3> QED BY <1>5, <3>1, Zenon DEF a, b
  <2> HIDE DEF na, nb
  <2>2. CASE a <= b
    BY <1>1, <1>2, <1>3, <1>4, <2>1, <2>2 DEF b
  <2>3. CASE b <= a
    BY <1>1, <1>2, <1>3, <2>1, <2>3 DEF b
  <2> QED BY <1>1, <2>2, <2>3
<1> QED BY <1>1, <1>6, <1>7

\* A round without a repair takes none of the room for the others.
LEMMA IdleRound ==
  ASSUME NEW n \in Nat, NEW limit \in Int, NEW s \in Repairs
  PROVE  /\ SoFar(s, n, limit) \in Nat /\ SoFar(s, n + 1, limit) \in Nat
         /\ MostRepairs(s, limit) \in Nat
         /\ SoFar(s, n, limit) <= SoFar(s, n + 1, limit)
         /\ SoFar(s, n, limit) <= MostRepairs(s, limit)
<1> DEFINE a == Len(ReflectionNodes[s])
           b == Len(ReflectionNodes["REASONING"])
           na == n * a
           most == MostRepairs(s, limit)
<1>1. a \in Nat /\ b \in Nat /\ n + 1 \in Nat
  BY RepairLength DEF Repairs
<1>2. n < limit => SoFar(s, n, limit) = na
  BY Rounds, Zenon
<1>3. n + 1 < limit => SoFar(s, n + 1, limit) = (n + 1) * a
  BY <1>1, Rounds, Zenon
<1>4. /\ ~ (n < limit) => SoFar(s, n, limit) = most
      /\ ~ (n + 1 < limit) => SoFar(s, n + 1, limit) = most
  BY <1>1, Rounds, Zenon
<1>5. most \in Nat /\ (n < limit => na <= most)
  <2>1. CASE limit < 1
    <3>1. most = 0
      BY <2>1, Rounds, Zenon
    <3>2. ~ (n < limit)
      BY <2>1
    <3> QED BY <3>1, <3>2
  <2>2. CASE ~ (limit < 1)
    <3> DEFINE m == limit - 1
    <3>1. most = m * a + b
      BY <2>2, Rounds, Zenon
    <3>2. m \in Nat /\ (n < limit => n <= m)
      BY <2>2
    <3> HIDE DEF m, a, b, most
    <3>3. m * a \in Nat /\ (n <= m => na <= m * a) /\ na \in Nat
      BY <1>1, <3>2, Products, Zenon
    <3> HIDE DEF na
    <3> DEFINE ma == m * a
    <3>4. most = ma + b /\ ma \in Nat /\ (n <= m => na <= ma)
      BY <3>1, <3>3, Zenon
    <3> HIDE DEF ma
    <3> QED BY <1>1, <3>2, <3>3, <3>4
  <2> QED BY <2>1, <2>2
<1> HIDE DEF a, most
<1>6. na \in Nat /\ (n + 1) * a = na + a
  BY <1>1, Products, Zenon
<1> HIDE DEF na
<1>7. n + 1 < limit => SoFar(s, n + 1, limit) = na + a
  BY <1>3, <1>6, Zenon
<1>8. n + 1 < limit => n < limit
  OBVIOUS
<1> QED BY <1>1, <1>2, <1>4, <1>5, <1>6, <1>7, <1>8 DEF most

\* Nodes added within the bound stay within it.
LEMMA Room ==
  \A n, m, l, p, x, y \in Nat : n = l + m /\ l <= 1 + p + x /\ x + m <= y => n <= 1 + p + y
OBVIOUS

\* How a reflection changes the length of the order.
LEMMA SizeNext == OrderInv /\ RequestInv /\ SizeInv /\ [Next]_vars => SizeInv'
<1> SUFFICES ASSUME OrderInv, RequestInv, SizeInv, [Next]_vars PROVE SizeInv'
  OBVIOUS
<1>1. UNCHANGED <<plan, maxRound>> /\ plan \in Plans
  BY RequestNext DEF RequestInv
<1>2. CASE UNCHANGED <<node_order, reflection_round>>
  BY <1>1, <1>2 DEF SizeInv
<1>3. CASE EvaluateReflect
  <2>1. /\ node_order \in Seq(Node) /\ index \in 1 .. Len(node_order) /\ index \in Nat
        /\ Len(node_order) \in Nat /\ reflection_round \in Nat /\ maxRound \in Int
    BY LenProperties DEF OrderInv, Shape
  <2>2. PICK batch \in Seq(Node) : Reflects(batch) /\ Inserts(batch)
    BY <1>3, ReflectBatch
  <2>3. reflection_round' = reflection_round + 1 /\ node_order' = Insert(node_order, index, batch)
    BY <2>2 DEF Reflects
  <2>4. Len(node_order') = Len(node_order) + Len(batch) /\ Len(batch) \in Nat
    BY <2>1, <2>3, InsertShape, LenProperties
  <2>5. Reflecting(plan)
    <3>1. CASE node_order = PlanOrder(plan)
      <4>1. /\ Len(plan) \in Nat /\ DOMAIN plan = 1 .. Len(plan)
            /\ Len(node_order) = Len(plan) + 1
            /\ node_order[1].type = "start"
            /\ \A k \in 2 .. Len(plan) + 1 : node_order[k].type = plan[k - 1]
        BY <1>1, <3>1, PlanOrderShape
      <4>2. node_order[index].type = "reflect"
        BY <1>3, ReflectRecord
      <4>3. index # 1
        BY <4>1, <4>2
      <4>4. index \in 2 .. Len(plan) + 1 /\ index - 1 \in 1 .. Len(plan)
        BY <2>1, <4>1, <4>3
      <4> QED BY <4>1, <4>2, <4>4 DEF Reflecting
    <3> QED BY <3>1 DEF SizeInv
  <2>6. PICK s \in Repairs : Len(node_order) <= 1 + Len(plan) + SoFar(s, reflection_round, maxRound)
    BY DEF SizeInv
  <2>7. Len(plan) \in Nat
    BY <1>1, PlansAssumption, LenProperties
  <2>8. Len(node_order') \in Nat
    <3> DEFINE l == Len(node_order)
               m == Len(batch)
    <3>1. l + m \in Nat
      <4>1. l \in Nat /\ m \in Nat
        BY <2>1, <2>4
      <4> HIDE DEF l, m
      <4> QED BY <4>1
    <3> QED BY <2>4, <3>1, Zenon
  <2>9. \E u \in Repairs : Len(node_order') <= 1 + Len(plan) + SoFar(u, reflection_round + 1, maxRound)
    <3>1. /\ SoFar(s, reflection_round, maxRound) \in Nat
          /\ SoFar(s, reflection_round + 1, maxRound) \in Nat
          /\ SoFar(s, reflection_round, maxRound) <= SoFar(s, reflection_round + 1, maxRound)
      BY <2>1, IdleRound
    <3>2. CASE batch = <<>>
      <4>1. Len(batch) = 0
        BY <3>2
      <4>2. SoFar(s, reflection_round, maxRound) + Len(batch)
              <= SoFar(s, reflection_round + 1, maxRound)
        <5> DEFINE x == SoFar(s, reflection_round, maxRound)
        <5>1. x \in Nat /\ x <= SoFar(s, reflection_round + 1, maxRound)
          BY <3>1, Zenon
        <5> HIDE DEF x
        <5>2. x + Len(batch) = x
          BY <4>1, <5>1
        <5> QED BY <5>1, <5>2, Zenon DEF x
      <4>3. Len(node_order') <= 1 + Len(plan) + SoFar(s, reflection_round + 1, maxRound)
        BY <2>1, <2>4, <2>6, <2>7, <2>8, <3>1, <4>2, Room, Zenon
      <4> QED BY <4>3, Zenon
    <3>3. ASSUME reflection_round + 1 <= maxRound, NEW t \in Repairs,
                 reflection_round + 1 = maxRound => t = "REASONING",
                 Len(batch) = Len(ReflectionNodes[t])
          PROVE  \E u \in Repairs :
                   Len(node_order') <= 1 + Len(plan) + SoFar(u, reflection_round + 1, maxRound)
      <4>1. PICK u \in Repairs : SoFar(s, reflection_round, maxRound) + Len(ReflectionNodes[t])
                                   <= SoFar(u, reflection_round + 1, maxRound)
        BY <2>1, <3>3, OneMoreRound
      <4>2. SoFar(u, reflection_round + 1, maxRound) \in Nat
        BY <2>1, IdleRound
      <4>3. SoFar(s, reflection_round, maxRound) + Len(batch)
              <= SoFar(u, reflection_round + 1, maxRound)
        BY <3>3, <4>1, Zenon
      <4>4. Len(node_order') <= 1 + Len(plan) + SoFar(u, reflection_round + 1, maxRound)
        BY <2>1, <2>4, <2>6, <2>7, <2>8, <3>1, <4>2, <4>3, Room, Zenon
      <4> QED BY <4>4, Zenon
    <3> QED BY <2>2, <3>2, <3>3 DEF Inserts
  <2> QED BY <1>1, <2>3, <2>5, <2>9 DEF SizeInv
<1> QED
  BY <1>2, <1>3 DEF Next, RunStep, PrepareFirst, NodeCompletes, NodeFails, ResultLost, EnterNode,
         LoopEnds, Evaluate, Finalize, Ended, workflow, vars

LEMMA SizeCorrect == Spec => []SizeInv
<1>1. Init => SizeInv
  <2> SUFFICES ASSUME Init PROVE SizeInv
    OBVIOUS
  <2>1. plan \in Plans /\ node_order = PlanOrder(plan) /\ reflection_round = 0 /\ maxRound \in Int
    BY RoundLimitsAssumption DEF Init
  <2>2. Len(plan) \in Nat /\ Len(node_order) = Len(plan) + 1
    BY <2>1, PlanOrderShape
  <2>3. "REASONING" \in Repairs
    BY DEF Repairs
  <2>4. SoFar("REASONING", 0, maxRound) \in Nat
    BY <2>1, <2>3, IdleRound
  <2>5. Len(node_order) <= 1 + Len(plan) + SoFar("REASONING", reflection_round, maxRound)
    BY <2>1, <2>2, <2>4
  <2> QED BY <2>1, <2>3, <2>5 DEF SizeInv
<1> QED BY <1>1, SizeNext, OrderCorrect, RequestCorrect, PTL DEF Spec

\* The order never outgrows the steps.
LEMMA OrderFits ==
  ASSUME StepsSuffice, OrderInv, RequestInv, SizeInv
  PROVE  Len(node_order) <= MaxSteps + 1
<1>1. /\ plan \in Plans /\ maxRound \in RoundLimits /\ maxRound \in Int /\ MaxSteps \in Nat
      /\ reflection_round \in Nat /\ Len(node_order) \in Nat /\ Len(plan) \in Nat
  BY LenProperties, PlansAssumption, MaxStepsAssumption DEF OrderInv, Shape, RequestInv
<1>2. CASE Reflecting(plan)
  <2>1. PICK s \in Repairs : Len(node_order) <= 1 + Len(plan) + SoFar(s, reflection_round, maxRound)
    BY DEF SizeInv
  <2>2. /\ SoFar(s, reflection_round, maxRound) \in Nat
        /\ SoFar(s, reflection_round, maxRound) <= MostRepairs(s, maxRound)
    BY <1>1, IdleRound
  <2>3. Len(plan) + (IF Reflecting(plan) THEN MostRepairs(s, maxRound) ELSE 0) <= MaxSteps
    BY <1>1, Zenon DEF StepsSuffice
  <2>4. Len(plan) + MostRepairs(s, maxRound) <= MaxSteps
    BY <1>2, <2>3
  <2>5. MostRepairs(s, maxRound) \in Int
    BY <1>1, IdleRound
  <2> DEFINE x == SoFar(s, reflection_round, maxRound)
             y == MostRepairs(s, maxRound)
             p == Len(plan)
             l == Len(node_order)
  <2>6. /\ l \in Nat /\ p \in Nat /\ x \in Nat /\ y \in Int /\ MaxSteps \in Nat
        /\ l <= 1 + p + x /\ x <= y /\ p + y <= MaxSteps
    BY <1>1, <2>1, <2>2, <2>4, <2>5, Zenon
  <2> HIDE DEF x, y, p, l
  <2>7. l <= MaxSteps + 1
    BY <2>6
  <2> QED BY <2>7, Zenon DEF l
<1>3. CASE ~ Reflecting(plan)
  <2>1. Len(node_order) = Len(plan) + 1
    BY <1>1, <1>3, PlanOrderShape DEF SizeInv
  <2>2. \A s \in Repairs : Len(plan) + 0 <= MaxSteps
    BY <1>1, <1>3, Zenon DEF StepsSuffice
  <2>3. Len(plan) + 0 <= MaxSteps
    BY <2>2 DEF Repairs
  <2> QED BY <1>1, <2>1, <2>3
<1> QED BY <1>2, <1>3

\* After a node has been worked off: the next one that needs a record finds it.
LEMMA StepComes ==
  ASSUME NEW order, NEW i \in Nat, NEW q, NEW r, Comes(order, i, q), Len(order) \in Nat,
         q # "none" => r # "none",
         order[i].type \in Makers => r # "none"
  PROVE  Comes(order, i + 1, r)
<1> SUFFICES ASSUME NEW k \in i + 1 .. Len(order), order[k].type \in NeedsSql, r = "none"
             PROVE  \E j \in i + 1 .. k - 1 : order[j].type \in Makers
  BY DEF Comes
<1>1. k \in i .. Len(order)
  OBVIOUS
<1>2. PICK j \in i .. k - 1 : order[j].type \in Makers
  BY <1>1 DEF Comes
<1>3. j # i
  BY <1>2
<1>4. j \in i + 1 .. k - 1
  BY <1>3
<1> QED BY <1>2, <1>4

\* The plan is entered with no record made.
LEMMA PlanComes ==
  ASSUME NEW p \in Plans, Generates(p)
  PROVE  Comes(PlanOrder(p), 2, "none")
<1> DEFINE order == PlanOrder(p)
<1>1. /\ Len(p) \in Nat /\ DOMAIN p = 1 .. Len(p) /\ Len(order) = Len(p) + 1
      /\ \A k \in 2 .. Len(p) + 1 : order[k].type = p[k - 1]
  BY PlanOrderShape
<1> HIDE DEF order
<1> SUFFICES ASSUME NEW k \in 2 .. Len(order), order[k].type \in NeedsSql
             PROVE  \E j \in 2 .. k - 1 : order[j].type \in Makers
  BY DEF Comes, order
<1>2. k - 1 \in DOMAIN p /\ p[k - 1] \in NeedsSql /\ k \in Int
  BY <1>1
<1>3. PICK j \in 1 .. k - 2 : p[j] \in Makers
  <2>1. \E j \in 1 .. k - 1 - 1 : p[j] \in MakesSql \union MayMakeSql
    BY <1>2 DEF Generates
  <2>2. k - 1 - 1 = k - 2
    BY <1>2
  <2> QED BY <2>1, <2>2 DEF Makers
<1>4. j + 1 \in 2 .. k - 1 /\ j + 1 \in 2 .. Len(p) + 1 /\ (j + 1) - 1 = j
  BY <1>1, <1>2
<1> QED BY <1>1, <1>3, <1>4

LEMMA WorkNext ==
  ASSUME StepsSuffice
  PROVE  OrderInv /\ RequestInv /\ SizeInv /\ WorkInv /\ [Next]_vars => WorkInv'
<1> SUFFICES ASSUME OrderInv, RequestInv, SizeInv, WorkInv, [Next]_vars PROVE WorkInv'
  OBVIOUS
<1>0. /\ UNCHANGED <<plan, streaming, maxRound>> /\ plan \in Plans
      /\ index \in Nat /\ index <= Len(node_order) /\ Len(node_order) \in Nat /\ MaxSteps \in Nat
      /\ Generates(plan)' <=> Generates(plan)
  BY RequestNext, LenProperties, MaxStepsAssumption DEF RequestInv, OrderInv, Shape, Generates
<1>1. CASE PrepareFirst
  <2>1. /\ node_order = PlanOrder(plan) /\ sql = "none" /\ step_count = 0
        /\ UNCHANGED <<node_order, sql, step_count>>
        /\ pc' \in {"loop", "raised"}
    BY <1>1 DEF PrepareFirst, RequestInv
  <2>2. Walking' => index' = 2
    BY <1>1 DEF PrepareFirst, Walking
  <2>3. Generates(plan) => Comes(node_order, 2, "none")
    BY <1>0, <2>1, PlanComes
  <2> QED BY <1>0, <2>1, <2>2, <2>3 DEF WorkInv
<1>2. CASE NodeCompletes
  <2>1. /\ Walking /\ pc' = "evaluate"
        /\ UNCHANGED <<node_order, index, sql, wfStatus, step_count, fault>>
        /\ current.type = "reflect" => sql # "none"
    BY <1>2 DEF NodeCompletes, EnterNode, workflow, Walking, OrderInv, Here
  <2>2. Walking' => index' >= 2 /\ step_count' = index' - 2
    BY <2>1 DEF WorkInv
  <2>3. Walking' /\ ~ fault' /\ Generates(plan)' => Comes(node_order', index', sql')
    BY <1>0, <2>1 DEF WorkInv
  <2>4. pc' = "evaluate" /\ current'.type = "reflect" => sql' # "none"
    BY <2>1 DEF current
  <2> QED BY <2>1, <2>2, <2>3, <2>4 DEF WorkInv
<1>3. CASE NodeFails
  BY <1>3 DEF NodeFails, WorkInv, Walking
<1>4. CASE ResultLost
  <2>1. streaming' /\ current \in NodesOf(node_order') /\ current.type \in ResultLostInStream
    BY <1>0, <1>4, CurrentApart DEF ResultLost, EnterNode, workflow
  <2>2. ~ NoneLost'
    BY <2>1 DEF NoneLost
  <2> QED BY <1>4, <2>2 DEF ResultLost, WorkInv, Walking
<1>5. CASE LoopEnds
  <2>1. wfStatus = "completed"
    <3> SUFFICES ASSUME wfStatus = "pending" PROVE FALSE
      BY DEF OrderInv, Here
    <3>1. step_count = index - 2 /\ step_count >= MaxSteps
      BY <1>5 DEF LoopEnds, Walking, WorkInv
    <3>2. Len(node_order) <= MaxSteps + 1
      BY OrderFits
    <3> QED BY <1>0, <3>1, <3>2
  <2> QED BY <1>5, <2>1 DEF LoopEnds, WorkInv, Walking
<1>6. ASSUME NEW nodes, NEW trouble \in BOOLEAN, SetUpNext(nodes, trouble), Walking,
             Len(node_order') \in Nat,
             ~ fault' /\ Generates(plan) => Comes(node_order', index + 1, sql')
      PROVE  WorkInv'
  <2>1. wfStatus = "pending" /\ step_count = index - 2 /\ index >= 2
    BY <1>6 DEF Walking, WorkInv
  <2>2. \/ pc' = "loop" /\ wfStatus' = "completed"
        \/ /\ pc' = "loop" /\ wfStatus' = "pending"
           /\ index' = index + 1 /\ step_count' = step_count + 1
        \/ /\ pc' = "finalize" /\ index < Len(node_order')
           /\ ~ fault' => node_order'[index + 1].type \in NeedsSql /\ sql' = "none"
    BY <1>0, <1>6, <2>1, SetUpOutcome
  <2>3. CASE pc' = "loop" /\ wfStatus' = "completed"
    BY <2>3 DEF WorkInv, Walking
  <2>4. CASE /\ pc' = "loop" /\ wfStatus' = "pending"
             /\ index' = index + 1 /\ step_count' = step_count + 1
    <3>1. index' >= 2 /\ step_count' = index' - 2
      BY <1>0, <2>1, <2>4
    <3> QED BY <1>0, <1>6, <2>4, <3>1 DEF WorkInv
  <2>5. CASE /\ pc' = "finalize" /\ index < Len(node_order')
             /\ ~ fault' => node_order'[index + 1].type \in NeedsSql /\ sql' = "none"
    <3>1. fault' \/ ~ Generates(plan)
      <4> SUFFICES ASSUME ~ fault', Generates(plan) PROVE FALSE
        OBVIOUS
      <4>1. index + 1 \in index + 1 .. Len(node_order') /\ index + 1 .. index + 1 - 1 = {}
        BY <1>0, <1>6, <2>5
      <4> QED BY <1>6, <2>5, <4>1 DEF Comes
    <3> QED BY <1>0, <2>5, <3>1 DEF WorkInv, Walking
  <2> QED BY <2>2, <2>3, <2>4, <2>5
<1>7. CASE Evaluate
  <2>1. /\ UNCHANGED node_order /\ Len(node_order') \in Nat
        /\ Walking /\ current = node_order[index]
        /\ sql # "none" => sql' # "none"
    BY <1>7, EvaluateRecord
  <2>2. PICK trouble \in BOOLEAN :
          /\ SetUpNext(status, trouble)
          /\ ~ trouble /\ current.type \in Makers => sql' # "none"
    BY <1>7, EvaluateRecord
  <2>3. ~ fault' => ~ fault /\ ~ trouble
    BY <1>0, <2>1, <2>2, SetUpOutcome DEF Walking
  <2>4. ~ fault' /\ Generates(plan) => Comes(node_order', index + 1, sql')
    <3> SUFFICES ASSUME ~ fault', Generates(plan) PROVE Comes(node_order, index + 1, sql')
      BY <2>1
    <3>1. Comes(node_order, index, sql)
      BY <2>1, <2>3 DEF WorkInv
    <3>2. node_order[index].type \in Makers => sql' # "none"
      BY <2>1, <2>2, <2>3
    <3> QED BY <1>0, <2>1, <3>1, <3>2, StepComes
  <2> QED BY <1>6, <2>1, <2>2, <2>4
<1>8. CASE EvaluateReflect
  <2>1. /\ Len(node_order') \in Nat /\ Walking
        /\ \E nodes : \E trouble \in BOOLEAN : SetUpNext(nodes, trouble)
        /\ current.type = "reflect" /\ (sql # "none" => sql' # "none")
    BY <1>8, ReflectRecord
  <2>2. sql' # "none"
    BY <1>8, <2>1 DEF EvaluateReflect, WorkInv
  <2>3. Comes(node_order', index + 1, sql')
    BY <2>2 DEF Comes
  <2> QED BY <1>6, <2>1, <2>3
<1>9. CASE Finalize
  <2>1. /\ pc = "finalize" /\ pc' = "done"
        /\ UNCHANGED <<node_order, wfStatus, fault>>
    BY <1>9 DEF Finalize, workflow
  <2>2. NoneLost' <=> NoneLost
    BY <1>0, <2>1 DEF NoneLost, NodesOf
  <2> QED BY <1>0, <2>1, <2>2 DEF WorkInv, Walking
<1>10. CASE Ended \/ UNCHANGED vars
  <2>1. UNCHANGED vars
    BY <1>10 DEF Ended
  <2>2. UNCHANGED <<pc, wfStatus, index, step_count, node_order, sql, fault, streaming>>
    BY <2>1 DEF vars
  <2> QED BY <1>0, <2>2 DEF WorkInv, Walking, current, NoneLost, NodesOf
<1> QED
  BY <1>1, <1>2, <1>3, <1>4, <1>5, <1>7, <1>8, <1>9, <1>10 DEF Next, RunStep

\* For any plans, repairs and limits for which the steps suffice: a run of a plan that
\* generates SQL before it needs some, in which nothing failed by itself, ends with the
\* workflow completed; neither the edits of the order nor the step limit lose work
\* (WorkflowRunner.run, evaluate_result, advance_to_next_node).
THEOREM CompletionCorrect ==
  ASSUME StepsSuffice
  PROVE  Spec => []WorkCompletes
<1>1. Init => WorkInv
  BY DEF Init, WorkInv, Walking
<1>2. WorkInv => WorkCompletes
  BY DEF WorkInv, WorkCompletes, NoneLost
<1> QED BY <1>1, <1>2, WorkNext, OrderCorrect, RequestCorrect, SizeCorrect, PTL DEF Spec

-----------------------------------------------------------------------------
(***************************************************************************)
(* A parallel node of such a plan, over any children and plans of theirs:  *)
(* ParallelNode.  Context.copy() shares one list of SQL records, and an    *)
(* execute_sql in a thread writes to a record it took for the last before  *)
(* other threads appended.  What can be relied on all the same: it was set *)
(* up with SQL that was there before (OwnInput), so no record shows the    *)
(* result of later SQL; the SQL of an action stays out unless it is        *)
(* selected, so a lone sub-workflow finds nothing but its own.             *)
(***************************************************************************)
Record == [by : Children, shown : [Parallel!Attributes -> Nat]]
Lone(c) == \A d \in Children \ {c} : ~Parallel!Sub(d)

\* Where a child can be, and with what.
Child ==
  \A c \in Children :
    /\ state[c] = "idle" => iterations[c] = 0 /\ place[c] = 1
    /\ state[c] \in {"ready", "ran", "writing", "moved"} => Parallel!Sub(c)
    /\ state[c] = "ready" => iterations[c] < MaxIterations

\* The children are through with their work before the selection; when the node gave
\* up some may never have started.
Phases ==
  /\ \A c \in Children : state[c] \in {"ready", "ran", "writing", "moved"} => phase = "parallel"
  /\ phase \in {"select", "execute", "done"} => \A c \in Children : Parallel!Ended(c)
  /\ phase \in {"parallel", "select"} => selected = Nobody
  /\ final # 0 => phase \in {"done", "failed"} /\ selected \in Children
  /\ phase = "execute" => /\ selected \in Children /\ sql_contexts # <<>>
                          /\ found[selected] => sql_contexts[Len(sql_contexts)].by = selected

\* An execute_sql was set up with SQL that is in the list, a lone sub-workflow's with
\* the last one, and it writes to a record that is no older.
OwnInput ==
  \A c \in Children :
    /\ state[c] \in {"ready", "ran", "writing"} /\ Parallel!node(c) = "execute_sql" =>
         /\ input[c] \in 1 .. Len(sql_contexts)
         /\ Lone(c) => input[c] = Len(sql_contexts)
    /\ state[c] = "writing" => /\ Parallel!node(c) = "execute_sql"
                               /\ last_record[c] \in input[c] .. Len(sql_contexts)
                               /\ written[c] \in 0 .. 2

\* What the k-th of some records shows.
Shows ==
  \A k \in 1 .. Len(sql_contexts) : \A a \in Parallel!Attributes :
    /\ sql_contexts[k].shown[a] <= k
    /\ (\E c \in Children : Lone(c)) => sql_contexts[k].shown[a] \in {0, k}

ParallelInv ==
  /\ Parallel!TypeOK /\ Child /\ Phases /\ OwnInput
  /\ Shows /\ Parallel!RejectedStaysOut /\ Parallel!SelectedActionIsRun

-----------------------------------------------------------------------------
\* What setting one attribute of one record leaves as it was.
LEMMA PutShape ==
  ASSUME NEW s \in Seq(Record), NEW k \in 1 .. Len(s), NEW a \in Parallel!Attributes, NEW v \in Nat
  PROVE  LET t == [s EXCEPT ![k].shown[a] = v]
         IN  /\ t \in Seq(Record) /\ Len(t) = Len(s)
             /\ \A j \in 1 .. Len(s) :
                  /\ t[j].by = s[j].by
                  /\ \A b \in Parallel!Attributes :
                       t[j].shown[b] = IF j = k /\ b = a THEN v ELSE s[j].shown[b]
<1> DEFINE r == [s[k] EXCEPT !.shown[a] = v]
           t == [s EXCEPT ![k] = r]
<1>1. s[k] \in Record /\ DOMAIN s = 1 .. Len(s) /\ Len(s) \in Nat
  BY ElementOfSeq, LenProperties
<1>2. /\ r \in Record /\ r.by = s[k].by
      /\ \A b \in Parallel!Attributes : r.shown[b] = IF b = a THEN v ELSE s[k].shown[b]
  BY <1>1 DEF Record
<1>3. [s EXCEPT ![k].shown[a] = v] = t
  OBVIOUS
<1> HIDE DEF r
<1>4. t \in Seq(Record) /\ Len(t) = Len(s)
  BY <1>2, ExceptSeq
<1>5. \A j \in 1 .. Len(s) : t[j] = IF j = k THEN r ELSE s[j]
  BY <1>1
<1> HIDE DEF t
<1>6. \A j \in 1 .. Len(s) : t[j].by = s[j].by
  BY <1>2, <1>5
<1>7. \A j \in 1 .. Len(s) : \A b \in Parallel!Attributes :
        t[j].shown[b] = IF j = k /\ b = a THEN v ELSE s[j].shown[b]
  BY <1>2, <1>5
<1> QED BY <1>3, <1>4, <1>6, <1>7

\* The records after all attributes of the last one have been set to v.
Marked(s, v) == [s EXCEPT ![Len(s)].shown = [a \in Parallel!Attributes |-> v]]

\* What that leaves as it was.
LEMMA MarkLast ==
  ASSUME NEW s \in Seq(Record), s # <<>>, NEW v \in Nat
  PROVE  /\ Marked(s, v) \in Seq(Record) /\ Len(Marked(s, v)) = Len(s)
         /\ \A j \in 1 .. Len(s) :
              /\ Marked(s, v)[j].by = s[j].by
              /\ j < Len(s) => Marked(s, v)[j] = s[j]
              /\ \A b \in Parallel!Attributes :
                   Marked(s, v)[j].shown[b] = IF j = Len(s) THEN v ELSE s[j].shown[b]
<1> DEFINE n == Len(s)
           m == [a \in Parallel!Attributes |-> v]
           r == [s[n] EXCEPT !.shown = m]
           t == [s EXCEPT ![n] = r]
<1>1. n \in Nat /\ n \in 1 .. n /\ DOMAIN s = 1 .. n
  BY LenProperties
<1>2. s[n] \in Record
  BY <1>1, ElementOfSeq
<1>3. m \in [Parallel!Attributes -> Nat] /\ \A b \in Parallel!Attributes : m[b] = v
  OBVIOUS
<1> HIDE DEF m
<1>4. r \in Record /\ r.by = s[n].by /\ r.shown = m
  BY <1>2, <1>3 DEF Record
<1>5. Marked(s, v) = t
  BY DEF Marked, m
<1> HIDE DEF r
<1>6. t \in Seq(Record) /\ Len(t) = n
  BY <1>1, <1>4, ExceptSeq
<1>7. \A j \in 1 .. n : t[j] = IF j = n THEN r ELSE s[j]
  BY <1>1
<1> HIDE DEF t, n
<1>8. \A j \in 1 .. n : j < n => j # n
  BY <1>1
<1>9. \A j \in 1 .. n : t[j].by = s[j].by /\ (j < n => t[j] = s[j])
  BY <1>4, <1>7, <1>8
<1>10. \A j \in 1 .. n : \A b \in Parallel!Attributes : t[j].shown[b] = IF j = n THEN v ELSE s[j].shown[b]
  BY <1>3, <1>4, <1>7
<1> QED BY <1>5, <1>6, <1>9, <1>10 DEF n, m

LEMMA RecordList ==
  ASSUME Parallel!TypeOK
  PROVE  /\ sql_contexts \in Seq(Record) /\ Len(sql_contexts) \in Nat
         /\ \A k \in 1 .. Len(sql_contexts) : sql_contexts[k] \in Record
         /\ sql_contexts # <<>> => Len(sql_contexts) \in 1 .. Len(sql_contexts)
<1>1. sql_contexts \in Seq(Record) /\ Len(sql_contexts) \in Nat
  BY LenProperties DEF Parallel!TypeOK, Record
<1>2. \A k \in 1 .. Len(sql_contexts) : sql_contexts[k] \in Record
  BY <1>1, ElementOfSeq
<1>3. sql_contexts # <<>> => Len(sql_contexts) \in 1 .. Len(sql_contexts)
  BY <1>1
<1> QED BY <1>1, <1>2, <1>3

\* What an appended record adds.
LEMMA AppendShape ==
  ASSUME NEW s \in Seq(Record), NEW c \in Children
  PROVE  LET t == Append(s, Parallel!NewRecord(c))
         IN  /\ t \in Seq(Record) /\ Len(t) = Len(s) + 1 /\ t # <<>>
             /\ \A k \in 1 .. Len(s) : t[k] = s[k]
             /\ t[Len(s) + 1].by = c
             /\ \A a \in Parallel!Attributes : t[Len(s) + 1].shown[a] = 0
<1> DEFINE x == Parallel!NewRecord(c)
<1>1. x \in Record /\ x.by = c /\ \A a \in Parallel!Attributes : x.shown[a] = 0
  BY DEF Record, Parallel!NewRecord
<1> HIDE DEF x
<1>2. /\ Append(s, x) \in Seq(Record) /\ Len(Append(s, x)) = Len(s) + 1 /\ Append(s, x) # <<>>
      /\ \A k \in 1 .. Len(s) : Append(s, x)[k] = s[k]
      /\ Append(s, x)[Len(s) + 1] = x
  BY <1>1, AppendProperties
<1> QED BY <1>1, <1>2 DEF x

LEMMA ParallelInit ==
  ASSUME Parallel!ParallelConstants
  PROVE  Parallel!Init => ParallelInv
<1> SUFFICES ASSUME Parallel!Init PROVE ParallelInv
  OBVIOUS
<1> USE DEF Parallel!ParallelConstants
<1>1. layout \in [Children -> Seq(STRING)]
  BY DEF Parallel!Init
<1>2. \A c \in Children : layout[c] # <<>> => 1 <= Len(layout[c])
  <2> TAKE c \in Children
  <2>1. layout[c] \in Seq(STRING) /\ Len(layout[c]) \in Nat
    BY <1>1, LenProperties
  <2> QED BY <2>1
<1>3. /\ <<>> \in Seq([by : Children, shown : [Parallel!Attributes -> Nat]])
      /\ 0 \in 0 .. MaxIterations /\ Len(sql_contexts) = 0
  BY DEF Parallel!Init
<1>4. Parallel!TypeOK
  BY <1>2, <1>3 DEF Parallel!Init, Parallel!TypeOK, Parallel!Sub
<1>5. Child /\ Phases /\ OwnInput
  BY DEF Parallel!Init, Child, Phases, OwnInput, Parallel!Ended
<1>6. Shows /\ Parallel!RejectedStaysOut /\ Parallel!SelectedActionIsRun
  BY <1>3 DEF Parallel!Init, Shows, Parallel!RejectedStaysOut, Parallel!SelectedActionIsRun
<1> QED BY <1>4, <1>5, <1>6 DEF ParallelInv

-----------------------------------------------------------------------------
\* Before the selection every record is a sub-workflow's, and of a lone one its own.
LEMMA Before ==
  ASSUME Parallel!ParallelConstants, ParallelInv, phase = "parallel"
  PROVE  /\ selected = Nobody /\ final = 0
         /\ \A k \in 1 .. Len(sql_contexts) : /\ sql_contexts[k].by \in Children
                                              /\ Parallel!Sub(sql_contexts[k].by)
<1>1. selected = Nobody /\ final = 0
  BY DEF ParallelInv, Phases
<1>2. \A k \in 1 .. Len(sql_contexts) : sql_contexts[k].by \in Children
  BY RecordList DEF ParallelInv, Record
<1> QED BY <1>1, <1>2 DEF Parallel!ParallelConstants, ParallelInv, Parallel!RejectedStaysOut

\* A child's step leaves the list alone, or appends a record of a sub-workflow, or sets
\* an attribute: what is in the list stays as it should be.
LEMMA ListKeeps ==
  ASSUME Parallel!ParallelConstants, ParallelInv, NEW c \in Children, phase = "parallel",
         UNCHANGED <<layout, selected, final, phase>>,
         \/ UNCHANGED sql_contexts
         \/ Parallel!Sub(c) /\ sql_contexts' = Append(sql_contexts, Parallel!NewRecord(c))
         \/ /\ state[c] = "writing"
            /\ sql_contexts' = [sql_contexts EXCEPT ![last_record[c]].shown[written[c] + 1] = input[c]]
  PROVE  /\ sql_contexts' \in Seq(Record) /\ Len(sql_contexts') \in Nat
         /\ Len(sql_contexts) <= Len(sql_contexts')
         /\ Shows' /\ Parallel!RejectedStaysOut' /\ Parallel!SelectedActionIsRun'
<1>1. /\ sql_contexts \in Seq(Record) /\ Len(sql_contexts) \in Nat
      /\ \A k \in 1 .. Len(sql_contexts) : sql_contexts[k] \in Record
  BY RecordList DEF ParallelInv
<1>2. Parallel!SelectedActionIsRun'
  BY Before DEF Parallel!SelectedActionIsRun
<1>3. CASE UNCHANGED sql_contexts
  BY <1>1, <1>2, <1>3 DEF ParallelInv, Shows, Lone, Parallel!RejectedStaysOut, Parallel!Sub
<1>4. CASE Parallel!Sub(c) /\ sql_contexts' = Append(sql_contexts, Parallel!NewRecord(c))
  <2>1. /\ sql_contexts' \in Seq(Record) /\ Len(sql_contexts') = Len(sql_contexts) + 1
        /\ \A k \in 1 .. Len(sql_contexts) : sql_contexts'[k] = sql_contexts[k]
        /\ sql_contexts'[Len(sql_contexts) + 1].by = c
        /\ \A a \in Parallel!Attributes : sql_contexts'[Len(sql_contexts) + 1].shown[a] = 0
    BY <1>1, <1>4, AppendShape
  <2>2. \A k \in 1 .. Len(sql_contexts') : k \in 1 .. Len(sql_contexts) \/ k = Len(sql_contexts) + 1
    BY <1>1, <2>1
  <2>3. Shows'
    BY <1>1, <2>1, <2>2 DEF ParallelInv, Shows, Lone, Parallel!Sub
  <2>4. Parallel!RejectedStaysOut'
    BY <1>4, <2>1, <2>2 DEF ParallelInv, Parallel!RejectedStaysOut, Parallel!Sub
  <2> QED BY <1>1, <1>2, <2>1, <2>3, <2>4
<1>5. CASE /\ state[c] = "writing"
           /\ sql_contexts' = [sql_contexts EXCEPT ![last_record[c]].shown[written[c] + 1] = input[c]]
  <2> DEFINE k == last_record[c]
             at == written[c] + 1
             v == input[c]
  <2>1. /\ v \in 1 .. Len(sql_contexts) /\ k \in v .. Len(sql_contexts)
        /\ Lone(c) => v = Len(sql_contexts)
        /\ at \in Parallel!Attributes /\ Parallel!Sub(c)
    BY <1>5 DEF ParallelInv, OwnInput, Child, Parallel!Attributes
  <2>2. v \in Nat /\ v <= k /\ k \in 1 .. Len(sql_contexts)
    BY <1>1, <2>1
  <2>3. (\E d \in Children : Lone(d)) => v = k
    <3>1. (\E d \in Children : Lone(d)) => Lone(c)
      BY <2>1 DEF Lone
    <3> QED BY <1>1, <2>1, <3>1
  <2>4. sql_contexts' = [sql_contexts EXCEPT ![k].shown[at] = v]
    BY <1>5
  <2> HIDE DEF k, at, v
  <2>5. /\ sql_contexts' \in Seq(Record) /\ Len(sql_contexts') = Len(sql_contexts)
        /\ \A j \in 1 .. Len(sql_contexts) :
             /\ sql_contexts'[j].by = sql_contexts[j].by
             /\ \A b \in Parallel!Attributes :
                  sql_contexts'[j].shown[b] = IF j = k /\ b = at THEN v ELSE sql_contexts[j].shown[b]
    BY <1>1, <2>1, <2>2, <2>4, PutShape
  <2>6. Shows'
    BY <2>2, <2>3, <2>5 DEF ParallelInv, Shows, Lone, Parallel!Sub
  <2>7. Parallel!RejectedStaysOut'
    BY <2>5 DEF ParallelInv, Parallel!RejectedStaysOut, Parallel!Sub
  <2> QED BY <1>1, <1>2, <2>5, <2>6, <2>7
<1> QED BY <1>3, <1>4, <1>5

-----------------------------------------------------------------------------
\* What is left to show of a child's step once its list is seen to.
LEMMA ChildKeeps ==
  ASSUME Parallel!ParallelConstants, ParallelInv, NEW c \in Children, phase = "parallel",
         UNCHANGED <<layout, selected, final, phase>>,
         NEW s \in {"ready", "ran", "writing", "moved", "ok", "failed"}, state' = [state EXCEPT ![c] = s],
         \/ UNCHANGED sql_contexts
         \/ Parallel!Sub(c) /\ sql_contexts' = Append(sql_contexts, Parallel!NewRecord(c))
         \/ /\ state[c] = "writing"
            /\ sql_contexts' = [sql_contexts EXCEPT ![last_record[c]].shown[written[c] + 1] = input[c]],
         place' \in [Children -> Nat \ {0}], \A d \in Children : Parallel!Sub(d) => place'[d] <= Len(layout[d]),
         input' \in [Children -> Nat], last_record' \in [Children -> Nat], written' \in [Children -> 0 .. 3],
         found' \in [Children -> BOOLEAN], iterations' \in [Children -> 0 .. MaxIterations]
  PROVE  /\ Parallel!TypeOK' /\ Phases' /\ Shows' /\ Parallel!RejectedStaysOut' /\ Parallel!SelectedActionIsRun'
         /\ \A d \in Children : state'[d] = IF d = c THEN s ELSE state[d]
<1>1. /\ sql_contexts' \in Seq(Record) /\ Len(sql_contexts') \in Nat
      /\ Shows' /\ Parallel!RejectedStaysOut' /\ Parallel!SelectedActionIsRun'
  BY ListKeeps
<1>2. selected = Nobody /\ final = 0 /\ phase' = "parallel" /\ selected' = Nobody /\ final' = 0
  BY Before
<1>3. /\ state \in [Children -> {"idle", "ready", "ran", "writing", "moved", "ok", "failed"}]
      /\ layout \in Configurations
  BY DEF ParallelInv, Parallel!TypeOK
<1>4. /\ state' \in [Children -> {"idle", "ready", "ran", "writing", "moved", "ok", "failed"}]
      /\ \A d \in Children : state'[d] = IF d = c THEN s ELSE state[d]
  BY <1>3
<1>5. Phases'
  BY <1>2 DEF Phases
<1>6. Parallel!TypeOK'
  BY <1>1, <1>2, <1>3, <1>4 DEF Parallel!TypeOK, Parallel!Sub, Record
<1> QED BY <1>1, <1>4, <1>5, <1>6

\* The types of what a child keeps, one by one.
LEMMA ChildTypes ==
  ASSUME ParallelInv
  PROVE  /\ place \in [Children -> Nat \ {0}] /\ \A d \in Children : Parallel!Sub(d) => place[d] <= Len(layout[d])
         /\ input \in [Children -> Nat] /\ last_record \in [Children -> Nat]
         /\ written \in [Children -> 0 .. 3]
         /\ state \in [Children -> {"idle", "ready", "ran", "writing", "moved", "ok", "failed"}]
         /\ found \in [Children -> BOOLEAN] /\ iterations \in [Children -> 0 .. MaxIterations]
         /\ layout \in Configurations
BY DEF ParallelInv, Parallel!TypeOK

\* What the setup of a node leaves behind.
LEMMA SetUpInput ==
  ASSUME ParallelInv, NEW c \in Children, NEW k, Parallel!SetUp(c, k)
  PROVE  /\ input' \in [Children -> Nat]
         /\ \A d \in Children : d # c => input'[d] = input[d]
         /\ \E s \in {"ready", "failed"} :
              /\ state' = [state EXCEPT ![c] = s]
              /\ s = "ready" /\ layout[c][k] = "execute_sql" =>
                   input'[c] \in 1 .. Len(sql_contexts) /\ input'[c] = Len(sql_contexts)
<1>1. /\ Len(sql_contexts) \in Nat /\ input \in [Children -> Nat]
      /\ sql_contexts # <<>> => Len(sql_contexts) \in 1 .. Len(sql_contexts)
  BY RecordList, ChildTypes DEF ParallelInv
<1>2. CASE /\ layout[c][k] = "execute_sql" => sql_contexts # <<>>
           /\ input' = [input EXCEPT ![c] = IF layout[c][k] = "execute_sql" THEN Len(sql_contexts) ELSE 0]
           /\ state' = [state EXCEPT ![c] = "ready"]
  <2>1. input' \in [Children -> Nat] /\ \A d \in Children : d # c => input'[d] = input[d]
    BY <1>1, <1>2
  <2>2. layout[c][k] = "execute_sql" => input'[c] \in 1 .. Len(sql_contexts) /\ input'[c] = Len(sql_contexts)
    BY <1>1, <1>2
  <2> QED BY <1>2, <2>1, <2>2
<1>3. CASE state' = [state EXCEPT ![c] = "failed"] /\ UNCHANGED input
  BY <1>1, <1>3
<1> QED BY <1>2, <1>3 DEF Parallel!SetUp, Parallel!Goes

LEMMA ActionKeeps ==
  ASSUME Parallel!ParallelConstants, ParallelInv, NEW c \in Children, Parallel!RunAction(c)
  PROVE  ParallelInv'
<1>1. /\ state[c] = "idle" /\ phase = "parallel"
      /\ UNCHANGED <<layout, sql_contexts, place, input, last_record, written, iterations, selected, final, phase>>
      /\ found' = found \/ found' = [found EXCEPT ![c] = TRUE]
  BY DEF Parallel!RunAction, Parallel!Enters
<1>2. PICK s \in {"ok", "failed"} : state' = [state EXCEPT ![c] = s]
  BY DEF Parallel!RunAction, Parallel!Goes
<1>3. found' \in [Children -> BOOLEAN]
  BY <1>1, ChildTypes
<1>4. /\ Parallel!TypeOK' /\ Phases' /\ Shows' /\ Parallel!RejectedStaysOut' /\ Parallel!SelectedActionIsRun'
      /\ \A d \in Children : state'[d] = IF d = c THEN s ELSE state[d]
  BY <1>1, <1>2, <1>3, ChildTypes, ChildKeeps
<1>5. Child'
  BY <1>1, <1>4 DEF ParallelInv, Child, Parallel!Sub
<1>6. OwnInput'
  BY <1>1, <1>4 DEF ParallelInv, OwnInput, Lone, Parallel!Sub, Parallel!node
<1> QED BY <1>4, <1>5, <1>6 DEF ParallelInv

LEMMA StartKeeps ==
  ASSUME Parallel!ParallelConstants, ParallelInv, NEW c \in Children, Parallel!StartSub(c)
  PROVE  ParallelInv'
<1>1. /\ state[c] = "idle" /\ phase = "parallel" /\ Parallel!Sub(c)
      /\ UNCHANGED <<layout, sql_contexts, place, last_record, written, found, iterations, selected, final, phase>>
      /\ Parallel!SetUp(c, 1)
  BY DEF Parallel!StartSub, Parallel!Enters
<1>2. input' \in [Children -> Nat] /\ \A d \in Children : d # c => input'[d] = input[d]
  BY <1>1, SetUpInput
<1>3. PICK s \in {"ready", "failed"} :
         /\ state' = [state EXCEPT ![c] = s]
         /\ s = "ready" /\ layout[c][1] = "execute_sql" =>
              input'[c] \in 1 .. Len(sql_contexts) /\ input'[c] = Len(sql_contexts)
  BY <1>1, SetUpInput
<1>4. /\ Parallel!TypeOK' /\ Phases' /\ Shows' /\ Parallel!RejectedStaysOut' /\ Parallel!SelectedActionIsRun'
      /\ \A d \in Children : state'[d] = IF d = c THEN s ELSE state[d]
  BY <1>1, <1>2, <1>3, ChildTypes, ChildKeeps
<1>5. place[c] = 1 /\ iterations[c] = 0 /\ 0 < MaxIterations
  BY <1>1 DEF ParallelInv, Child, Parallel!ParallelConstants
<1>6. Child'
  BY <1>1, <1>4, <1>5 DEF ParallelInv, Child, Parallel!Sub
<1>7. OwnInput'
  BY <1>1, <1>2, <1>3, <1>4, <1>5 DEF ParallelInv, OwnInput, Lone, Parallel!Sub, Parallel!node
<1> QED BY <1>4, <1>6, <1>7 DEF ParallelInv

LEMMA RunNodeKeeps ==
  ASSUME Parallel!ParallelConstants, ParallelInv, NEW c \in Children, Parallel!RunNode(c)
  PROVE  ParallelInv'
<1>1. /\ state[c] = "ready" /\ phase = "parallel" /\ Parallel!Sub(c) /\ iterations[c] < MaxIterations
      /\ UNCHANGED <<layout, sql_contexts, place, input, last_record, written, found, selected, final, phase>>
      /\ iterations' = [iterations EXCEPT ![c] = iterations[c] + 1]
  BY DEF Parallel!RunNode, Parallel!Enters, ParallelInv, Child, Phases
<1>2. PICK s \in {"ran", "failed"} : state' = [state EXCEPT ![c] = s]
  BY DEF Parallel!RunNode, Parallel!Goes
<1>3. iterations' \in [Children -> 0 .. MaxIterations] /\ \A d \in Children : d # c => iterations'[d] = iterations[d]
  BY <1>1, ChildTypes DEF Parallel!ParallelConstants
<1>4. /\ Parallel!TypeOK' /\ Phases' /\ Shows' /\ Parallel!RejectedStaysOut' /\ Parallel!SelectedActionIsRun'
      /\ \A d \in Children : state'[d] = IF d = c THEN s ELSE state[d]
  BY <1>1, <1>2, <1>3, ChildTypes, ChildKeeps
<1>5. Child'
  BY <1>1, <1>3, <1>4 DEF ParallelInv, Child, Parallel!Sub
<1>6. OwnInput'
  BY <1>1, <1>4 DEF ParallelInv, OwnInput, Lone, Parallel!Sub, Parallel!node
<1> QED BY <1>4, <1>5, <1>6 DEF ParallelInv

LEMMA UpdateKeeps ==
  ASSUME Parallel!ParallelConstants, ParallelInv, NEW c \in Children, Parallel!UpdateContext(c)
  PROVE  ParallelInv'
<1>1. /\ state[c] = "ran" /\ phase = "parallel" /\ Parallel!Sub(c) /\ Parallel!node(c) # "execute_sql"
      /\ UNCHANGED <<layout, place, input, last_record, written, found, iterations, selected, final, phase>>
      /\ sql_contexts' = sql_contexts \/ sql_contexts' = Append(sql_contexts, Parallel!NewRecord(c))
  BY DEF Parallel!UpdateContext, Parallel!Enters, ParallelInv, Child, Phases
<1>2. state' = [state EXCEPT ![c] = "ran"] \/ state' = [state EXCEPT ![c] = "moved"]
  BY <1>1, ChildTypes DEF Parallel!UpdateContext, Parallel!Goes
<1>3. PICK s \in {"ran", "moved"} : state' = [state EXCEPT ![c] = s]
  BY <1>2
<1>4. /\ Parallel!TypeOK' /\ Phases' /\ Shows' /\ Parallel!RejectedStaysOut' /\ Parallel!SelectedActionIsRun'
      /\ \A d \in Children : state'[d] = IF d = c THEN s ELSE state[d]
  BY <1>1, <1>3, ChildTypes, ChildKeeps
<1>5. Child'
  BY <1>1, <1>4 DEF ParallelInv, Child, Parallel!Sub
<1>6. /\ Len(sql_contexts) \in Nat /\ Len(sql_contexts') \in Nat
      /\ Len(sql_contexts) <= Len(sql_contexts')
  BY <1>1, RecordList, ListKeeps DEF ParallelInv
<1>7. \A d \in Children : d # c => ~Lone(d)
  BY <1>1 DEF Lone
<1>8. OwnInput'
  <2> SUFFICES ASSUME NEW d \in Children
               PROVE  /\ state'[d] \in {"ready", "ran", "writing"} /\ Parallel!node(d)' = "execute_sql" =>
                           /\ input'[d] \in 1 .. Len(sql_contexts')
                           /\ Lone(d)' => input'[d] = Len(sql_contexts')
                      /\ state'[d] = "writing" => /\ Parallel!node(d)' = "execute_sql"
                                                  /\ last_record'[d] \in input'[d] .. Len(sql_contexts')
                                                  /\ written'[d] \in 0 .. 2
    BY DEF OwnInput
  <2>1. Parallel!node(d)' = Parallel!node(d) /\ (Lone(d)' <=> Lone(d))
    BY <1>1 DEF Parallel!node, Lone, Parallel!Sub
  <2>2. CASE d = c
    BY <1>1, <1>4, <2>1, <2>2
  <2>3. CASE d # c
    <3>1. /\ state[d] \in {"ready", "ran", "writing"} /\ Parallel!node(d) = "execute_sql" =>
               input[d] \in 1 .. Len(sql_contexts)
          /\ state[d] = "writing" => /\ Parallel!node(d) = "execute_sql"
                                     /\ last_record[d] \in input[d] .. Len(sql_contexts)
                                     /\ written[d] \in 0 .. 2
      BY DEF ParallelInv, OwnInput
    <3>2. input[d] \in Nat /\ last_record[d] \in Nat
      BY ChildTypes
    <3>3. UNCHANGED <<state[d], input[d], last_record[d], written[d]>> /\ ~Lone(d)
      BY <1>1, <1>4, <1>7, <2>3
    <3> QED BY <1>6, <2>1, <3>1, <3>2, <3>3
  <2> QED BY <2>2, <2>3
<1> QED BY <1>4, <1>5, <1>8 DEF ParallelInv

LEMMA ReadKeeps ==
  ASSUME Parallel!ParallelConstants, ParallelInv, NEW c \in Children, Parallel!ReadLast(c)
  PROVE  ParallelInv'
<1>1. /\ state[c] = "ran" /\ phase = "parallel" /\ Parallel!Sub(c) /\ Parallel!node(c) = "execute_sql"
      /\ UNCHANGED <<layout, sql_contexts, place, input, found, iterations, selected, final, phase>>
      /\ last_record' = [last_record EXCEPT ![c] = Len(sql_contexts)]
      /\ written' = [written EXCEPT ![c] = 0]
      /\ state' = [state EXCEPT ![c] = "writing"]
  BY DEF Parallel!ReadLast, Parallel!Enters, Parallel!Goes, ParallelInv, Child, Phases
<1>2. Len(sql_contexts) \in Nat
  BY RecordList DEF ParallelInv
<1>3. /\ last_record' \in [Children -> Nat] /\ written' \in [Children -> 0 .. 3]
      /\ last_record'[c] = Len(sql_contexts) /\ written'[c] = 0
      /\ \A d \in Children : d # c => last_record'[d] = last_record[d] /\ written'[d] = written[d]
  BY <1>1, <1>2, ChildTypes
<1>4. /\ Parallel!TypeOK' /\ Phases' /\ Shows' /\ Parallel!RejectedStaysOut' /\ Parallel!SelectedActionIsRun'
      /\ \A d \in Children : state'[d] = IF d = c THEN "writing" ELSE state[d]
  BY <1>1, <1>3, ChildTypes, ChildKeeps
<1>5. Child'
  BY <1>1, <1>4 DEF ParallelInv, Child, Parallel!Sub
<1>6. OwnInput'
  BY <1>1, <1>2, <1>3, <1>4 DEF ParallelInv, OwnInput, Lone, Parallel!Sub, Parallel!node
<1> QED BY <1>4, <1>5, <1>6 DEF ParallelInv

LEMMA WriteKeeps ==
  ASSUME Parallel!ParallelConstants, ParallelInv, NEW c \in Children, Parallel!WriteAttribute(c)
  PROVE  ParallelInv'
<1>1. /\ state[c] = "writing" /\ phase = "parallel" /\ Parallel!Sub(c)
      /\ UNCHANGED <<layout, place, input, last_record, found, iterations, selected, final, phase>>
      /\ sql_contexts' = [sql_contexts EXCEPT ![last_record[c]].shown[written[c] + 1] = input[c]]
      /\ written' = [written EXCEPT ![c] = written[c] + 1]
  BY DEF Parallel!WriteAttribute, Parallel!Enters, ParallelInv, Child, Phases
<1>2. /\ written[c] \in 0 .. 2 /\ input[c] \in 1 .. Len(sql_contexts)
      /\ last_record[c] \in input[c] .. Len(sql_contexts)
  BY <1>1 DEF ParallelInv, OwnInput
<1>3. /\ written' \in [Children -> 0 .. 3] /\ written'[c] = written[c] + 1
      /\ \A d \in Children : d # c => written'[d] = written[d]
  BY <1>1, <1>2, ChildTypes
<1>4. PICK s \in {"writing", "moved"} :
         /\ state' = [state EXCEPT ![c] = s]
         /\ s = "writing" => written'[c] # 3
  BY <1>1, ChildTypes DEF Parallel!WriteAttribute, Parallel!Goes
<1>5. /\ Parallel!TypeOK' /\ Phases' /\ Shows' /\ Parallel!RejectedStaysOut' /\ Parallel!SelectedActionIsRun'
      /\ \A d \in Children : state'[d] = IF d = c THEN s ELSE state[d]
  BY <1>1, <1>3, <1>4, ChildTypes, ChildKeeps
<1>6. Child'
  BY <1>1, <1>5 DEF ParallelInv, Child, Parallel!Sub
<1>7. Len(sql_contexts') = Len(sql_contexts)
  <2>1. /\ sql_contexts \in Seq(Record) /\ last_record[c] \in 1 .. Len(sql_contexts)
        /\ written[c] + 1 \in Parallel!Attributes /\ input[c] \in Nat
    BY <1>2, RecordList DEF ParallelInv, Parallel!Attributes
  <2> QED BY <1>1, <2>1, PutShape
<1>8. s = "writing" => written'[c] \in 0 .. 2
  BY <1>2, <1>3, <1>4
<1>9. OwnInput'
  BY <1>1, <1>3, <1>5, <1>7, <1>8 DEF ParallelInv, OwnInput, Lone, Parallel!Sub, Parallel!node
<1> QED BY <1>5, <1>6, <1>9 DEF ParallelInv

LEMMA MoveKeeps ==
  ASSUME Parallel!ParallelConstants, ParallelInv, NEW c \in Children, Parallel!MoveOn(c)
  PROVE  ParallelInv'
<1>1. /\ state[c] = "moved" /\ phase = "parallel" /\ Parallel!Sub(c)
      /\ UNCHANGED <<layout, sql_contexts, last_record, written, found, iterations, selected, final, phase>>
  BY DEF Parallel!MoveOn, Parallel!Enters, ParallelInv, Child, Phases
<1>2. CASE place[c] < Len(layout[c]) /\ iterations[c] < MaxIterations
           /\ place' = [place EXCEPT ![c] = place[c] + 1] /\ Parallel!SetUp(c, place[c] + 1)
  <2>1. input' \in [Children -> Nat] /\ \A d \in Children : d # c => input'[d] = input[d]
    BY <1>2, SetUpInput
  <2>2. PICK s \in {"ready", "failed"} :
           /\ state' = [state EXCEPT ![c] = s]
           /\ s = "ready" /\ layout[c][place[c] + 1] = "execute_sql" =>
                input'[c] \in 1 .. Len(sql_contexts) /\ input'[c] = Len(sql_contexts)
    BY <1>2, SetUpInput
  <2>3. layout \in [Children -> Seq(STRING)] /\ Len(layout[c]) \in Nat
    <3>1. layout \in [Children -> Seq(STRING)]
      BY ChildTypes DEF Parallel!ParallelConstants
    <3> QED BY <3>1, LenProperties
  <2>4. place[c] \in Nat \ {0} /\ place[c] + 1 \in Nat \ {0} /\ place[c] + 1 <= Len(layout[c])
    BY <1>2, <2>3, ChildTypes
  <2>5. place' \in [Children -> Nat \ {0}] /\ \A d \in Children : place'[d] = IF d = c THEN place[c] + 1 ELSE place[d]
    BY <1>2, <2>4, ChildTypes
  <2>6. \A d \in Children : Parallel!Sub(d) => place'[d] <= Len(layout[d])
    BY <2>4, <2>5, ChildTypes
  <2>7. /\ Parallel!TypeOK' /\ Phases' /\ Shows' /\ Parallel!RejectedStaysOut' /\ Parallel!SelectedActionIsRun'
        /\ \A d \in Children : state'[d] = IF d = c THEN s ELSE state[d]
    BY <1>1, <2>1, <2>2, <2>5, <2>6, ChildTypes, ChildKeeps
  <2>8. Child'
    BY <1>1, <1>2, <2>5, <2>7 DEF ParallelInv, Child, Parallel!Sub
  <2>9. OwnInput'
    BY <1>1, <2>1, <2>2, <2>5, <2>7 DEF ParallelInv, OwnInput, Lone, Parallel!Sub, Parallel!node
  <2> QED BY <2>7, <2>8, <2>9 DEF ParallelInv
<1>3. ASSUME UNCHANGED <<place, input>>, NEW s \in {"ok", "failed"}, state' = [state EXCEPT ![c] = s]
      PROVE  ParallelInv'
  <2>1. /\ Parallel!TypeOK' /\ Phases' /\ Shows' /\ Parallel!RejectedStaysOut' /\ Parallel!SelectedActionIsRun'
        /\ \A d \in Children : state'[d] = IF d = c THEN s ELSE state[d]
    BY <1>1, <1>3, ChildTypes, ChildKeeps
  <2>2. Child'
    BY <1>1, <1>3, <2>1 DEF ParallelInv, Child, Parallel!Sub
  <2>3. OwnInput'
    BY <1>1, <1>3, <2>1 DEF ParallelInv, OwnInput, Lone, Parallel!Sub, Parallel!node
  <2> QED BY <2>1, <2>2, <2>3 DEF ParallelInv
<1> QED BY <1>2, <1>3 DEF Parallel!MoveOn, Parallel!Goes

-----------------------------------------------------------------------------
\* A step of the node that leaves the children and the list alone.
LEMMA NodeStepKeeps ==
  ASSUME Parallel!ParallelConstants, ParallelInv, UNCHANGED <<layout, sql_contexts, Parallel!children, selected, final>>,
         phase' \in {"parallel", "select", "execute", "done", "failed"}
  PROVE  /\ Parallel!TypeOK' /\ Child' /\ OwnInput' /\ Shows' /\ Parallel!RejectedStaysOut'
         /\ Parallel!SelectedActionIsRun'
<1>1. UNCHANGED <<layout, sql_contexts, place, input, last_record, written, state, found, iterations, selected, final>>
  BY DEF Parallel!children
<1>2. Parallel!TypeOK'
  BY <1>1 DEF ParallelInv, Parallel!TypeOK, Parallel!Sub
<1>3. Child' /\ OwnInput'
  BY <1>1 DEF ParallelInv, Child, OwnInput, Lone, Parallel!Sub, Parallel!node
<1>4. Shows' /\ Parallel!RejectedStaysOut' /\ Parallel!SelectedActionIsRun'
  BY <1>1 DEF ParallelInv, Shows, Lone, Parallel!RejectedStaysOut, Parallel!SelectedActionIsRun, Parallel!Sub
<1> QED BY <1>2, <1>3, <1>4

LEMMA JoinKeeps ==
  ASSUME Parallel!ParallelConstants, ParallelInv, Parallel!Join \/ Parallel!GiveUp \/ Parallel!SelectionFails
  PROVE  ParallelInv'
<1>1. /\ UNCHANGED <<layout, sql_contexts, Parallel!children, selected, final>>
      /\ phase' \in {"select", "failed"} /\ phase \in {"parallel", "select"}
      /\ phase' = "select" => \A c \in Children : Parallel!Ended(c)
      /\ \A c \in Children : state[c] = "idle" \/ Parallel!Ended(c)
  BY DEF Parallel!Join, Parallel!GiveUp, Parallel!SelectionFails, ParallelInv, Phases
<1>2. UNCHANGED <<state, selected, final>> /\ selected = Nobody /\ final = 0
  BY <1>1 DEF Parallel!children, ParallelInv, Phases
<1>3. Phases'
  BY <1>1, <1>2 DEF Phases, Parallel!Ended
<1> QED BY <1>1, <1>3, NodeStepKeeps DEF ParallelInv

LEMMA SelectKeeps ==
  ASSUME Parallel!ParallelConstants, ParallelInv, Parallel!Select
  PROVE  ParallelInv'
<1>1. /\ phase = "select" /\ selected' \in Children /\ phase' \in {"failed", "execute"}
      /\ phase' = "execute" => sql_contexts' # <<>>
      /\ UNCHANGED <<layout, place, input, last_record, written, state, found, iterations, final>>
  BY DEF Parallel!Select, Parallel!children
<1>2. /\ sql_contexts \in Seq(Record) /\ Len(sql_contexts) \in Nat
      /\ \A k \in 1 .. Len(sql_contexts) : sql_contexts[k] \in Record
  BY RecordList DEF ParallelInv
<1>3. selected = Nobody /\ final = 0 /\ \A c \in Children : Parallel!Ended(c)
  BY <1>1 DEF ParallelInv, Phases
<1>4. \A k \in 1 .. Len(sql_contexts) : sql_contexts[k].by \in Children /\ Parallel!Sub(sql_contexts[k].by)
  BY <1>2, <1>3 DEF Parallel!ParallelConstants, ParallelInv, Parallel!RejectedStaysOut, Record
<1>5. Child' /\ OwnInput' /\ Parallel!SelectedActionIsRun'
  BY <1>1, <1>3 DEF ParallelInv, Child, OwnInput, Parallel!Sub, Parallel!SelectedActionIsRun, Parallel!Ended
<1>6. CASE found[selected'] /\ sql_contexts' = Append(sql_contexts, Parallel!NewRecord(selected'))
  <2>1. /\ sql_contexts' \in Seq(Record) /\ Len(sql_contexts') = Len(sql_contexts) + 1
        /\ \A k \in 1 .. Len(sql_contexts) : sql_contexts'[k] = sql_contexts[k]
        /\ sql_contexts'[Len(sql_contexts) + 1].by = selected'
        /\ \A a \in Parallel!Attributes : sql_contexts'[Len(sql_contexts) + 1].shown[a] = 0
    BY <1>1, <1>2, <1>6, AppendShape
  <2>2. \A k \in 1 .. Len(sql_contexts') : k \in 1 .. Len(sql_contexts) \/ k = Len(sql_contexts) + 1
    BY <1>2, <2>1
  <2>3. Parallel!TypeOK'
    BY <1>1, <1>2, <1>3, <2>1 DEF ParallelInv, Parallel!TypeOK, Parallel!Sub, Record
  <2>4. Phases'
    BY <1>1, <1>3, <2>1 DEF Phases, Parallel!Ended
  <2>5. Parallel!RejectedStaysOut'
    BY <1>1, <1>4, <2>1, <2>2 DEF Parallel!RejectedStaysOut, Parallel!Sub
  <2>6. Shows'
    BY <1>1, <1>2, <2>1, <2>2 DEF ParallelInv, Shows, Lone, Parallel!Sub
  <2> QED BY <1>5, <2>3, <2>4, <2>5, <2>6 DEF ParallelInv
<1>7. CASE ~found[selected'] /\ sql_contexts' = sql_contexts
  <2>1. Parallel!TypeOK'
    BY <1>1, <1>7 DEF ParallelInv, Parallel!TypeOK, Parallel!Sub
  <2>2. Phases'
    BY <1>1, <1>3, <1>7 DEF Phases, Parallel!Ended
  <2>3. Parallel!RejectedStaysOut'
    BY <1>1, <1>4, <1>7 DEF Parallel!RejectedStaysOut, Parallel!Sub
  <2>4. Shows'
    BY <1>1, <1>7 DEF ParallelInv, Shows, Lone, Parallel!Sub
  <2> QED BY <1>5, <2>1, <2>2, <2>3, <2>4 DEF ParallelInv
<1> QED BY <1>6, <1>7 DEF Parallel!Select

LEMMA ExecuteKeeps ==
  ASSUME Parallel!ParallelConstants, ParallelInv, Parallel!Execute
  PROVE  ParallelInv'
<1> DEFINE n == Len(sql_contexts)
<1>1. /\ phase = "execute" /\ phase' \in {"done", "failed"} /\ final' = n
      /\ \/ sql_contexts' = [sql_contexts EXCEPT ![n].shown = [a \in Parallel!Attributes |-> n]]
         \/ sql_contexts' = sql_contexts
      /\ UNCHANGED <<layout, place, input, last_record, written, state, found, iterations, selected>>
  BY DEF Parallel!Execute, Parallel!children
<1>2. /\ selected \in Children /\ sql_contexts # <<>> /\ \A c \in Children : Parallel!Ended(c)
      /\ found[selected] => sql_contexts[n].by = selected
  BY <1>1 DEF ParallelInv, Phases
<1>3. /\ sql_contexts \in Seq(Record) /\ n \in Nat /\ n \in 1 .. n
      /\ \A k \in 1 .. n : sql_contexts[k] \in Record
  BY <1>2, RecordList DEF ParallelInv
<1>4. /\ sql_contexts' \in Seq(Record) /\ Len(sql_contexts') = n
      /\ \A k \in 1 .. n :
           /\ sql_contexts'[k].by = sql_contexts[k].by
           /\ \A b \in Parallel!Attributes : \/ sql_contexts'[k].shown[b] = sql_contexts[k].shown[b]
                                             \/ k = n /\ sql_contexts'[k].shown[b] = n
  <2>1. CASE sql_contexts' = sql_contexts
    BY <1>3, <2>1
  <2>2. CASE sql_contexts' = [sql_contexts EXCEPT ![n].shown = [a \in Parallel!Attributes |-> n]]
    <3>1. sql_contexts' = Marked(sql_contexts, n)
      BY <2>2 DEF Marked
    <3>2. /\ sql_contexts' \in Seq(Record) /\ Len(sql_contexts') = Len(sql_contexts)
          /\ \A j \in 1 .. Len(sql_contexts) :
               /\ sql_contexts'[j].by = sql_contexts[j].by
               /\ \A b \in Parallel!Attributes :
                    sql_contexts'[j].shown[b] = IF j = Len(sql_contexts) THEN n ELSE sql_contexts[j].shown[b]
      BY <1>2, <1>3, <3>1, MarkLast
    <3> QED BY <3>2
  <2> QED BY <1>1, <2>1, <2>2
<1> HIDE DEF n
<1>5. Parallel!TypeOK'
  <2>1. final' \in 0 .. Len(sql_contexts')
    BY <1>1, <1>3, <1>4
  <2>2. sql_contexts' \in Seq([by : Children, shown : [Parallel!Attributes -> Nat]])
    BY <1>4 DEF Record
  <2> QED BY <1>1, <2>1, <2>2 DEF ParallelInv, Parallel!TypeOK, Parallel!Sub
<1>6. Child' /\ OwnInput'
  BY <1>1, <1>2 DEF ParallelInv, Child, OwnInput, Parallel!Sub, Parallel!Ended
<1>7. Phases'
  BY <1>1, <1>2 DEF Phases, Parallel!Ended
<1>8. Parallel!RejectedStaysOut'
  BY <1>1, <1>4 DEF ParallelInv, Parallel!RejectedStaysOut, Parallel!Sub, n
<1>9. Shows'
  BY <1>1, <1>3, <1>4 DEF ParallelInv, Shows, Lone, Parallel!Sub, n
<1>10. Parallel!SelectedActionIsRun'
  BY <1>1, <1>2, <1>3, <1>4 DEF Parallel!SelectedActionIsRun
<1> QED BY <1>5, <1>6, <1>7, <1>8, <1>9, <1>10 DEF ParallelInv

LEMMA ParallelNext ==
  ASSUME Parallel!ParallelConstants
  PROVE  ParallelInv /\ [Parallel!Next]_(Parallel!vars) => ParallelInv'
<1> SUFFICES ASSUME ParallelInv, [Parallel!Next]_(Parallel!vars) PROVE ParallelInv'
  OBVIOUS
<1>1. ASSUME NEW c \in Children, Parallel!ChildStep(c) PROVE ParallelInv'
  BY <1>1, ActionKeeps, StartKeeps, RunNodeKeeps, UpdateKeeps, ReadKeeps, WriteKeeps, MoveKeeps
     DEF Parallel!ChildStep
<1>2. CASE UNCHANGED Parallel!vars
  <2>1. UNCHANGED <<layout, sql_contexts, Parallel!children, selected, final, phase>>
    BY <1>2 DEF Parallel!vars, Parallel!children
  <2>2. phase' \in {"parallel", "select", "execute", "done", "failed"}
    BY <2>1 DEF ParallelInv, Parallel!TypeOK
  <2>3. Phases'
    BY <2>1 DEF ParallelInv, Phases, Parallel!Ended, Parallel!children
  <2> QED BY <2>1, <2>2, <2>3, NodeStepKeeps DEF ParallelInv
<1> QED BY <1>1, <1>2, JoinKeeps, SelectKeeps, ExecuteKeeps DEF Parallel!Next, Parallel!Over

LEMMA ParallelCorrect ==
  ASSUME Parallel!ParallelConstants
  PROVE  Parallel!Spec => []ParallelInv
BY ParallelInit, ParallelNext, PTL DEF Parallel!Spec

\* The invariant implies what the run checks: a lone sub-workflow's records are its own.
LEMMA LoneIsConsistent ==
  ASSUME Parallel!ParallelConstants, ParallelInv
  PROVE  Parallel!LoneSubIsConsistent
<1> SUFFICES ASSUME NEW c \in Children, Lone(c)
             PROVE  /\ state[c] \in {"ready", "ran", "writing"} /\ Parallel!node(c) = "execute_sql" =>
                         sql_contexts[input[c]].by = c
                    /\ \A k \in 1 .. Len(sql_contexts) : \A a \in Parallel!Attributes :
                         sql_contexts[k].shown[a] \in {0, k}
  BY DEF Parallel!LoneSubIsConsistent, Lone
<1>1. ASSUME state[c] \in {"ready", "ran", "writing"}, Parallel!node(c) = "execute_sql"
      PROVE  sql_contexts[input[c]].by = c
  <2>1. phase = "parallel" /\ input[c] \in 1 .. Len(sql_contexts)
    BY <1>1 DEF ParallelInv, Phases, OwnInput
  <2>2. sql_contexts[input[c]].by \in Children /\ Parallel!Sub(sql_contexts[input[c]].by)
    BY <2>1, Before
  <2> QED BY <2>2 DEF Lone
<1>2. \A k \in 1 .. Len(sql_contexts) : \A a \in Parallel!Attributes : sql_contexts[k].shown[a] \in {0, k}
  BY DEF ParallelInv, Shows
<1> QED BY <1>1, <1>2

-----------------------------------------------------------------------------
\* Whatever the threads append and write in between: a sub-workflow with only actions
\* beside it runs its own SQL and its records show no other's result, no record shows
\* the result of SQL that came after it, and the SQL of an action is among the records
\* only when it was selected and is then what the parent executes (Context.copy,
\* ExecuteSQLNode.update_context, SelectionNode).
THEOREM SharingCorrect == ParallelSpec => []RecordsSound
<1>1. Parallel!ParallelConstants /\ ParallelInv => RecordsSound
  <2>1. ParallelInv => Parallel!ShownIsNotNewer
    BY DEF ParallelInv, Shows, Parallel!ShownIsNotNewer
  <2> QED BY <2>1, LoneIsConsistent DEF ParallelInv, RecordsSound, Parallel!RecordsSound
<1> QED BY <1>1, ParallelAssumption, ParallelCorrect, PTL DEF ParallelSpec

\* Records are only added, and once the parallel node has ended no thread of it writes
\* to one any more (ParallelNode.execute waits for all of them, also when it fails).
THEOREM RecordsCorrect == ParallelSpec => RecordsOnlyGrow
<1> DEFINE Grow == \A k \in 1 .. Len(sql_contexts) :
                     /\ k <= Len(sql_contexts') /\ sql_contexts'[k].by = sql_contexts[k].by
                     /\ phase # "parallel" /\ k < Len(sql_contexts) => sql_contexts'[k] = sql_contexts[k]
<1>1. Parallel!ParallelConstants /\ ParallelInv /\ [Parallel!Next]_(Parallel!vars) => [Grow]_(Parallel!vars)
  <2> SUFFICES ASSUME Parallel!ParallelConstants, ParallelInv, Parallel!Next PROVE Grow
    OBVIOUS
  <2>1. /\ sql_contexts \in Seq(Record) /\ Len(sql_contexts) \in Nat
        /\ \A k \in 1 .. Len(sql_contexts) : k <= Len(sql_contexts)
    BY RecordList DEF ParallelInv
  <2>2. CASE UNCHANGED sql_contexts
    BY <2>1, <2>2
  <2>3. ASSUME NEW c \in Children, sql_contexts' = Append(sql_contexts, Parallel!NewRecord(c)) PROVE Grow
    <3>1. /\ Len(sql_contexts') = Len(sql_contexts) + 1
          /\ \A k \in 1 .. Len(sql_contexts) : sql_contexts'[k] = sql_contexts[k]
      BY <2>1, <2>3, AppendShape
    <3> QED BY <2>1, <3>1
  <2>4. ASSUME NEW c \in Children, Parallel!ChildStep(c) PROVE Grow
    <3>1. CASE Parallel!WriteAttribute(c)
      <4>1. /\ phase = "parallel"
            /\ sql_contexts' = [sql_contexts EXCEPT ![last_record[c]].shown[written[c] + 1] = input[c]]
        BY <3>1 DEF Parallel!WriteAttribute, Parallel!Enters, ParallelInv, Phases
      <4>2. /\ written[c] \in 0 .. 2 /\ input[c] \in 1 .. Len(sql_contexts)
            /\ last_record[c] \in input[c] .. Len(sql_contexts)
        BY <3>1 DEF Parallel!WriteAttribute, Parallel!Enters, ParallelInv, OwnInput
      <4>3. /\ last_record[c] \in 1 .. Len(sql_contexts) /\ input[c] \in Nat
            /\ written[c] + 1 \in Parallel!Attributes
        BY <2>1, <4>2 DEF Parallel!Attributes
      <4>4. /\ Len(sql_contexts') = Len(sql_contexts)
            /\ \A k \in 1 .. Len(sql_contexts) : sql_contexts'[k].by = sql_contexts[k].by
        BY <2>1, <4>1, <4>3, PutShape
      <4> QED BY <2>1, <4>1, <4>4
    <3>2. CASE ~ Parallel!WriteAttribute(c)
      BY <2>2, <2>3, <2>4, <3>2
         DEF Parallel!ChildStep, Parallel!RunAction, Parallel!StartSub, Parallel!RunNode,
             Parallel!UpdateContext, Parallel!ReadLast, Parallel!MoveOn
    <3> QED BY <3>1, <3>2
  <2>5. CASE Parallel!Join \/ Parallel!GiveUp \/ Parallel!SelectionFails
    BY <2>2, <2>5 DEF Parallel!Join, Parallel!GiveUp, Parallel!SelectionFails
  <2>6. CASE Parallel!Select
    BY <2>2, <2>3, <2>6 DEF Parallel!Select
  <2>7. CASE Parallel!Execute
    <3>1. sql_contexts # <<>> /\ final' = Len(sql_contexts)
      BY <2>7 DEF Parallel!Execute, ParallelInv, Phases
    <3>2. CASE sql_contexts' = [sql_contexts EXCEPT
                                  ![Len(sql_contexts)].shown = [a \in Parallel!Attributes |-> Len(sql_contexts)]]
      <4>1. sql_contexts' = Marked(sql_contexts, Len(sql_contexts))
        BY <3>2 DEF Marked
      <4>2. /\ Len(sql_contexts') = Len(sql_contexts)
            /\ \A k \in 1 .. Len(sql_contexts) : /\ sql_contexts'[k].by = sql_contexts[k].by
                                                 /\ k < Len(sql_contexts) => sql_contexts'[k] = sql_contexts[k]
        BY <2>1, <3>1, <4>1, MarkLast
      <4> QED BY <2>1, <4>2
    <3> QED BY <2>2, <2>7, <3>1, <3>2 DEF Parallel!Execute
  <2>8. CASE Parallel!Over
    BY <2>2, <2>8 DEF Parallel!Over, Parallel!vars
  <2> QED BY <2>4, <2>5, <2>6, <2>7, <2>8 DEF Parallel!Next
<1> QED
  BY <1>1, ParallelAssumption, ParallelCorrect, PTL
     DEF ParallelSpec, Parallel!Spec, RecordsOnlyGrow, Parallel!RecordsOnlyGrow
=============================================================================
