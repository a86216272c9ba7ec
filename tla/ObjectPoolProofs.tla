--------------------------- MODULE ObjectPoolProofs ---------------------------
(***************************************************************************)
(* The pool's lock-free stack is sound and hands out each object once, for *)
(* any set of threads, any maximum and any number of nodes and objects.    *)
(* The argument is the absence of ABA: a node enters the stack at most     *)
(* once, so a link read from it stays what it was.                         *)
(***************************************************************************)
EXTENDS ObjectPool, SequenceTheorems, FiniteSetTheorems, TLAPS

Popping(t) == pc[t] \in {"pop_next", "pop_cas"}
Pushing(t) == pc[t] \in {"push_load", "push_cas"}

(* The memory and the threads, without the types of the counter and of     *)
(* the history flag, which the stack does not depend on.                   *)
PoolType ==
  /\ head \in Node \cup {Null}
  /\ next \in [Node -> Node \cup {Null}]
  /\ objOf \in [Node -> Obj \cup {0}]
  /\ nodes \in 0..MaxNodes /\ objs \in 0..MaxObjs
  /\ pc \in [Threads -> {"idle", "pop_next", "pop_cas", "pop_count",
                         "push_load", "push_cas", "push_count"}]
  /\ node \in [Threads -> Node \cup {Null}]
  /\ link \in [Threads -> Node \cup {Null}]
  /\ given \in [Threads -> Obj \cup {0}]
  /\ held \subseteq Obj
  /\ stack \in Seq(Node)

CounterType == freeCount \in 0..(Modulus - 1) /\ wasted \in BOOLEAN

(* A node is used for one push: the stack repeats none, and a node whose   *)
(* push is under way is neither in the stack nor in any other thread's     *)
(* hands.                                                                  *)
NodesOnce ==
  /\ spare = {}
  /\ \A i \in DOMAIN stack : stack[i] \in 1..nodes
  /\ \A i, j \in DOMAIN stack : stack[i] = stack[j] => i = j
  /\ \A t \in Threads : Popping(t) \/ Pushing(t) => node[t] \in 1..nodes
  /\ \A t \in Threads : Pushing(t) =>
       \A i \in DOMAIN stack : stack[i] # node[t]
  /\ \A t, u \in Threads :
       Pushing(t) /\ (Popping(u) \/ Pushing(u)) /\ t # u => node[t] # node[u]

(* The next a pop has read is still the node's next.                       *)
LinksFresh ==
  \A t \in Threads : pc[t] = "pop_cas" => link[t] = next[node[t]]

(* An object being given back is still accounted to its caller, and no     *)
(* two threads give back the same one.                                     *)
ObjectsOnce ==
  /\ held \subseteq 1..objs
  /\ \A i \in DOMAIN stack : objOf[stack[i]] \in 1..objs
  /\ \A t \in Threads : Pushing(t) =>
       given[t] \in held /\ objOf[node[t]] = given[t]
  /\ \A t, u \in Threads :
       Pushing(t) /\ Pushing(u) /\ t # u => given[t] # given[u]

IInv == /\ TypeOK /\ NodesOnce /\ LinksFresh /\ StackSound
        /\ ObjectsOnce /\ NoObjectTwice

-----------------------------------------------------------------------------
(* What the two operations of the stack do to a sequence.                  *)

(* A pop leaves the elements of the stack but the first, moved up by one.  *)
LEMMA TailElements ==
  ASSUME NEW S, NEW s \in Seq(S), s # <<>>
  PROVE  /\ Tail(s) \in Seq(S)
         /\ Len(s) \in Nat \ {0} /\ Len(Tail(s)) = Len(s) - 1
         /\ DOMAIN s = 1..Len(s) /\ DOMAIN Tail(s) = 1..(Len(s) - 1)
         /\ \A i \in DOMAIN Tail(s) : i + 1 \in DOMAIN s /\ Tail(s)[i] = s[i + 1]
OBVIOUS

(* A push leaves the new node first and the others moved down by one.      *)
LEMMA ConsElements ==
  ASSUME NEW S, NEW s \in Seq(S), NEW e \in S
  PROVE  LET c == <<e>> \o s IN
         /\ c \in Seq(S) /\ c # <<>>
         /\ Len(s) \in Nat /\ Len(c) = Len(s) + 1
         /\ DOMAIN s = 1..Len(s) /\ DOMAIN c = 1..(Len(s) + 1)
         /\ c[1] = e /\ Tail(c) = s
         /\ \A i \in 2..(Len(s) + 1) : c[i] = s[i - 1]
OBVIOUS
-----------------------------------------------------------------------------
(* What the three steps that change the stack's memory do, once the        *)
(* invariant has decided their conditions.                                 *)

(* A pop whose CAS succeeds takes the first node and leaves the second as  *)
(* the head (ObjectPool.hpp:195-206).                                      *)
LEMMA PopTakesFirst ==
  ASSUME PoolType, NodesOnce, LinksFresh, StackSound,
         NEW t \in Threads, PopTakes(t)
  PROVE  /\ stack # <<>> /\ 1 \in DOMAIN stack /\ node[t] = stack[1]
         /\ stack' = Tail(stack)
         /\ head' = next[stack[1]]
         /\ pc' = [pc EXCEPT ![t] = "pop_count"]
         /\ held' = held \cup {objOf[stack[1]]}
         /\ UNCHANGED <<next, objOf, spare, nodes, objs, node, link, given>>
<1>1. pc[t] = "pop_cas" /\ head = node[t] /\ link[t] = next[node[t]]
  BY DEF PopTakes, At, LinksFresh
<1>2. head # Null
  BY <1>1 DEF NodesOnce, Popping, PoolType, Null
<1>3. stack # <<>> /\ head = stack[1]
  BY <1>2 DEF StackSound
<1>4. 1 \in DOMAIN stack
  BY <1>3, TailElements DEF PoolType
<1> QED BY <1>1, <1>3, <1>4 DEF PopTakes, At

(* A release uses a node that was never allocated before.                  *)
LEMMA ReleaseNodeIsNew ==
  ASSUME PoolType, NodesOnce, NEW t \in Threads, ReleaseNode(t)
  PROVE  \E o \in Returnable :
           /\ nodes + 1 \in Node /\ nodes' = nodes + 1
           /\ objOf' = [objOf EXCEPT ![nodes + 1] = o]
           /\ given' = [given EXCEPT ![t] = o]
           /\ next' = [next EXCEPT ![nodes + 1] = Null]
           /\ node' = [node EXCEPT ![t] = nodes + 1]
           /\ pc[t] = "idle" /\ pc' = [pc EXCEPT ![t] = "push_load"]
           /\ UNCHANGED <<head, spare, objs, link, held, stack>>
<1>1. spare = {} /\ spare \ {nodes + 1} = {}
  BY DEF NodesOnce
<1>2. nodes + 1 \in Node
  BY <1>1, PoolAssumption DEF ReleaseNode, PoolType, Node
<1>3. UNCHANGED <<head, objs, link, held, stack>>
  BY DEF ReleaseNode, ghost
<1> QED BY <1>1, <1>2, <1>3 DEF ReleaseNode, At

(* A push whose CAS succeeds puts its node before the stack, and the node  *)
(* was neither in it nor null (ObjectPool.hpp:188-193).                    *)
LEMMA PushPutsFirst ==
  ASSUME PoolType, NodesOnce, NEW t \in Threads, PushPuts(t)
  PROVE  /\ pc[t] = "push_cas" /\ pc' = [pc EXCEPT ![t] = "push_count"]
         /\ node[t] \in 1..nodes /\ node[t] \in Node
         /\ \A i \in DOMAIN stack : stack[i] # node[t]
         /\ stack' = <<node[t]>> \o stack
         /\ head' = node[t]
         /\ next' = [next EXCEPT ![node[t]] = head]
         /\ held' = held \ {given[t]}
         /\ given' = [given EXCEPT ![t] = 0]
         /\ UNCHANGED <<objOf, spare, nodes, objs, node, link>>
<1>1. pc[t] = "push_cas"
  BY DEF PushPuts, At
<1>2. node[t] \in 1..nodes /\ \A i \in DOMAIN stack : stack[i] # node[t]
  BY <1>1 DEF NodesOnce, Pushing
<1>3. node[t] \in Node
  BY <1>2 DEF PoolType, Node, Null
<1> QED BY <1>1, <1>2, <1>3 DEF PushPuts, At

(* The head is null or the first node of the stack.                        *)
LEMMA HeadInStack ==
  ASSUME PoolType, NodesOnce, StackSound, head # Null
  PROVE  1 \in DOMAIN stack /\ head = stack[1] /\ head \in 1..nodes
<1>1. stack # <<>> /\ head = stack[1]
  BY DEF StackSound
<1>2. 1 \in DOMAIN stack
  BY <1>1, TailElements DEF PoolType
<1> QED BY <1>1, <1>2 DEF NodesOnce

(* After a push the stack is the node pushed and what it was before.       *)
LEMMA PushedElements ==
  ASSUME PoolType, NodesOnce, NEW t \in Threads, PushPuts(t)
  PROVE  /\ 1 \in DOMAIN stack' /\ stack'[1] = node[t]
         /\ \A i \in DOMAIN stack' : i # 1 =>
              i \in Nat /\ i - 1 \in DOMAIN stack /\ stack'[i] = stack[i - 1]
         /\ \A i \in DOMAIN stack' : stack'[i] = node[t] \/
              \E j \in DOMAIN stack : stack'[i] = stack[j]
<1> DEFINE pushed == <<node[t]>> \o stack
<1>1. /\ DOMAIN pushed = 1..(Len(stack) + 1) /\ Len(stack) \in Nat
      /\ DOMAIN stack = 1..Len(stack)
      /\ pushed[1] = node[t]
      /\ \A i \in 2..(Len(stack) + 1) : pushed[i] = stack[i - 1]
  BY PushPutsFirst, ConsElements DEF PoolType
<1>2. stack' = pushed
  BY PushPutsFirst
<1> HIDE DEF pushed
<1>3. \A i \in DOMAIN pushed : i # 1 =>
        i \in Nat /\ i - 1 \in DOMAIN stack /\ pushed[i] = stack[i - 1]
  BY <1>1
<1> QED BY <1>1, <1>2, <1>3

(* The parts of the type invariant.                                        *)
LEMMA TypeParts ==
  TypeOK /\ spare = {} <=> PoolType /\ CounterType /\ spare = {}
BY DEF TypeOK, PoolType, CounterType

-----------------------------------------------------------------------------
(* Every step keeps the types of the memory and of the threads.            *)
LEMMA PoolTypeStep ==
  ASSUME PoolType, NodesOnce, LinksFresh, StackSound, ObjectsOnce, [Next]_vars
  PROVE  PoolType'
<1> USE PoolAssumption DEF Node, Obj, Null
<1>1. CASE UNCHANGED vars
  BY <1>1 DEF vars, memory, local, ghost, PoolType
<1>2. ASSUME NEW t \in Threads, PopLoad(t) PROVE PoolType'
  BY <1>2 DEF PopLoad, At, memory, ghost, PoolType
<1>3. ASSUME NEW t \in Threads, PopNext(t) PROVE PoolType'
  <2>1. node[t] \in Node
    BY <1>3 DEF PopNext, At, NodesOnce, Popping, PoolType
  <2> QED BY <1>3, <2>1 DEF PopNext, At, memory, ghost, PoolType
<1>4. ASSUME NEW t \in Threads, PopTakes(t) PROVE PoolType'
  <2>1. Tail(stack) \in Seq(Node)
    BY <1>4, PopTakesFirst, TailElements DEF PoolType
  <2>2. stack[1] \in Node /\ objOf[stack[1]] \in Obj
    BY <1>4, PopTakesFirst DEF PoolType, ObjectsOnce, NodesOnce
  <2>3. /\ stack' = Tail(stack) /\ head' = next[stack[1]]
        /\ pc' = [pc EXCEPT ![t] = "pop_count"]
        /\ held' = held \cup {objOf[stack[1]]}
        /\ UNCHANGED <<next, objOf, nodes, objs, node, link, given>>
    BY <1>4, PopTakesFirst
  <2> QED BY <2>1, <2>2, <2>3 DEF PoolType
<1>5. ASSUME NEW t \in Threads, PopRetries(t) PROVE PoolType'
  BY <1>5 DEF PopRetries, At, memory, ghost, PoolType
<1>6. ASSUME NEW t \in Threads, PopMisses(t) PROVE PoolType'
  <2>1. objs + 1 \in 0..MaxObjs /\ objs + 1 \in Obj
    BY <1>6 DEF PopMisses, PoolType
  <2>2. UNCHANGED <<head, next, objOf, nodes, stack>>
    BY <1>6 DEF PopMisses
  <2>3. /\ objs' = objs + 1 /\ held' = held \cup {objs + 1}
        /\ pc' = [pc EXCEPT ![t] = "idle"]
        /\ node' = [node EXCEPT ![t] = Null]
        /\ link' = [link EXCEPT ![t] = Null]
        /\ given' = [given EXCEPT ![t] = 0]
    BY <1>6 DEF PopMisses, Leave, At
  <2> QED BY <2>1, <2>2, <2>3 DEF PoolType
<1>7. ASSUME NEW t \in Threads, PopCounts(t) PROVE PoolType'
  BY <1>7 DEF PopCounts, At, Leave, ghost, PoolType
<1>8. ASSUME NEW t \in Threads, ReleaseDrops(t) PROVE PoolType'
  BY <1>8 DEF ReleaseDrops, memory, local, PoolType
<1>9. ASSUME NEW t \in Threads, ReleaseNode(t) PROVE PoolType'
  <2>1. Returnable \subseteq Obj
    BY DEF Returnable, PoolType
  <2>2. \E o \in Returnable :
           /\ nodes + 1 \in Node /\ nodes' = nodes + 1
           /\ objOf' = [objOf EXCEPT ![nodes + 1] = o]
           /\ given' = [given EXCEPT ![t] = o]
           /\ next' = [next EXCEPT ![nodes + 1] = Null]
           /\ node' = [node EXCEPT ![t] = nodes + 1]
           /\ pc' = [pc EXCEPT ![t] = "push_load"]
           /\ UNCHANGED <<head, objs, link, held, stack>>
    BY <1>9, ReleaseNodeIsNew
  <2> QED BY <2>1, <2>2 DEF PoolType
<1>10. ASSUME NEW t \in Threads, PushLoad(t) PROVE PoolType'
  BY <1>10 DEF PushLoad, At, memory, ghost, PoolType
<1>11. ASSUME NEW t \in Threads, PushPuts(t) PROVE PoolType'
  <2>1. <<node[t]>> \o stack \in Seq(Node)
    BY <1>11, PushPutsFirst, ConsElements DEF PoolType
  <2>2. /\ stack' = <<node[t]>> \o stack /\ head' = node[t] /\ node[t] \in Node
        /\ pc' = [pc EXCEPT ![t] = "push_count"]
        /\ next' = [next EXCEPT ![node[t]] = head]
        /\ held' = held \ {given[t]} /\ given' = [given EXCEPT ![t] = 0]
        /\ UNCHANGED <<objOf, nodes, objs, node, link>>
    BY <1>11, PushPutsFirst
  <2> QED BY <2>1, <2>2 DEF PoolType
<1>12. ASSUME NEW t \in Threads, PushRetries(t) PROVE PoolType'
  BY <1>12 DEF PushRetries, memory, ghost, PoolType
<1>13. ASSUME NEW t \in Threads, PushCounts(t) PROVE PoolType'
  BY <1>13 DEF PushCounts, At, Leave, ghost, PoolType
<1> QED
  BY <1>1, <1>2, <1>3, <1>4, <1>5, <1>6, <1>7,
     <1>8, <1>9, <1>10, <1>11, <1>12, <1>13
  DEF Next, Acquire, Release

(* The counter stays a size_t, and the history flag a flag.                *)
LEMMA CounterTypeStep ==
  ASSUME CounterType, [Next]_vars
  PROVE  CounterType'
<1> USE PoolAssumption DEF Node, Obj, Null
<1>1. CASE UNCHANGED vars
  BY <1>1 DEF vars, memory, local, ghost, CounterType
<1>2. ASSUME NEW t \in Threads, PopLoad(t) PROVE CounterType'
  BY <1>2 DEF PopLoad, At, memory, ghost, CounterType
<1>3. ASSUME NEW t \in Threads, PopNext(t) PROVE CounterType'
  BY <1>3 DEF PopNext, At, memory, ghost, CounterType
<1>4. ASSUME NEW t \in Threads, PopTakes(t) PROVE CounterType'
  BY <1>4 DEF PopTakes, At, CounterType
<1>5. ASSUME NEW t \in Threads, PopRetries(t) PROVE CounterType'
  BY <1>5 DEF PopRetries, At, memory, ghost, CounterType
<1>6. ASSUME NEW t \in Threads, PopMisses(t) PROVE CounterType'
  BY <1>6 DEF PopMisses, At, Leave, CounterType
<1>7. ASSUME NEW t \in Threads, PopCounts(t) PROVE CounterType'
  BY <1>7 DEF PopCounts, At, Leave, ghost, CounterType
<1>8. ASSUME NEW t \in Threads, ReleaseDrops(t) PROVE CounterType'
  BY <1>8 DEF ReleaseDrops, memory, local, CounterType
<1>9. ASSUME NEW t \in Threads, ReleaseNode(t) PROVE CounterType'
  BY <1>9 DEF ReleaseNode, At, ghost, CounterType
<1>10. ASSUME NEW t \in Threads, PushLoad(t) PROVE CounterType'
  BY <1>10 DEF PushLoad, At, memory, ghost, CounterType
<1>11. ASSUME NEW t \in Threads, PushPuts(t) PROVE CounterType'
  BY <1>11 DEF PushPuts, At, CounterType
<1>12. ASSUME NEW t \in Threads, PushRetries(t) PROVE CounterType'
  BY <1>12 DEF PushRetries, memory, ghost, CounterType
<1>13. ASSUME NEW t \in Threads, PushCounts(t) PROVE CounterType'
  BY <1>13 DEF PushCounts, At, Leave, ghost, CounterType
<1> QED
  BY <1>1, <1>2, <1>3, <1>4, <1>5, <1>6, <1>7,
     <1>8, <1>9, <1>10, <1>11, <1>12, <1>13
  DEF Next, Acquire, Release

(* Every step keeps the nodes apart: only a new node is pushed.            *)
LEMMA NodesStep ==
  ASSUME PoolType, NodesOnce, LinksFresh, StackSound, [Next]_vars
  PROVE  NodesOnce'
<1> USE PoolAssumption DEF Node, Obj, Null
<1>1. CASE UNCHANGED vars
  BY <1>1 DEF vars, memory, local, ghost, PoolType, NodesOnce, Popping, Pushing
<1>2. ASSUME NEW t \in Threads, PopLoad(t) PROVE NodesOnce'
  <2>1. head \in 1..nodes /\ head = stack[1] /\ 1 \in DOMAIN stack
    BY <1>2, HeadInStack DEF PopLoad
  <2> QED BY <1>2, <2>1 DEF PopLoad, At, memory, ghost, PoolType, NodesOnce,
                         Popping, Pushing
<1>3. ASSUME NEW t \in Threads, PopNext(t) PROVE NodesOnce'
  BY <1>3 DEF PopNext, At, memory, ghost, PoolType, NodesOnce, Popping, Pushing
<1>4. ASSUME NEW t \in Threads, PopTakes(t) PROVE NodesOnce'
  <2>1. \A i \in DOMAIN Tail(stack) :
          i + 1 \in DOMAIN stack /\ Tail(stack)[i] = stack[i + 1]
    BY <1>4, PopTakesFirst, TailElements DEF PoolType
  <2>2. DOMAIN Tail(stack) \subseteq Nat
    BY <1>4, PopTakesFirst, TailElements DEF PoolType
  <2>3. /\ stack' = Tail(stack) /\ pc' = [pc EXCEPT ![t] = "pop_count"]
        /\ UNCHANGED <<spare, nodes, node>>
    BY <1>4, PopTakesFirst
  <2>4. \A u \in Threads : /\ Popping(u)' => Popping(u)
                           /\ Pushing(u)' => Pushing(u)
    BY <2>3 DEF PoolType, Popping, Pushing
  <2>5. \A i, j \in DOMAIN stack' : stack'[i] = stack'[j] => i = j
    BY <2>1, <2>2, <2>3 DEF NodesOnce
  <2>6. /\ \A i \in DOMAIN stack' : stack'[i] \in 1..nodes
        /\ \A u \in Threads : Pushing(u) =>
             \A i \in DOMAIN stack' : stack'[i] # node[u]
    BY <2>1, <2>3 DEF NodesOnce
  <2> QED BY <2>3, <2>4, <2>5, <2>6 DEF NodesOnce
<1>5. ASSUME NEW t \in Threads, PopRetries(t) PROVE NodesOnce'
  <2>1. head \in 1..nodes /\ head = stack[1] /\ 1 \in DOMAIN stack
    BY <1>5, HeadInStack DEF PopRetries
  <2> QED BY <1>5, <2>1 DEF PopRetries, At, memory, ghost, PoolType, NodesOnce,
                         Popping, Pushing
<1>6. ASSUME NEW t \in Threads, PopMisses(t) PROVE NodesOnce'
  <2>1. /\ pc' = [pc EXCEPT ![t] = "idle"]
        /\ node' = [node EXCEPT ![t] = Null]
        /\ UNCHANGED <<spare, nodes, stack>>
    BY <1>6 DEF PopMisses, Leave, At
  <2> QED BY <2>1 DEF PoolType, NodesOnce, Popping, Pushing
<1>7. ASSUME NEW t \in Threads, PopCounts(t) PROVE NodesOnce'
  BY <1>7
  DEF PopCounts, At, Leave, ghost, PoolType, NodesOnce, Popping, Pushing
<1>8. ASSUME NEW t \in Threads, ReleaseDrops(t) PROVE NodesOnce'
  BY <1>8
  DEF ReleaseDrops, memory, local, PoolType, NodesOnce, Popping, Pushing
<1>9. ASSUME NEW t \in Threads, ReleaseNode(t) PROVE NodesOnce'
  BY <1>9 DEF ReleaseNode, At, ghost, PoolType, NodesOnce, Popping, Pushing
<1>10. ASSUME NEW t \in Threads, PushLoad(t) PROVE NodesOnce'
  BY <1>10
  DEF PushLoad, At, memory, ghost, PoolType, NodesOnce, Popping, Pushing
<1>11. ASSUME NEW t \in Threads, PushPuts(t) PROVE NodesOnce'
  <2> DEFINE pushed == <<node[t]>> \o stack
  <2>1. /\ DOMAIN pushed = 1..(Len(stack) + 1) /\ Len(stack) \in Nat
        /\ DOMAIN stack = 1..Len(stack)
        /\ pushed[1] = node[t]
        /\ \A i \in 2..(Len(stack) + 1) : pushed[i] = stack[i - 1]
    BY <1>11, PushPutsFirst, ConsElements DEF PoolType
  <2>2. \A i \in DOMAIN pushed :
          i = 1 \/ (i - 1 \in DOMAIN stack /\ pushed[i] = stack[i - 1])
    BY <2>1
  <2>3. \A i \in DOMAIN pushed : pushed[i] = node[t] \/
          \E j \in DOMAIN stack : pushed[i] = stack[j]
    BY <2>1, <2>2
  <2>4. \A i, j \in DOMAIN pushed : pushed[i] = pushed[j] => i = j
    BY <1>11, <2>1, <2>2, PushPutsFirst, SMTT(30) DEF NodesOnce
  <2>5. stack' = pushed
    BY <1>11, PushPutsFirst
  <2> HIDE DEF pushed
  <2>6. pc' = [pc EXCEPT ![t] = "push_count"]
    BY <1>11, PushPutsFirst
  <2>7. \A u \in Threads : Pushing(u)' => u # t /\ Pushing(u)
    BY <2>6 DEF PoolType, Pushing
  <2>8. \A u \in Threads : Popping(u)' => u # t /\ Popping(u)
    BY <2>6 DEF PoolType, Popping
  <2>9. Pushing(t) /\ node' = node /\ nodes' = nodes /\ spare' = spare
    BY <1>11, PushPutsFirst DEF Pushing
  <2>10. \A u \in Threads : Pushing(u)' =>
          \A i \in DOMAIN stack' : stack'[i] # node'[u]
    BY <2>3, <2>5, <2>7, <2>9 DEF NodesOnce
  <2>11. \A i \in DOMAIN stack' : stack'[i] \in 1..nodes'
    BY <1>11, <2>3, <2>5, <2>9, PushPutsFirst DEF NodesOnce
  <2> QED BY <2>4, <2>5, <2>7, <2>8, <2>9, <2>10, <2>11 DEF NodesOnce
<1>12. ASSUME NEW t \in Threads, PushRetries(t) PROVE NodesOnce'
  BY <1>12
  DEF PushRetries, memory, ghost, PoolType, NodesOnce, Popping, Pushing
<1>13. ASSUME NEW t \in Threads, PushCounts(t) PROVE NodesOnce'
  BY <1>13
  DEF PushCounts, At, Leave, ghost, PoolType, NodesOnce, Popping, Pushing
<1> QED
  BY <1>1, <1>2, <1>3, <1>4, <1>5, <1>6, <1>7,
     <1>8, <1>9, <1>10, <1>11, <1>12, <1>13
  DEF Next, Acquire, Release

(* No step changes the next of a node that a pop has read: only a node    *)
(* whose push is under way is written.                                    *)
LEMMA LinksStep ==
  ASSUME PoolType, NodesOnce, LinksFresh, [Next]_vars
  PROVE  LinksFresh'
<1> USE PoolAssumption DEF Node, Obj, Null
<1>1. CASE UNCHANGED vars
  BY <1>1 DEF vars, memory, local, ghost, LinksFresh
<1>2. ASSUME NEW t \in Threads, PopLoad(t) PROVE LinksFresh'
  BY <1>2 DEF PopLoad, At, memory, ghost, PoolType, LinksFresh
<1>3. ASSUME NEW t \in Threads, PopNext(t) PROVE LinksFresh'
  BY <1>3 DEF PopNext, At, memory, ghost, PoolType, LinksFresh
<1>4. ASSUME NEW t \in Threads, PopTakes(t) PROVE LinksFresh'
  BY <1>4 DEF PopTakes, At, PoolType, NodesOnce, LinksFresh,
         Popping, Pushing
<1>5. ASSUME NEW t \in Threads, PopRetries(t) PROVE LinksFresh'
  BY <1>5 DEF PopRetries, At, memory, ghost, PoolType, LinksFresh
<1>6. ASSUME NEW t \in Threads, PopMisses(t) PROVE LinksFresh'
  BY <1>6 DEF PopMisses, At, Leave, PoolType, LinksFresh
<1>7. ASSUME NEW t \in Threads, PopCounts(t) PROVE LinksFresh'
  BY <1>7 DEF PopCounts, At, Leave, ghost, PoolType, LinksFresh
<1>8. ASSUME NEW t \in Threads, ReleaseDrops(t) PROVE LinksFresh'
  BY <1>8 DEF ReleaseDrops, memory, local, PoolType, LinksFresh
<1>9. ASSUME NEW t \in Threads, ReleaseNode(t) PROVE LinksFresh'
  BY <1>9 DEF ReleaseNode, At, ghost, PoolType, NodesOnce, LinksFresh,
         Popping, Pushing
<1>10. ASSUME NEW t \in Threads, PushLoad(t) PROVE LinksFresh'
  BY <1>10 DEF PushLoad, At, memory, ghost, PoolType, LinksFresh
<1>11. ASSUME NEW t \in Threads, PushPuts(t) PROVE LinksFresh'
  BY <1>11 DEF PushPuts, At, PoolType, NodesOnce, LinksFresh,
         Popping, Pushing
<1>12. ASSUME NEW t \in Threads, PushRetries(t) PROVE LinksFresh'
  BY <1>12 DEF PushRetries, memory, ghost, PoolType, LinksFresh
<1>13. ASSUME NEW t \in Threads, PushCounts(t) PROVE LinksFresh'
  BY <1>13 DEF PushCounts, At, Leave, ghost, PoolType, LinksFresh
<1> QED
  BY <1>1, <1>2, <1>3, <1>4, <1>5, <1>6, <1>7,
     <1>8, <1>9, <1>10, <1>11, <1>12, <1>13
  DEF Next, Acquire, Release

(* Every step keeps the links from _head equal to the stack.               *)
LEMMA StackStep ==
  ASSUME PoolType, NodesOnce, LinksFresh, StackSound, [Next]_vars
  PROVE  StackSound'
<1> USE PoolAssumption DEF Node, Obj, Null
<1>1. CASE UNCHANGED vars
  BY <1>1 DEF vars, memory, local, ghost, PoolType, NodesOnce, StackSound
<1>2. ASSUME NEW t \in Threads, PopLoad(t) PROVE StackSound'
  BY <1>2 DEF PopLoad, At, memory, ghost, PoolType, NodesOnce, StackSound
<1>3. ASSUME NEW t \in Threads, PopNext(t) PROVE StackSound'
  BY <1>3 DEF PopNext, At, memory, ghost, PoolType, NodesOnce, StackSound
<1>4. ASSUME NEW t \in Threads, PopTakes(t) PROVE StackSound'
  <2> DEFINE rest == Tail(stack)
  <2>1. /\ Len(stack) \in Nat \ {0} /\ Len(rest) = Len(stack) - 1
        /\ rest \in Seq(Node)
        /\ DOMAIN stack = 1..Len(stack) /\ DOMAIN rest = 1..(Len(stack) - 1)
        /\ \A i \in DOMAIN rest :
             i + 1 \in DOMAIN stack /\ rest[i] = stack[i + 1]
    BY <1>4, PopTakesFirst, TailElements DEF PoolType
  <2>2. stack' = rest /\ head' = next[stack[1]] /\ next' = next
    BY <1>4, PopTakesFirst
  <2> HIDE DEF rest
  <2>3. next[stack[1]] = IF rest = <<>> THEN Null ELSE rest[1]
    <3>1. CASE Len(stack) = 1
      BY <2>1, <3>1 DEF StackSound
    <3>2. CASE Len(stack) # 1
      <4>1. 1 \in DOMAIN rest /\ rest # <<>>
        BY <2>1, <3>2
      <4> QED BY <2>1, <3>2, <4>1 DEF StackSound
    <3> QED BY <3>1, <3>2
  <2>4. \A i \in DOMAIN rest : next[rest[i]] =
          IF i = Len(rest) THEN Null ELSE rest[i + 1]
    <3> TAKE i \in DOMAIN rest
    <3>1. CASE i = Len(rest)
      BY <2>1, <3>1 DEF StackSound
    <3>2. CASE i # Len(rest)
      <4>1. i + 1 \in 1..(Len(stack) - 1) /\ i + 1 # Len(stack)
        BY <2>1, <3>2
      <4>2. i + 1 \in DOMAIN rest
        BY <2>1, <4>1
      <4> QED BY <2>1, <3>2, <4>1, <4>2 DEF StackSound
    <3> QED BY <3>1, <3>2
  <2> QED BY <2>3, <2>4, <2>2 DEF StackSound
<1>5. ASSUME NEW t \in Threads, PopRetries(t) PROVE StackSound'
  BY <1>5 DEF PopRetries, At, memory, ghost, PoolType, NodesOnce, StackSound
<1>6. ASSUME NEW t \in Threads, PopMisses(t) PROVE StackSound'
  BY <1>6 DEF PopMisses, At, Leave, PoolType, NodesOnce, StackSound
<1>7. ASSUME NEW t \in Threads, PopCounts(t) PROVE StackSound'
  BY <1>7 DEF PopCounts, At, Leave, ghost, PoolType, NodesOnce, StackSound
<1>8. ASSUME NEW t \in Threads, ReleaseDrops(t) PROVE StackSound'
  BY <1>8 DEF ReleaseDrops, memory, local, PoolType, NodesOnce, StackSound
<1>9. ASSUME NEW t \in Threads, ReleaseNode(t) PROVE StackSound'
  BY <1>9 DEF ReleaseNode, At, ghost, PoolType, NodesOnce, StackSound
<1>10. ASSUME NEW t \in Threads, PushLoad(t) PROVE StackSound'
  BY <1>10 DEF PushLoad, At, memory, ghost, PoolType, NodesOnce, StackSound
<1>11. ASSUME NEW t \in Threads, PushPuts(t) PROVE StackSound'
  <2> DEFINE pushed == <<node[t]>> \o stack
  <2>1. /\ pushed # <<>> /\ Len(pushed) = Len(stack) + 1
        /\ DOMAIN pushed = 1..(Len(stack) + 1) /\ Len(stack) \in Nat
        /\ DOMAIN stack = 1..Len(stack)
        /\ pushed[1] = node[t]
        /\ \A i \in 2..(Len(stack) + 1) : pushed[i] = stack[i - 1]
    BY <1>11, PushPutsFirst, ConsElements DEF PoolType
  <2>2. /\ stack' = pushed /\ head' = node[t]
        /\ next' = [next EXCEPT ![node[t]] = head]
    BY <1>11, PushPutsFirst
  <2>3. node[t] \in Node /\ \A i \in DOMAIN stack : stack[i] # node[t]
    BY <1>11, PushPutsFirst
  <2>4. /\ node[t] \in Node
        /\ \A i \in DOMAIN stack : stack[i] \in Node /\ stack[i] # node[t]
    BY <2>3 DEF PoolType
  <2> HIDE DEF pushed
  <2>5. \A i \in DOMAIN pushed : next'[pushed[i]] =
          IF i = Len(pushed) THEN Null ELSE pushed[i + 1]
    <3> TAKE i \in DOMAIN pushed
    <3>1. CASE i = 1
      <4>1. next'[pushed[i]] = head
        BY <2>1, <2>2, <2>4, <3>1 DEF PoolType
      <4>2. CASE stack = <<>>
        BY <2>1, <3>1, <4>1, <4>2 DEF StackSound
      <4>3. CASE stack # <<>>
        <5>1. Len(stack) # 0
          BY <4>3, <2>1
        <5> QED BY <2>1, <3>1, <4>1, <4>3, <5>1 DEF StackSound
      <4> QED BY <4>2, <4>3
    <3>2. CASE i # 1
      <4>1. i - 1 \in DOMAIN stack /\ pushed[i] = stack[i - 1]
        BY <2>1, <3>2
      <4>2. next'[pushed[i]] = next[stack[i - 1]]
        BY <2>2, <2>4, <4>1 DEF PoolType
      <4> QED BY <2>1, <3>2, <4>1, <4>2 DEF StackSound
    <3> QED BY <3>1, <3>2
  <2> QED BY <2>1, <2>2, <2>5 DEF StackSound
<1>12. ASSUME NEW t \in Threads, PushRetries(t) PROVE StackSound'
  BY <1>12 DEF PushRetries, memory, ghost, PoolType, NodesOnce, StackSound
<1>13. ASSUME NEW t \in Threads, PushCounts(t) PROVE StackSound'
  BY <1>13 DEF PushCounts, At, Leave, ghost, PoolType, NodesOnce, StackSound
<1> QED
  BY <1>1, <1>2, <1>3, <1>4, <1>5, <1>6, <1>7,
     <1>8, <1>9, <1>10, <1>11, <1>12, <1>13
  DEF Next, Acquire, Release

(* Every step keeps the objects accounted for: each is in the pool, with a *)
(* caller, or dropped.                                                     *)
LEMMA ObjectsStep ==
  ASSUME PoolType, NodesOnce, LinksFresh, StackSound,
         ObjectsOnce, NoObjectTwice, [Next]_vars
  PROVE  ObjectsOnce'
<1> USE PoolAssumption DEF Node, Obj, Null
<1>1. CASE UNCHANGED vars
  BY <1>1 DEF vars, memory, local, ghost, ObjectsOnce, Pushing
<1>2. ASSUME NEW t \in Threads, PopLoad(t) PROVE ObjectsOnce'
  BY <1>2 DEF PopLoad, At, memory, ghost, PoolType, ObjectsOnce, Pushing
<1>3. ASSUME NEW t \in Threads, PopNext(t) PROVE ObjectsOnce'
  BY <1>3 DEF PopNext, At, memory, ghost, PoolType, ObjectsOnce, Pushing
<1>4. ASSUME NEW t \in Threads, PopTakes(t) PROVE ObjectsOnce'
  <2>1. \A i \in DOMAIN Tail(stack) :
          i + 1 \in DOMAIN stack /\ Tail(stack)[i] = stack[i + 1]
    BY <1>4, PopTakesFirst, TailElements DEF PoolType
  <2>2. /\ objOf[stack[1]] \in 1..objs
        /\ \A i \in DOMAIN stack' : objOf[stack'[i]] \in 1..objs
    BY <1>4, <2>1, PopTakesFirst DEF ObjectsOnce
  <2>3. /\ pc' = [pc EXCEPT ![t] = "pop_count"]
        /\ held' = held \cup {objOf[stack[1]]}
        /\ UNCHANGED <<objOf, objs, node, given>>
    BY <1>4, PopTakesFirst
  <2>4. \A u \in Threads : Pushing(u)' => Pushing(u)
    BY <2>3 DEF PoolType, Pushing
  <2> QED BY <2>2, <2>3, <2>4 DEF ObjectsOnce
<1>5. ASSUME NEW t \in Threads, PopRetries(t) PROVE ObjectsOnce'
  BY <1>5 DEF PopRetries, At, memory, ghost, PoolType, ObjectsOnce, Pushing
<1>6. ASSUME NEW t \in Threads, PopMisses(t) PROVE ObjectsOnce'
  <2>1. objs \in Nat /\ objs' = objs + 1 /\ held' = held \cup {objs + 1}
    BY <1>6 DEF PopMisses, PoolType
  <2>2. UNCHANGED <<objOf, stack>>
    BY <1>6 DEF PopMisses
  <2>3. /\ \A u \in Threads : Pushing(u)' => u # t /\ Pushing(u)
        /\ \A u \in Threads : u # t => given'[u] = given[u] /\ node'[u] = node[u]
    BY <1>6 DEF PopMisses, Leave, At, Pushing, PoolType
  <2>4. 1..objs \subseteq 1..objs'
    BY <2>1
  <2>5. held' \subseteq 1..objs'
    BY <2>1, <2>4 DEF ObjectsOnce
  <2>6. \A i \in DOMAIN stack' : objOf'[stack'[i]] \in 1..objs'
    BY <2>2, <2>4 DEF ObjectsOnce
  <2> QED BY <2>1, <2>2, <2>3, <2>5, <2>6 DEF ObjectsOnce
<1>7. ASSUME NEW t \in Threads, PopCounts(t) PROVE ObjectsOnce'
  BY <1>7 DEF PopCounts, At, Leave, ghost, PoolType, ObjectsOnce, Pushing
<1>8. ASSUME NEW t \in Threads, ReleaseDrops(t) PROVE ObjectsOnce'
  <2>1. PICK o \in Returnable : held' = held \ {o}
    BY <1>8 DEF ReleaseDrops
  <2>2. UNCHANGED <<objs, objOf, stack, pc, node, given>>
    BY <1>8 DEF ReleaseDrops, memory, local
  <2>3. \A u \in Threads : given[u] # o
    BY DEF Returnable
  <2>4. \A u \in Threads : Pushing(u)' = Pushing(u)
    BY <2>2 DEF Pushing
  <2> QED BY <2>1, <2>2, <2>3, <2>4 DEF ObjectsOnce
<1>9. ASSUME NEW t \in Threads, ReleaseNode(t) PROVE ObjectsOnce'
  <2>1. PICK o \in Returnable :
           /\ nodes + 1 \in Node /\ nodes' = nodes + 1
           /\ objOf' = [objOf EXCEPT ![nodes + 1] = o]
           /\ given' = [given EXCEPT ![t] = o]
           /\ node' = [node EXCEPT ![t] = nodes + 1]
           /\ pc[t] = "idle" /\ pc' = [pc EXCEPT ![t] = "push_load"]
           /\ UNCHANGED <<objs, held, stack>>
    BY <1>9, ReleaseNodeIsNew
  <2>2. o \in held /\ \A u \in Threads : given[u] # o
    BY DEF Returnable
  <2>3. nodes + 1 \notin 1..nodes
    BY DEF PoolType
  <2>4. \A i \in DOMAIN stack' : objOf'[stack'[i]] = objOf[stack[i]]
    BY <2>1, <2>3 DEF PoolType, NodesOnce
  <2>5. \A u \in Threads : u # t /\ Pushing(u)' =>
          /\ Pushing(u) /\ given'[u] = given[u] /\ node'[u] = node[u]
          /\ objOf'[node[u]] = objOf[node[u]]
    BY <2>1, <2>3 DEF PoolType, NodesOnce, Pushing
  <2>6. given'[t] = o /\ objOf'[node'[t]] = o
    BY <2>1 DEF PoolType
  <2>7. DOMAIN stack' = DOMAIN stack
    BY <2>1
  <2> QED BY <2>1, <2>2, <2>4, <2>5, <2>6, <2>7 DEF ObjectsOnce
<1>10. ASSUME NEW t \in Threads, PushLoad(t) PROVE ObjectsOnce'
  BY <1>10 DEF PushLoad, At, memory, ghost, PoolType, ObjectsOnce, Pushing
<1>11. ASSUME NEW t \in Threads, PushPuts(t) PROVE ObjectsOnce'
  <2>1. \A i \in DOMAIN stack' : stack'[i] = node[t] \/
          \E j \in DOMAIN stack : stack'[i] = stack[j]
    BY <1>11, PushedElements
  <2>2. Pushing(t) /\ given[t] \in 1..objs /\ objOf[node[t]] = given[t]
    BY <1>11, PushPutsFirst DEF Pushing, ObjectsOnce
  <2>3. \A i \in DOMAIN stack' : objOf[stack'[i]] \in 1..objs
    BY <2>1, <2>2 DEF ObjectsOnce
  <2>4. /\ pc' = [pc EXCEPT ![t] = "push_count"]
        /\ given' = [given EXCEPT ![t] = 0]
        /\ held' = held \ {given[t]} /\ UNCHANGED <<objs, objOf, node>>
    BY <1>11, PushPutsFirst
  <2>5. /\ \A u \in Threads : Pushing(u)' => u # t /\ Pushing(u)
        /\ \A u \in Threads : u # t => given'[u] = given[u]
    BY <2>4 DEF PoolType, Pushing
  <2>6. \A u \in Threads : Pushing(u)' =>
          given'[u] \in held' /\ objOf'[node'[u]] = given'[u]
    BY <2>2, <2>5, <2>4 DEF ObjectsOnce
  <2>7. \A u, v \in Threads :
          Pushing(u)' /\ Pushing(v)' /\ u # v => given'[u] # given'[v]
    BY <2>5 DEF ObjectsOnce
  <2>8. /\ held' \subseteq 1..objs'
        /\ \A i \in DOMAIN stack' : objOf'[stack'[i]] \in 1..objs'
    BY <2>3, <2>4 DEF ObjectsOnce
  <2> QED BY <2>6, <2>7, <2>8 DEF ObjectsOnce
<1>12. ASSUME NEW t \in Threads, PushRetries(t) PROVE ObjectsOnce'
  BY <1>12 DEF PushRetries, memory, ghost, PoolType, ObjectsOnce, Pushing
<1>13. ASSUME NEW t \in Threads, PushCounts(t) PROVE ObjectsOnce'
  BY <1>13 DEF PushCounts, At, Leave, ghost, PoolType, ObjectsOnce, Pushing
<1> QED
  BY <1>1, <1>2, <1>3, <1>4, <1>5, <1>6, <1>7,
     <1>8, <1>9, <1>10, <1>11, <1>12, <1>13
  DEF Next, Acquire, Release

(* Every step keeps the pooled objects distinct and in use by nobody.      *)
LEMMA TwiceStep ==
  ASSUME PoolType, NodesOnce, LinksFresh, StackSound,
         ObjectsOnce, NoObjectTwice, [Next]_vars
  PROVE  NoObjectTwice'
<1> USE PoolAssumption DEF Node, Obj, Null
<1>1. CASE UNCHANGED vars
  BY <1>1 DEF vars, memory, local, ghost, NoObjectTwice
<1>2. ASSUME NEW t \in Threads, PopLoad(t) PROVE NoObjectTwice'
  BY <1>2 DEF PopLoad, At, memory, ghost, NoObjectTwice
<1>3. ASSUME NEW t \in Threads, PopNext(t) PROVE NoObjectTwice'
  BY <1>3 DEF PopNext, At, memory, ghost, NoObjectTwice
<1>4. ASSUME NEW t \in Threads, PopTakes(t) PROVE NoObjectTwice'
  <2>1. /\ DOMAIN Tail(stack) \subseteq Nat \ {0}
        /\ \A i \in DOMAIN Tail(stack) :
             i + 1 \in DOMAIN stack /\ Tail(stack)[i] = stack[i + 1]
    BY <1>4, PopTakesFirst, TailElements, SMTT(30) DEF PoolType
  <2>2. \A i \in DOMAIN Tail(stack) : objOf[stack[i + 1]] # objOf[stack[1]]
    BY <1>4, <2>1, PopTakesFirst DEF NoObjectTwice
  <2>3. /\ stack' = Tail(stack) /\ objOf' = objOf
        /\ held' = held \cup {objOf[stack[1]]}
    BY <1>4, PopTakesFirst
  <2>4. \A i, j \in DOMAIN stack' :
          objOf[stack'[i]] = objOf[stack'[j]] => i = j
    BY <2>1, <2>3 DEF NoObjectTwice
  <2>5. \A i \in DOMAIN stack' : objOf[stack'[i]] \notin held'
    BY <2>1, <2>2, <2>3 DEF NoObjectTwice
  <2> QED BY <2>3, <2>4, <2>5 DEF NoObjectTwice
<1>5. ASSUME NEW t \in Threads, PopRetries(t) PROVE NoObjectTwice'
  BY <1>5 DEF PopRetries, At, memory, ghost, NoObjectTwice
<1>6. ASSUME NEW t \in Threads, PopMisses(t) PROVE NoObjectTwice'
  BY <1>6 DEF PopMisses, At, Leave, PoolType, ObjectsOnce, NoObjectTwice
<1>7. ASSUME NEW t \in Threads, PopCounts(t) PROVE NoObjectTwice'
  BY <1>7 DEF PopCounts, At, Leave, ghost, NoObjectTwice
<1>8. ASSUME NEW t \in Threads, ReleaseDrops(t) PROVE NoObjectTwice'
  BY <1>8 DEF ReleaseDrops, memory, local, NoObjectTwice
<1>9. ASSUME NEW t \in Threads, ReleaseNode(t) PROVE NoObjectTwice'
  BY <1>9 DEF ReleaseNode, At, ghost, PoolType, NodesOnce, NoObjectTwice
<1>10. ASSUME NEW t \in Threads, PushLoad(t) PROVE NoObjectTwice'
  BY <1>10 DEF PushLoad, At, memory, ghost, NoObjectTwice
<1>11. ASSUME NEW t \in Threads, PushPuts(t) PROVE NoObjectTwice'
  <2>1. /\ 1 \in DOMAIN stack' /\ stack'[1] = node[t]
        /\ \A i \in DOMAIN stack' : i # 1 =>
             i \in Nat /\ i - 1 \in DOMAIN stack /\ stack'[i] = stack[i - 1]
    BY <1>11, PushedElements
  <2>2. given[t] \in held /\ objOf[node[t]] = given[t]
    BY <1>11, PushPutsFirst DEF Pushing, ObjectsOnce
  <2>3. held' = held \ {given[t]} /\ objOf' = objOf
    BY <1>11, PushPutsFirst
  <2>4. \A i \in DOMAIN stack' : i # 1 => objOf[stack'[i]] \notin held
    BY <2>1 DEF NoObjectTwice
  <2>5. \A i, j \in DOMAIN stack' : i # 1 /\ j # 1 /\
          objOf[stack'[i]] = objOf[stack'[j]] => i = j
    BY <2>1 DEF NoObjectTwice
  <2> QED BY <2>1, <2>2, <2>3, <2>4, <2>5 DEF NoObjectTwice
<1>12. ASSUME NEW t \in Threads, PushRetries(t) PROVE NoObjectTwice'
  BY <1>12 DEF PushRetries, memory, ghost, NoObjectTwice
<1>13. ASSUME NEW t \in Threads, PushCounts(t) PROVE NoObjectTwice'
  BY <1>13 DEF PushCounts, At, Leave, ghost, NoObjectTwice
<1> QED
  BY <1>1, <1>2, <1>3, <1>4, <1>5, <1>6, <1>7,
     <1>8, <1>9, <1>10, <1>11, <1>12, <1>13
  DEF Next, Acquire, Release

-----------------------------------------------------------------------------
(* The invariant holds after reserve(Initial).                             *)
LEMMA InvInit == Init => IInv
<1> USE PoolAssumption DEF Node, Obj, Null
<1> SUFFICES ASSUME Init PROVE IInv
  OBVIOUS
<1>1. /\ stack \in Seq(Node) /\ DOMAIN stack = 1..Initial
      /\ Len(stack) = Initial
      /\ \A i \in 1..Initial : stack[i] = Initial + 1 - i
  BY DEF Init
<1>2. PoolType
  BY <1>1 DEF Init, PoolType
<1>3. CounterType
  <2>1. Initial % Modulus \in 0..(Modulus - 1)
    OBVIOUS
  <2> QED BY <2>1 DEF Init, CounterType
<1>4. NodesOnce /\ LinksFresh
  BY <1>1 DEF Init, NodesOnce, LinksFresh, Popping, Pushing
<1>5. StackSound
  BY <1>1 DEF Init, StackSound
<1>6. ObjectsOnce /\ NoObjectTwice
  BY <1>1 DEF Init, ObjectsOnce, NoObjectTwice, Pushing
<1> QED
  BY <1>2, <1>3, <1>4, <1>5, <1>6, TypeParts DEF IInv, NodesOnce

(* Every step keeps the invariant.                                         *)
LEMMA InvStep == IInv /\ [Next]_vars => IInv'
<1> SUFFICES ASSUME IInv, [Next]_vars PROVE IInv'
  OBVIOUS
<1>1. PoolType /\ CounterType
  BY TypeParts DEF IInv, NodesOnce
<1>2. PoolType' /\ CounterType' /\ NodesOnce'
  BY <1>1, PoolTypeStep, CounterTypeStep, NodesStep DEF IInv
<1>3. LinksFresh' /\ StackSound' /\ ObjectsOnce' /\ NoObjectTwice'
  BY <1>1, LinksStep, StackStep, ObjectsStep, TwiceStep DEF IInv
<1>4. TypeOK'
  BY <1>2, TypeParts, PTL DEF NodesOnce, TypeOK, PoolType, CounterType
<1> QED BY <1>2, <1>3, <1>4 DEF IInv

(* The type invariant holds: node, counter and links stay in their ranges, *)
(* the counter because it wraps as a size_t does.                          *)
THEOREM PoolTypeCorrect == Spec => []TypeOK
<1>1. IInv => TypeOK
  BY DEF IInv
<1> QED BY <1>1, InvInit, InvStep, PTL DEF Spec

(* The pool's stack is sound: the links from _head are what the successful *)
(* CASes have built, whatever the interleaving (ObjectPool.hpp:188-206).   *)
THEOREM StackIsSound == Spec => []StackSound
<1>1. IInv => StackSound
  BY DEF IInv
<1> QED BY <1>1, InvInit, InvStep, PTL DEF Spec

(* No object is handed to two callers, nor is in the pool twice            *)
(* (ObjectPool.hpp:142-169).                                               *)
THEOREM ObjectsHandedOutOnce == Spec => []NoObjectTwice
<1>1. IInv => NoObjectTwice
  BY DEF IInv
<1> QED BY <1>1, InvInit, InvStep, PTL DEF Spec

-----------------------------------------------------------------------------
(* The refinement: the abstract stack is the object of each node.          *)

Objects == [i \in DOMAIN stack |-> objOf[stack[i]]]

(* A pop of the nodes is a pop of their objects.                           *)
LEMMA MapTail ==
  ASSUME NEW S, NEW T, NEW s \in Seq(S), s # <<>>, NEW f \in [S -> T]
  PROVE  LET m == [i \in DOMAIN s |-> f[s[i]]] IN
         /\ m # <<>> /\ Head(m) = f[s[1]]
         /\ [i \in DOMAIN Tail(s) |-> f[Tail(s)[i]]] = Tail(m)
<1> DEFINE m == [i \in DOMAIN s |-> f[s[i]]]
           n == [i \in DOMAIN Tail(s) |-> f[Tail(s)[i]]]
<1>1. DOMAIN s = 1..Len(s) /\ Len(s) \in Nat \ {0}
  BY TailElements
<1>2. \A i \in 1..Len(s) : s[i] \in S
  OBVIOUS
<1>3. m = [i \in 1..Len(s) |-> f[s[i]]]
  BY <1>1
<1>4. m \in Seq(T) /\ Len(m) = Len(s)
  BY <1>1, <1>2, <1>3
<1>5. m # <<>> /\ Head(m) = f[s[1]]
  BY <1>1, <1>3, <1>4
<1>6. /\ DOMAIN Tail(m) = 1..(Len(s) - 1)
      /\ \A i \in DOMAIN Tail(m) : Tail(m)[i] = m[i + 1]
      /\ Tail(m) \in Seq(T) /\ Len(Tail(m)) = Len(s) - 1
  BY <1>4, <1>5, TailElements
<1>7. /\ DOMAIN Tail(s) = 1..(Len(s) - 1)
      /\ \A i \in DOMAIN Tail(s) : i + 1 \in DOMAIN s /\ Tail(s)[i] = s[i + 1]
      /\ Tail(s) \in Seq(S) /\ Len(Tail(s)) = Len(s) - 1
  BY TailElements
<1>8. n = [i \in 1..(Len(s) - 1) |-> f[Tail(s)[i]]]
  BY <1>7
<1>9. n \in Seq(T) /\ Len(n) = Len(s) - 1
  <2>1. \A i \in 1..(Len(s) - 1) : f[Tail(s)[i]] \in T
    BY <1>7
  <2> HIDE DEF n
  <2> QED BY <1>1, <1>8, <2>1
<1>10. \A i \in 1..(Len(s) - 1) : n[i] = Tail(m)[i]
  <2> TAKE i \in 1..(Len(s) - 1)
  <2>1. n[i] = f[s[i + 1]]
    BY <1>7, <1>8
  <2>2. Tail(m)[i] = m[i + 1]
    BY <1>6
  <2>3. m[i + 1] = f[s[i + 1]]
    BY <1>3, <1>1
  <2> QED BY <2>1, <2>2, <2>3
<1> HIDE DEF n
<1>11. n = Tail(m)
  BY <1>6, <1>9, <1>10, SeqEqual
<1> QED BY <1>5, <1>11 DEF n

(* A push of a node is a push of its object.                               *)
LEMMA MapCons ==
  ASSUME NEW S, NEW T, NEW s \in Seq(S), NEW e \in S, NEW f \in [S -> T]
  PROVE  [i \in DOMAIN (<<e>> \o s) |-> f[(<<e>> \o s)[i]]]
           = <<f[e]>> \o [i \in DOMAIN s |-> f[s[i]]]
<1> DEFINE c == <<e>> \o s
           m == [i \in DOMAIN s |-> f[s[i]]]
           a == [i \in DOMAIN c |-> f[c[i]]]
           b == <<f[e]>> \o m
<1>1. /\ c \in Seq(S) /\ Len(s) \in Nat /\ Len(c) = Len(s) + 1
      /\ DOMAIN s = 1..Len(s) /\ DOMAIN c = 1..(Len(s) + 1)
      /\ c[1] = e /\ \A i \in 2..(Len(s) + 1) : c[i] = s[i - 1]
  BY ConsElements
<1>2. m = [i \in 1..Len(s) |-> f[s[i]]] /\ \A i \in 1..Len(s) : s[i] \in S
  BY <1>1
<1>3. m \in Seq(T) /\ Len(m) = Len(s) /\ f[e] \in T
  BY <1>1, <1>2
<1>4. /\ b \in Seq(T) /\ Len(b) = Len(s) + 1 /\ b[1] = f[e]
      /\ \A i \in 2..(Len(s) + 1) : b[i] = m[i - 1]
  BY <1>3, ConsElements
<1> HIDE DEF c, b
<1>5. \A i \in 1..(Len(s) + 1) : c[i] \in S
  BY <1>1
<1>6. a \in Seq(T) /\ Len(a) = Len(s) + 1
  BY <1>1, <1>5
<1>7. \A i \in 1..(Len(s) + 1) : a[i] = b[i]
  <2> TAKE i \in 1..(Len(s) + 1)
  <2>1. a[i] = f[c[i]]
    BY <1>1
  <2>2. CASE i = 1
    BY <1>1, <1>4, <2>1, <2>2
  <2>3. CASE i # 1
    <3>1. i \in 2..(Len(s) + 1) /\ i - 1 \in 1..Len(s)
      BY <1>1, <2>3
    <3>2. m[i - 1] = f[s[i - 1]]
      BY <1>2, <3>1
    <3> QED BY <1>1, <1>4, <2>1, <3>1, <3>2
  <2> QED BY <2>2, <2>3
<1> HIDE DEF a
<1>8. a = b
  BY <1>4, <1>6, <1>7, SeqEqual
<1> QED BY <1>8 DEF a, b, c

(* A step that leaves the stack, the objects of its nodes and the callers' *)
(* objects alone is no step of the abstract stack.                         *)
LEMMA QuietStep ==
  ASSUME Objects' = Objects, held' = held
  PROVE  UNCHANGED Stack!vars
BY DEF Objects, Stack!vars

(* Every step of the pool is a step of the abstract stack or none.         *)
LEMMA ImplementStep ==
  ASSUME IInv, [Next]_vars
  PROVE  [Stack!Next]_(Stack!vars)
<1> USE PoolAssumption DEF Node, Obj, Null
<1>1. PoolType /\ NodesOnce /\ LinksFresh /\ StackSound
        /\ ObjectsOnce /\ NoObjectTwice
  BY TypeParts DEF IInv, NodesOnce
<1>2. ASSUME UNCHANGED <<stack, objOf, held>> PROVE UNCHANGED Stack!vars
  BY <1>2, QuietStep DEF Objects
<1>3. CASE UNCHANGED vars
  BY <1>2, <1>3 DEF vars, memory, ghost
<1>4. ASSUME NEW t \in Threads,
             \/ PopLoad(t) \/ PopNext(t) \/ PopRetries(t)
             \/ PushLoad(t) \/ PushRetries(t)
      PROVE  UNCHANGED Stack!vars
  BY <1>2, <1>4
  DEF PopLoad, PopNext, PopRetries, PushLoad, PushRetries, memory, ghost
<1>5. ASSUME NEW t \in Threads, PopCounts(t) \/ PushCounts(t)
      PROVE  UNCHANGED Stack!vars
  BY <1>2, <1>5 DEF PopCounts, PushCounts, ghost
<1>6. ASSUME NEW t \in Threads, PopTakes(t) PROVE Stack!Take
  <2>1. /\ stack # <<>> /\ stack' = Tail(stack) /\ objOf' = objOf
        /\ held' = held \cup {objOf[stack[1]]} /\ 1 \in DOMAIN stack
    BY <1>1, <1>6, PopTakesFirst
  <2>2. objOf \in [Node -> Obj \cup {0}] /\ stack \in Seq(Node)
    BY <1>1 DEF PoolType
  <2>3. /\ Objects # <<>> /\ Head(Objects) = objOf[stack[1]]
        /\ Objects' = Tail(Objects)
    BY <2>1, <2>2, MapTail DEF Objects
  <2>4. objOf[stack[1]] \notin held
    BY <1>1, <2>1 DEF NoObjectTwice
  <2> QED BY <2>1, <2>3, <2>4 DEF Stack!Take, Objects
<1>7. ASSUME NEW t \in Threads, PopMisses(t) PROVE Stack!Make
  <2>1. /\ head = Null /\ held' = held \cup {objs + 1}
        /\ UNCHANGED <<stack, objOf>>
    BY <1>7 DEF PopMisses
  <2>2. stack = <<>>
    BY <1>1, <2>1, TailElements DEF StackSound, PoolType
  <2>3. Objects = <<>> /\ Objects' = Objects
    BY <2>1, <2>2 DEF Objects
  <2>4. objs + 1 \notin held
    BY <1>1 DEF ObjectsOnce, PoolType
  <2> QED BY <2>1, <2>3, <2>4 DEF Stack!Make, Objects
<1>8. ASSUME NEW t \in Threads, ReleaseDrops(t) PROVE Stack!Drop
  <2>1. \E o \in held : held' = held \ {o}
    BY <1>8 DEF ReleaseDrops, Returnable
  <2>2. Objects' = Objects
    BY <1>8 DEF ReleaseDrops, memory, Objects
  <2> QED BY <2>1, <2>2 DEF Stack!Drop, Objects
<1>9. ASSUME NEW t \in Threads, ReleaseNode(t) PROVE UNCHANGED Stack!vars
  <2>1. \E o : objOf' = [objOf EXCEPT ![nodes + 1] = o]
    BY <1>1, <1>9, ReleaseNodeIsNew
  <2>2. UNCHANGED <<stack, held>>
    BY <1>9 DEF ReleaseNode, ghost
  <2>3. \A i \in DOMAIN stack : stack[i] # nodes + 1
    BY <1>1 DEF NodesOnce, PoolType
  <2>4. \A i \in DOMAIN stack : objOf'[stack[i]] = objOf[stack[i]]
    BY <1>1, <2>1, <2>3 DEF PoolType
  <2>5. Objects' = Objects
    BY <2>2, <2>4 DEF Objects
  <2> QED BY <2>2, <2>5, QuietStep
<1>20. ASSUME NEW t \in Threads, PushPuts(t) PROVE Stack!Give
  <2>1. /\ pc[t] = "push_cas" /\ node[t] \in Node
        /\ stack' = <<node[t]>> \o stack /\ objOf' = objOf
        /\ held' = held \ {given[t]}
    BY <1>1, <1>20, PushPutsFirst
  <2>2. objOf \in [Node -> Obj \cup {0}] /\ stack \in Seq(Node)
    BY <1>1 DEF PoolType
  <2>3. given[t] \in held /\ objOf[node[t]] = given[t]
    BY <1>1, <2>1 DEF ObjectsOnce, Pushing
  <2>4. Objects' = <<given[t]>> \o Objects
    BY <2>1, <2>2, <2>3, MapCons DEF Objects
  <2>5. \A i \in DOMAIN Objects : Objects[i] # given[t]
    BY <1>1, <2>3 DEF NoObjectTwice, Objects
  <2> QED BY <2>1, <2>3, <2>4, <2>5 DEF Stack!Give, Stack!Free, Objects
<1> QED
  BY <1>3, <1>4, <1>5, <1>6, <1>7, <1>8, <1>9, <1>20
  DEF Next, Acquire, Release, Stack!Next

(* The pool implements a stack of free objects (FreeList): a hit returns   *)
(* the object released last, which nobody has; a miss happens only when    *)
(* the pool is empty.                                                      *)
THEOREM PoolImplementsStack == Spec => StackSpec
<1>1. Init => Stack!Init
  <2> SUFFICES ASSUME Init PROVE Stack!Init
    OBVIOUS
  <2>1. held = {} /\ NoObjectTwice
    BY InvInit DEF Init, IInv
  <2> QED BY <2>1 DEF Stack!Init, NoObjectTwice
<1>2. IInv /\ [Next]_vars => [Stack!Next]_(Stack!vars)
  BY ImplementStep
<1> QED BY <1>1, <1>2, InvInit, InvStep, PTL DEF Spec, StackSpec, Stack!Spec

-----------------------------------------------------------------------------
(* The counter.  It lags behind the stack by the pops that have not        *)
(* counted yet and runs behind it by the pushes that have not.             *)

In(S)    == {s \in Threads : pc[s] \in S}
Num(S)   == Cardinality(In(S))
PopsDue  == Num({"pop_count"})
PutsDue  == Num({"push_count"})
Putting  == Num({"push_load", "push_cas"})

(* Up to what it has wrapped, the counter is the free objects, with the    *)
(* pops not counted yet and without the pushes not counted yet.            *)
CounterLags ==
  \E k \in Int : freeCount + PutsDue = Len(stack) + PopsDue + k * Modulus

(* What is in the pool or on its way there passes the maximum only by what *)
(* reserve put there, or by the threads that found room at the same time.  *)
RoomKept ==
  MaxSize > 0 =>
    \/ Len(stack) + PopsDue + Putting <= Initial
    \/ Len(stack) + PopsDue + Putting < MaxSize + Cardinality(Threads)

(* The counter is wide enough for the objects: 64 bits count more than any *)
(* memory holds.                                                           *)
WideCounter ==
  Initial < Modulus /\ MaxSize + Cardinality(Threads) <= Modulus

LEMMA NumType ==
  PopsDue \in Nat /\ PutsDue \in Nat /\ Putting \in Nat
<1>1. ASSUME NEW S PROVE Num(S) \in Nat
  <2>1. IsFiniteSet(In(S))
    BY PoolAssumption, FS_Subset DEF In
  <2> QED BY <2>1, FS_CardinalityType DEF Num
<1> QED BY <1>1 DEF PopsDue, PutsDue, Putting

(* How a thread that moves changes the number of threads at each place.    *)
One(place, S) == IF place \in S THEN 1 ELSE 0

Moves(from, to) ==
  /\ PopsDue' = PopsDue + One(to, {"pop_count"}) - One(from, {"pop_count"})
  /\ PutsDue' = PutsDue + One(to, {"push_count"}) - One(from, {"push_count"})
  /\ Putting' = Putting + One(to, {"push_load", "push_cas"})
                        - One(from, {"push_load", "push_cas"})

LEMMA MoveCounts ==
  ASSUME PoolType, NEW t \in Threads, NEW to, pc' = [pc EXCEPT ![t] = to]
  PROVE  Moves(pc[t], to)
<1>1. \A s \in Threads : pc'[s] = IF s = t THEN to ELSE pc[s]
  BY DEF PoolType
<1>2. ASSUME NEW S, NEW T0, NEW T1,
             T0 = {s \in Threads : pc[s] \in S},
             T1 = {s \in Threads : pc'[s] \in S}
      PROVE  Cardinality(T1) = Cardinality(T0) + One(to, S) - One(pc[t], S)
  <2>1. IsFiniteSet(T0) /\ Cardinality(T0) \in Nat
    BY <1>2, PoolAssumption, FS_Subset, FS_CardinalityType
  <2>2. T1 = IF to \in S THEN T0 \cup {t} ELSE T0 \ {t}
    BY <1>1, <1>2
  <2>3. t \in T0 <=> pc[t] \in S
    BY <1>2
  <2>4. /\ Cardinality(T0 \cup {t}) =
             IF t \in T0 THEN Cardinality(T0) ELSE Cardinality(T0) + 1
        /\ Cardinality(T0 \ {t}) =
             IF t \in T0 THEN Cardinality(T0) - 1 ELSE Cardinality(T0)
    BY <2>1, FS_AddElement, FS_RemoveElement
  <2> QED BY <2>1, <2>2, <2>3, <2>4 DEF One
<1>3. PopsDue' = PopsDue + One(to, {"pop_count"}) - One(pc[t], {"pop_count"})
  BY <1>2 DEF PopsDue, Num, In
<1>4. PutsDue' = PutsDue + One(to, {"push_count"}) - One(pc[t], {"push_count"})
  BY <1>2 DEF PutsDue, Num, In
<1>5. Putting' = Putting + One(to, {"push_load", "push_cas"})
                         - One(pc[t], {"push_load", "push_cas"})
  BY <1>2 DEF Putting, Num, In
<1> QED BY <1>3, <1>4, <1>5 DEF Moves

(* An idle thread is at none of the places of a release.                   *)
LEMMA IdleLeft ==
  ASSUME PoolType, NEW t \in Threads, pc[t] = "idle"
  PROVE  /\ Cardinality(Threads) \in Nat
         /\ PutsDue \in Nat /\ Putting \in Nat /\ PopsDue \in Nat
         /\ PutsDue + Putting < Cardinality(Threads)
<1> DEFINE P == In({"push_count"})
           R == In({"push_load", "push_cas"})
           U == In({"pop_count"})
<1>1. IsFiniteSet(P) /\ IsFiniteSet(R) /\ IsFiniteSet(U)
  BY PoolAssumption, FS_Subset DEF In
<1>2. P \cap R = {}
  BY DEF In
<1>3. Cardinality(P \cup R) = Cardinality(P) + Cardinality(R)
  <2>1. Cardinality(P) \in Nat /\ Cardinality(R) \in Nat
    BY <1>1, FS_CardinalityType
  <2>2. Cardinality(P \cap R) = 0
    BY <1>2, FS_EmptySet
  <2>3. Cardinality(P \cup R) =
          Cardinality(P) + Cardinality(R) - Cardinality(P \cap R)
    BY <1>1, FS_Union
  <2> QED BY <2>1, <2>2, <2>3
<1>4. P \cup R \subseteq Threads \ {t}
  BY DEF In
<1>5. /\ IsFiniteSet(Threads \ {t})
      /\ Cardinality(Threads \ {t}) = Cardinality(Threads) - 1
  BY PoolAssumption, FS_RemoveElement
<1>6. Cardinality(P \cup R) <= Cardinality(Threads) - 1
  BY <1>4, <1>5, FS_Subset
<1>7. /\ Cardinality(Threads) \in Nat /\ Cardinality(P) \in Nat
      /\ Cardinality(R) \in Nat /\ Cardinality(U) \in Nat
  BY <1>1, PoolAssumption, FS_CardinalityType
<1> QED BY <1>3, <1>6, <1>7 DEF PutsDue, Putting, PopsDue, Num

(* The remainder is the only number of its range that is congruent.        *)
LEMMA Remainder ==
  ASSUME NEW y \in Int, NEW a \in 0..(Modulus - 1), NEW k \in Int,
         y = a + k * Modulus
  PROVE  y % Modulus = a
<1>1. Modulus \in Nat \ {0}
  BY PoolAssumption
<1>2. /\ y % Modulus \in 0..(Modulus - 1) /\ y \div Modulus \in Int
      /\ y = Modulus * (y \div Modulus) + (y % Modulus)
  <2>1. y % Modulus \in 0..(Modulus - 1)
    BY <1>1
  <2>2. y \div Modulus \in Int
    BY <1>1
  <2>3. y = Modulus * (y \div Modulus) + (y % Modulus)
    BY <1>1
  <2> QED BY <2>1, <2>2, <2>3
<1> DEFINE d == k - (y \div Modulus)
<1>3. d \in Int /\ (y % Modulus) - a = d * Modulus
  BY <1>1, <1>2
<1>4. d >= 1 => d * Modulus >= Modulus
  BY <1>1, <1>3
<1>5. d <= -1 => d * Modulus <= -Modulus
  BY <1>1, <1>3
<1>6. d = 0
  <2> HIDE DEF d
  <2>1. d >= 1 \/ d <= -1 \/ d = 0
    BY <1>3
  <2>2. (y % Modulus) - a < Modulus /\ (y % Modulus) - a > -Modulus
    BY <1>1, <1>2
  <2> QED BY <1>1, <1>3, <1>4, <1>5, <2>1, <2>2
<1> QED BY <1>1, <1>2, <1>3, <1>6

(* The two steps of the counter.                                           *)
LEMMA Wrapped ==
  ASSUME NEW x \in 0..(Modulus - 1)
  PROVE  /\ x % Modulus = x
         /\ (x + 1) % Modulus = IF x + 1 = Modulus THEN 0 ELSE x + 1
         /\ (x + Modulus - 1) % Modulus = IF x = 0 THEN Modulus - 1 ELSE x - 1
<1>1. Modulus \in Nat \ {0}
  BY PoolAssumption
<1>2. x % Modulus = x
  BY <1>1, x = x + 0 * Modulus, Remainder
<1>4. ASSUME x + 1 # Modulus PROVE (x + 1) % Modulus = x + 1
  BY <1>1, <1>4, x + 1 = (x + 1) + 0 * Modulus, Remainder
<1>5. ASSUME x = 0 PROVE (x + Modulus - 1) % Modulus = Modulus - 1
  BY <1>1, <1>5, x + Modulus - 1 = (Modulus - 1) + 0 * Modulus, Remainder
<1>6. ASSUME x # 0 PROVE (x + Modulus - 1) % Modulus = x - 1
  BY <1>1, <1>6, x + Modulus - 1 = (x - 1) + 1 * Modulus, Remainder
<1>7. x + 1 = Modulus => (x + 1) % Modulus = 0
  <2>1. ASSUME x + 1 = Modulus PROVE (x + 1) % Modulus = 0
    <3>1. x + 1 = 0 + 1 * Modulus /\ 0 \in 0..(Modulus - 1) /\ x + 1 \in Int
      BY <1>1, <2>1
    <3> QED BY <3>1, Remainder
  <2> QED BY <2>1
<1> QED BY <1>2, <1>4, <1>5, <1>6, <1>7

-----------------------------------------------------------------------------
(* The steps, in numbers.                                                  *)

(* A step that moves no thread past a count and no node.                   *)
Unmoved ==
  /\ UNCHANGED <<freeCount, stack>>
  /\ PopsDue' = PopsDue /\ PutsDue' = PutsDue /\ Putting' = Putting

LEMMA UnmovedSteps ==
  ASSUME PoolType, NEW t \in Threads,
         \/ PopLoad(t) \/ PopNext(t) \/ PopRetries(t) \/ PopMisses(t)
         \/ ReleaseDrops(t) \/ PushLoad(t) \/ PushRetries(t)
  PROVE  Unmoved
<1> DEFINE Elsewhere == {"idle", "pop_next", "pop_cas"}
<1>0. ASSUME NEW from \in Elsewhere, NEW to \in Elsewhere, Moves(from, to)
      PROVE  PopsDue' = PopsDue /\ PutsDue' = PutsDue /\ Putting' = Putting
  BY <1>0, NumType DEF Moves, One
<1>1. ASSUME PopLoad(t) PROVE Unmoved
  <2>1. /\ pc[t] = "idle" /\ pc' = [pc EXCEPT ![t] = "pop_next"]
        /\ UNCHANGED <<freeCount, stack>>
    BY <1>1 DEF PopLoad, At, memory, ghost
  <2>2. Moves("idle", "pop_next")
    BY <2>1, MoveCounts
  <2> QED BY <1>0, <2>1, <2>2 DEF Unmoved
<1>2. ASSUME PopNext(t) PROVE Unmoved
  <2>1. /\ pc[t] = "pop_next" /\ pc' = [pc EXCEPT ![t] = "pop_cas"]
        /\ UNCHANGED <<freeCount, stack>>
    BY <1>2 DEF PopNext, At, memory, ghost
  <2>2. Moves("pop_next", "pop_cas")
    BY <2>1, MoveCounts
  <2> QED BY <1>0, <2>1, <2>2 DEF Unmoved
<1>3. ASSUME PopRetries(t) PROVE Unmoved
  <2>1. /\ pc[t] = "pop_cas" /\ pc' = [pc EXCEPT ![t] = "pop_next"]
        /\ UNCHANGED <<freeCount, stack>>
    BY <1>3 DEF PopRetries, At, memory, ghost
  <2>2. Moves("pop_cas", "pop_next")
    BY <2>1, MoveCounts
  <2> QED BY <1>0, <2>1, <2>2 DEF Unmoved
<1>4. ASSUME PopMisses(t) PROVE Unmoved
  <2>1. /\ pc' = [pc EXCEPT ![t] = "idle"] /\ pc[t] \in {"idle", "pop_cas"}
        /\ UNCHANGED <<freeCount, stack>>
    BY <1>4 DEF PopMisses, Leave, At
  <2>2. Moves(pc[t], "idle")
    BY <2>1, MoveCounts
  <2> QED BY <1>0, <2>1, <2>2 DEF Unmoved
<1>5. ASSUME ReleaseDrops(t) PROVE Unmoved
  BY <1>5 DEF ReleaseDrops, memory, local, Unmoved,
              PopsDue, PutsDue, Putting, Num, In
<1>6. ASSUME PushLoad(t) PROVE Unmoved
  <2>1. /\ pc[t] = "push_load" /\ pc' = [pc EXCEPT ![t] = "push_cas"]
        /\ UNCHANGED <<freeCount, stack>>
    BY <1>6 DEF PushLoad, At, memory, ghost
  <2>2. Moves("push_load", "push_cas")
    BY <2>1, MoveCounts
  <2> QED BY <2>1, <2>2, NumType DEF Unmoved, Moves, One
<1>7. ASSUME PushRetries(t) PROVE Unmoved
  BY <1>7 DEF PushRetries, memory, ghost, Unmoved,
              PopsDue, PutsDue, Putting, Num, In
<1> QED BY <1>1, <1>2, <1>3, <1>4, <1>5, <1>6, <1>7

(* A pop takes a node now and counts it later (ObjectPool.hpp:96-111).     *)
LEMMA PopInNumbers ==
  ASSUME PoolType, NodesOnce, LinksFresh, StackSound,
         NEW t \in Threads, PopTakes(t)
  PROVE  /\ Len(stack) \in Nat /\ Len(stack)' = Len(stack) - 1
         /\ PopsDue' = PopsDue + 1
         /\ PutsDue' = PutsDue /\ Putting' = Putting
         /\ freeCount' = freeCount
<1>1. /\ stack # <<>> /\ stack' = Tail(stack)
      /\ pc' = [pc EXCEPT ![t] = "pop_count"]
  BY PopTakesFirst
<1>2. Len(stack) \in Nat \ {0} /\ Len(Tail(stack)) = Len(stack) - 1
  BY <1>1, TailElements DEF PoolType
<1>3. pc[t] = "pop_cas" /\ freeCount' = freeCount
  BY DEF PopTakes, At
<1>4. Moves(pc[t], "pop_count")
  BY <1>1, MoveCounts
<1> QED BY <1>1, <1>2, <1>3, <1>4, NumType DEF Moves, One

(* A push takes its place now and counts it later.                         *)
LEMMA PushInNumbers ==
  ASSUME PoolType, NodesOnce, NEW t \in Threads, PushPuts(t)
  PROVE  /\ Len(stack) \in Nat /\ Len(stack)' = Len(stack) + 1
         /\ PutsDue' = PutsDue + 1 /\ Putting' = Putting - 1
         /\ PopsDue' = PopsDue
         /\ freeCount' = freeCount
<1>1. /\ node[t] \in Node /\ stack' = <<node[t]>> \o stack
      /\ pc[t] = "push_cas" /\ pc' = [pc EXCEPT ![t] = "push_count"]
  BY PushPutsFirst
<1>2. Len(stack) \in Nat /\ Len(<<node[t]>> \o stack) = Len(stack) + 1
  BY <1>1, ConsElements DEF PoolType
<1>3. freeCount' = freeCount
  BY DEF PushPuts
<1>4. Moves(pc[t], "push_count")
  BY <1>1, MoveCounts
<1> QED BY <1>1, <1>2, <1>3, <1>4, NumType DEF Moves, One

(* The two late counts.                                                    *)
LEMMA CountsInNumbers ==
  ASSUME PoolType, CounterType, NEW t \in Threads
  PROVE  /\ PopCounts(t) =>
              /\ stack' = stack /\ PutsDue' = PutsDue /\ Putting' = Putting
              /\ PopsDue' = PopsDue - 1
              /\ freeCount' =
                   IF freeCount = 0 THEN Modulus - 1 ELSE freeCount - 1
         /\ PushCounts(t) =>
              /\ stack' = stack /\ PopsDue' = PopsDue /\ Putting' = Putting
              /\ PutsDue' = PutsDue - 1
              /\ freeCount' =
                   IF freeCount + 1 = Modulus THEN 0 ELSE freeCount + 1
<1>1. ASSUME PopCounts(t)
      PROVE  /\ stack' = stack /\ PutsDue' = PutsDue /\ Putting' = Putting
             /\ PopsDue' = PopsDue - 1
             /\ freeCount' =
                  IF freeCount = 0 THEN Modulus - 1 ELSE freeCount - 1
  <2>1. /\ pc[t] = "pop_count" /\ pc' = [pc EXCEPT ![t] = "idle"]
        /\ freeCount' = (freeCount + Modulus - 1) % Modulus
        /\ stack' = stack
    BY <1>1 DEF PopCounts, Leave, At, ghost
  <2>2. Moves(pc[t], "idle")
    BY <2>1, MoveCounts
  <2>3. PutsDue' = PutsDue /\ Putting' = Putting /\ PopsDue' = PopsDue - 1
    BY <2>1, <2>2, NumType DEF Moves, One
  <2> QED BY <2>1, <2>3, Wrapped DEF CounterType
<1>2. ASSUME PushCounts(t)
      PROVE  /\ stack' = stack /\ PopsDue' = PopsDue /\ Putting' = Putting
             /\ PutsDue' = PutsDue - 1
             /\ freeCount' =
                  IF freeCount + 1 = Modulus THEN 0 ELSE freeCount + 1
  <2>1. /\ pc[t] = "push_count" /\ pc' = [pc EXCEPT ![t] = "idle"]
        /\ freeCount' = (freeCount + 1) % Modulus
        /\ stack' = stack
    BY <1>2 DEF PushCounts, Leave, At, ghost
  <2>2. Moves(pc[t], "idle")
    BY <2>1, MoveCounts
  <2>3. PopsDue' = PopsDue /\ Putting' = Putting /\ PutsDue' = PutsDue - 1
    BY <2>1, <2>2, NumType DEF Moves, One
  <2> QED BY <2>1, <2>3, Wrapped DEF CounterType
<1> QED BY <1>1, <1>2

(* A release that found room is on its way to the stack.                   *)
LEMMA ReleaseInNumbers ==
  ASSUME PoolType, NodesOnce, NEW t \in Threads, ReleaseNode(t)
  PROVE  /\ pc[t] = "idle" /\ stack' = stack /\ freeCount' = freeCount
         /\ PutsDue' = PutsDue /\ PopsDue' = PopsDue
         /\ Putting' = Putting + 1
         /\ MaxSize = 0 \/ freeCount < MaxSize
<1>1. /\ pc[t] = "idle" /\ pc' = [pc EXCEPT ![t] = "push_load"]
      /\ stack' = stack
  BY ReleaseNodeIsNew
<1>2. freeCount' = freeCount /\ (MaxSize = 0 \/ freeCount < MaxSize)
  BY DEF ReleaseNode
<1>3. Moves(pc[t], "push_load")
  BY <1>1, MoveCounts
<1> QED BY <1>1, <1>2, <1>3, NumType DEF Moves, One

-----------------------------------------------------------------------------
LEMMA CounterLagsStep ==
  ASSUME PoolType, CounterType, NodesOnce, LinksFresh, StackSound,
         CounterLags, [Next]_vars
  PROVE  CounterLags'
<1>0. /\ Modulus \in Nat \ {0} /\ freeCount \in Nat
      /\ PopsDue \in Nat /\ PutsDue \in Nat /\ Len(stack) \in Nat
  BY PoolAssumption, NumType DEF CounterType, PoolType
<1>1. PICK k \in Int : freeCount + PutsDue = Len(stack) + PopsDue + k * Modulus
  BY DEF CounterLags
<1>2. k * Modulus \in Int /\ (k - 1) * Modulus = k * Modulus - Modulus
      /\ (k + 1) * Modulus = k * Modulus + Modulus
  BY <1>0
<1>3. ASSUME \E j \in {k - 1, k, k + 1} :
               freeCount' + PutsDue' = Len(stack)' + PopsDue' + j * Modulus
      PROVE  CounterLags'
  BY <1>3 DEF CounterLags
<1>4. ASSUME Unmoved PROVE CounterLags'
  BY <1>1, <1>3, <1>4 DEF Unmoved
<1>5. ASSUME NEW t \in Threads, PopTakes(t) PROVE CounterLags'
  <2>1. freeCount' + PutsDue' = Len(stack)' + PopsDue' + k * Modulus
    BY <1>0, <1>1, <1>2, <1>5, PopInNumbers
  <2> QED BY <2>1, <1>3
<1>6. ASSUME NEW t \in Threads, PushPuts(t) PROVE CounterLags'
  <2>1. freeCount' + PutsDue' = Len(stack)' + PopsDue' + k * Modulus
    BY <1>0, <1>1, <1>2, <1>6, PushInNumbers
  <2> QED BY <2>1, <1>3
<1>7. ASSUME NEW t \in Threads, PopCounts(t) PROVE CounterLags'
  <2>1. /\ stack' = stack /\ PutsDue' = PutsDue /\ PopsDue' = PopsDue - 1
        /\ freeCount' = IF freeCount = 0 THEN Modulus - 1 ELSE freeCount - 1
    BY <1>7, CountsInNumbers
  <2>2. CASE freeCount = 0
    <3>1. freeCount' + PutsDue' = Len(stack)' + PopsDue' + (k + 1) * Modulus
      BY <1>0, <1>1, <1>2, <2>1, <2>2
    <3> QED BY <3>1, <1>3
  <2>3. CASE freeCount # 0
    <3>1. freeCount' + PutsDue' = Len(stack)' + PopsDue' + k * Modulus
      BY <1>0, <1>1, <1>2, <2>1, <2>3
    <3> QED BY <3>1, <1>3
  <2> QED BY <2>2, <2>3
<1>8. ASSUME NEW t \in Threads, PushCounts(t) PROVE CounterLags'
  <2>1. /\ stack' = stack /\ PopsDue' = PopsDue /\ PutsDue' = PutsDue - 1
        /\ freeCount' = IF freeCount + 1 = Modulus THEN 0 ELSE freeCount + 1
    BY <1>8, CountsInNumbers
  <2>2. CASE freeCount + 1 = Modulus
    <3>1. freeCount' + PutsDue' = Len(stack)' + PopsDue' + (k - 1) * Modulus
      BY <1>0, <1>1, <1>2, <2>1, <2>2
    <3> QED BY <3>1, <1>3
  <2>3. CASE freeCount + 1 # Modulus
    <3>1. freeCount' + PutsDue' = Len(stack)' + PopsDue' + k * Modulus
      BY <1>0, <1>1, <1>2, <2>1, <2>3
    <3> QED BY <3>1, <1>3
  <2> QED BY <2>2, <2>3
<1>9. ASSUME NEW t \in Threads, ReleaseNode(t) PROVE CounterLags'
  <2>1. freeCount' + PutsDue' = Len(stack)' + PopsDue' + k * Modulus
    BY <1>1, <1>9, ReleaseInNumbers
  <2> QED BY <2>1, <1>3
<1>10. CASE UNCHANGED vars
  <2>1. Unmoved
    BY <1>10 DEF vars, memory, local, ghost, Unmoved,
                 PopsDue, PutsDue, Putting, Num, In
  <2> QED BY <2>1, <1>4
<1> QED
  BY <1>4, <1>5, <1>6, <1>7, <1>8, <1>9, <1>10, UnmovedSteps
  DEF Next, Acquire, Release

(* While reserve and the maximum stay below the counter's range, a release *)
(* that found room is right that there was: a counter that has run below   *)
(* zero is large and lets nobody push.                                     *)
LEMMA RoomIsThere ==
  ASSUME WideCounter, PoolType, CounterType, NodesOnce, CounterLags, RoomKept,
         NEW t \in Threads, ReleaseNode(t), MaxSize > 0
  PROVE  Len(stack) + PopsDue + Putting + 1 < MaxSize + Cardinality(Threads)
<1>0. /\ Modulus \in Nat \ {0} /\ freeCount \in Nat
      /\ PopsDue \in Nat /\ PutsDue \in Nat /\ Putting \in Nat
      /\ Len(stack) \in Nat /\ MaxSize \in Nat /\ Initial \in Nat
  BY PoolAssumption, NumType DEF CounterType, PoolType
<1>1. /\ Cardinality(Threads) \in Nat
      /\ PutsDue + Putting < Cardinality(Threads)
  BY ReleaseInNumbers, IdleLeft
<1>2. freeCount < MaxSize
  BY <1>0, ReleaseInNumbers
<1>3. PICK k \in Int : freeCount + PutsDue = Len(stack) + PopsDue + k * Modulus
  BY DEF CounterLags
<1>4. Len(stack) + PopsDue < Modulus
  BY <1>0, <1>1 DEF RoomKept, WideCounter
<1>5. k = 0
  <2>1. k \geq 1 => k * Modulus \geq Modulus
    BY <1>0
  <2>2. k <= -1 => k * Modulus <= -Modulus
    BY <1>0
  <2>3. k * Modulus \in Int
    BY <1>0
  <2>4. ~(k * Modulus <= -Modulus)
    BY <1>0, <1>3, <1>4, <2>3
  <2>5. ~(k * Modulus \geq Modulus)
    BY <1>0, <1>1, <1>2, <1>3, <2>3 DEF WideCounter
  <2> QED BY <2>1, <2>2, <2>4, <2>5
<1>6. freeCount + PutsDue = Len(stack) + PopsDue
  BY <1>0, <1>3, <1>5
<1> QED BY <1>0, <1>1, <1>2, <1>6

LEMMA RoomKeptStep ==
  ASSUME WideCounter, PoolType, CounterType, NodesOnce, LinksFresh, StackSound,
         CounterLags, RoomKept, [Next]_vars
  PROVE  RoomKept'
<1>0. /\ PopsDue \in Nat /\ PutsDue \in Nat /\ Putting \in Nat
      /\ Len(stack) \in Nat /\ MaxSize \in Nat /\ Initial \in Nat
      /\ Cardinality(Threads) \in Nat
  BY PoolAssumption, NumType, FS_CardinalityType DEF PoolType
<1>1. ASSUME Unmoved PROVE RoomKept'
  BY <1>1 DEF Unmoved, RoomKept
<1>2. ASSUME NEW t \in Threads, PopTakes(t) PROVE RoomKept'
  BY <1>0, <1>2, PopInNumbers DEF RoomKept
<1>3. ASSUME NEW t \in Threads, PushPuts(t) PROVE RoomKept'
  BY <1>0, <1>3, PushInNumbers DEF RoomKept
<1>4. ASSUME NEW t \in Threads, PopCounts(t) \/ PushCounts(t) PROVE RoomKept'
  BY <1>0, <1>4, CountsInNumbers DEF RoomKept
<1>5. ASSUME NEW t \in Threads, ReleaseNode(t) PROVE RoomKept'
  <2>1. ASSUME MaxSize > 0
        PROVE  Len(stack)' + PopsDue' + Putting' < MaxSize + Cardinality(Threads)
    BY <1>0, <1>5, <2>1, ReleaseInNumbers, RoomIsThere
  <2> QED BY <2>1 DEF RoomKept
<1>6. CASE UNCHANGED vars
  <2>1. Unmoved
    BY <1>6 DEF vars, memory, local, ghost, Unmoved,
                 PopsDue, PutsDue, Putting, Num, In
  <2> QED BY <2>1, <1>1
<1> QED
  BY <1>1, <1>2, <1>3, <1>4, <1>5, <1>6, UnmovedSteps DEF Next, Acquire, Release

LEMMA NumInit ==
  ASSUME Init
  PROVE  /\ PopsDue = 0 /\ PutsDue = 0 /\ Putting = 0
         /\ Len(stack) = Initial /\ freeCount = Initial % Modulus
<1>1. In({"pop_count"}) = {} /\ In({"push_count"}) = {}
      /\ In({"push_load", "push_cas"}) = {}
  BY DEF Init, In
<1>2. Len(stack) = Initial /\ freeCount = Initial % Modulus
  BY PoolAssumption DEF Init
<1> QED BY <1>1, <1>2, FS_EmptySet DEF PopsDue, PutsDue, Putting, Num

(* The counter only ever lags: in every execution it is, up to what it has *)
(* wrapped, the free objects but for the calls that have still to count    *)
(* (ObjectPool.hpp:109, 153).                                              *)
THEOREM CounterOnlyLags == Spec => [](IInv /\ CounterLags)
<1>1. Init => CounterLags
  <2> SUFFICES ASSUME Init PROVE CounterLags
    OBVIOUS
  <2>1. Modulus \in Nat \ {0} /\ Initial \in Nat
    BY PoolAssumption
  <2>2. Initial = Modulus * (Initial \div Modulus) + (Initial % Modulus)
    BY <2>1
  <2>3. Initial \div Modulus \in Int /\ Initial % Modulus \in Int
    BY <2>1
  <2> DEFINE q == -(Initial \div Modulus)
  <2>4. q \in Int /\ Initial % Modulus = Initial + q * Modulus
    BY <2>1, <2>2, <2>3
  <2> HIDE DEF q
  <2>5. freeCount + PutsDue = Len(stack) + PopsDue + q * Modulus
    BY <2>1, <2>3, <2>4, NumInit
  <2> QED BY <2>4, <2>5 DEF CounterLags
<1>2. IInv /\ CounterLags /\ [Next]_vars => CounterLags'
  <2>1. IInv => PoolType /\ CounterType
    BY TypeParts DEF IInv, NodesOnce
  <2> QED BY <2>1, CounterLagsStep DEF IInv
<1> QED BY <1>1, <1>2, InvInit, InvStep, PTL DEF Spec

(* When no call is under way the counter is the number of free objects,    *)
(* modulo its width, whatever the calls were and however they interleaved  *)
(* (ObjectPool.hpp:109, 153).                                              *)
THEOREM CounterSettles == Spec => []CountSettles
<1>1. IInv /\ CounterLags => CountSettles
  <2> SUFFICES ASSUME IInv, CounterLags, \A t \in Threads : pc[t] = "idle"
               PROVE  freeCount = Len(stack) % Modulus
    BY DEF CountSettles
  <2>1. In({"pop_count"}) = {} /\ In({"push_count"}) = {}
    BY DEF In
  <2>2. PopsDue = 0 /\ PutsDue = 0
    BY <2>1, FS_EmptySet DEF PopsDue, PutsDue, Num
  <2>3. /\ freeCount \in 0..(Modulus - 1) /\ Modulus \in Nat \ {0}
        /\ Len(stack) \in Nat
    BY PoolAssumption DEF IInv, TypeOK
  <2>4. PICK k \in Int : freeCount + 0 = Len(stack) + 0 + k * Modulus
    BY <2>2 DEF CounterLags
  <2>5. Len(stack) = freeCount + (-k) * Modulus
    BY <2>3, <2>4
  <2> QED BY <2>3, <2>5, Remainder
<1> QED BY <1>1, CounterOnlyLags, PTL

(* With a counter wide enough for the objects, the pool passes its maximum *)
(* by less than one object for each thread, or holds no more than reserve  *)
(* put into it (ObjectPool.hpp:142-154).                                   *)
THEOREM PoolStaysBounded ==
  ASSUME WideCounter
  PROVE  Spec => []PoolBounded
<1>1. Init => RoomKept
  BY NumInit, PoolAssumption DEF RoomKept
<1>2. IInv /\ CounterLags /\ RoomKept /\ [Next]_vars => RoomKept'
  <2>1. IInv => PoolType /\ CounterType
    BY TypeParts DEF IInv, NodesOnce
  <2> QED BY <2>1, RoomKeptStep, WideCounter DEF IInv
<1>3. IInv /\ RoomKept => PoolBounded
  <2> SUFFICES ASSUME IInv, RoomKept PROVE PoolBounded
    OBVIOUS
  <2>1. /\ PopsDue \in Nat /\ Putting \in Nat /\ Len(stack) \in Nat
        /\ MaxSize \in Nat /\ Initial \in Nat /\ Cardinality(Threads) \in Nat
    BY PoolAssumption, NumType, FS_CardinalityType DEF IInv, TypeOK
  <2> QED BY <2>1 DEF RoomKept, PoolBounded
<1> QED BY <1>1, <1>2, <1>3, CounterOnlyLags, PTL DEF Spec
=============================================================================
