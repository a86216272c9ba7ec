------------------------------ MODULE ObjectPool ------------------------------
(***************************************************************************)
(* engine/common/ObjectPool: free objects kept on a lock-free stack of     *)
(* nodes, with a relaxed counter of them beside it.                        *)
(*                                                                         *)
(* Every thread acquires and releases; an object may be released by        *)
(* another thread than the one that acquired it.  A call is split at its   *)
(* atomic accesses to _head and _freeCount and at the read of head->next.  *)
(* The link a push writes before its CAS is seen by nobody unless the CAS  *)
(* succeeds, so the two are one step; a CAS that fails for no reason       *)
(* retries with the values it had and is no step at all.  Nodes and        *)
(* objects are numbered in the order they are allocated and never freed    *)
(* (_ownedNodes, _ownedObjects).                                           *)
(***************************************************************************)
EXTENDS Naturals, Sequences, FiniteSets

CONSTANTS
  Threads,    \* the threads that share the pool
  MaxSize,    \* _maxSize, 0 for unlimited
  Initial,    \* the objects reserve() has put in the pool
  Modulus,    \* 2^64, at which size_t wraps
  MaxNodes,   \* bound: nodes allocated
  MaxObjs     \* bound: objects allocated

ASSUME PoolAssumption ==
  /\ IsFiniteSet(Threads)
  /\ MaxSize \in Nat /\ Initial \in Nat
  /\ Modulus \in Nat \ {0}
  /\ MaxNodes \in Nat /\ MaxObjs \in Nat
  /\ Initial <= MaxNodes /\ Initial <= MaxObjs

VARIABLES
  head,       \* _head: a node, or Null
  next,       \* next[n]: the node's next
  objOf,      \* objOf[n]: the node's obj
  spare,      \* the nodes in _nodePool
  nodes,      \* _allocCountNode
  objs,       \* _allocCountObj
  freeCount,  \* _freeCount
  pc,         \* where each thread is in its call
  node,       \* the thread's node: head in a pop, the new node in a push
  link,       \* the thread's next in a pop, old in a push
  given,      \* the object the thread is releasing
  held,       \* history: the objects callers have, or are giving back
  stack,      \* history: the nodes pushed and not popped, by the CASes
  wasted      \* history: a release dropped its object with room to spare

memory == <<head, next, objOf, spare, nodes, objs, freeCount>>
local  == <<pc, node, link, given>>
ghost  == <<held, stack, wasted>>
vars   == <<memory, local, ghost>>

Null == 0
Node == 1..MaxNodes
Obj  == 1..MaxObjs

\* After reserve(Initial): the nodes in the order they were pushed.
Init ==
  /\ head = Initial
  /\ next = [n \in Node |-> IF n <= Initial THEN n - 1 ELSE Null]
  /\ objOf = [n \in Node |-> IF n <= Initial THEN n ELSE 0]
  /\ spare = {} /\ nodes = Initial /\ objs = Initial
  /\ freeCount = Initial % Modulus
  /\ pc = [t \in Threads |-> "idle"]
  /\ node = [t \in Threads |-> Null]
  /\ link = [t \in Threads |-> Null]
  /\ given = [t \in Threads |-> 0]
  /\ held = {} /\ wasted = FALSE
  /\ stack = [i \in 1..Initial |-> Initial + 1 - i]

At(t, from, to) == pc[t] = from /\ pc' = [pc EXCEPT ![t] = to]

Leave(t, from) ==
  /\ At(t, from, "idle")
  /\ node' = [node EXCEPT ![t] = Null]
  /\ link' = [link EXCEPT ![t] = Null]
  /\ given' = [given EXCEPT ![t] = 0]

-----------------------------------------------------------------------------
(* acquire, acquirePtr: popNodeFromHead, then fetch_sub.                   *)

PopLoad(t) ==
  /\ head # Null
  /\ At(t, "idle", "pop_next")
  /\ node' = [node EXCEPT ![t] = head]
  /\ UNCHANGED <<memory, link, given, ghost>>

PopNext(t) ==
  /\ At(t, "pop_next", "pop_cas")
  /\ link' = [link EXCEPT ![t] = next[node[t]]]
  /\ UNCHANGED <<memory, node, given, ghost>>

\* Mutant: the node goes back to _nodePool for the next push.
PopRecycles(t) ==
  /\ At(t, "pop_cas", "pop_count")
  /\ head = node[t]
  /\ head' = link[t]
  /\ spare' = spare \cup {node[t]}
  /\ held' = held \cup {objOf[node[t]]}
  /\ stack' = IF stack = <<>> THEN stack ELSE Tail(stack)
  /\ UNCHANGED <<next, objOf, nodes, objs, freeCount,
                 node, link, given, wasted>>

\* Mutant: _head is stored whatever it has become.
PopBlindly(t) ==
  /\ At(t, "pop_cas", "pop_count")
  /\ head' = link[t]
  /\ held' = held \cup {objOf[node[t]]}
  /\ stack' = IF stack = <<>> THEN stack ELSE Tail(stack)
  /\ UNCHANGED <<next, objOf, spare, nodes, objs, freeCount,
                 node, link, given, wasted>>

PopTakes(t) ==
  /\ At(t, "pop_cas", "pop_count")
  /\ head = node[t]
  /\ head' = link[t]
  /\ held' = held \cup {objOf[node[t]]}
  /\ stack' = IF stack = <<>> THEN stack ELSE Tail(stack)
  /\ UNCHANGED <<next, objOf, spare, nodes, objs, freeCount,
                 node, link, given, wasted>>

\* The failed CAS has loaded _head again.
PopRetries(t) ==
  /\ head # node[t] /\ head # Null
  /\ At(t, "pop_cas", "pop_next")
  /\ node' = [node EXCEPT ![t] = head]
  /\ UNCHANGED <<memory, link, given, ghost>>

\* Mutant: a failed CAS counts as a miss.
PopGivesUp(t) ==
  /\ objs < MaxObjs
  /\ \/ head = Null /\ Leave(t, "idle")
     \/ head # node[t] /\ Leave(t, "pop_cas")
  /\ objs' = objs + 1
  /\ held' = held \cup {objs'}
  /\ UNCHANGED <<head, next, objOf, spare, nodes, freeCount, stack, wasted>>

\* _head was null at the first load or at a failed CAS: a new object.
PopMisses(t) ==
  /\ head = Null /\ objs < MaxObjs
  /\ Leave(t, "idle") \/ Leave(t, "pop_cas")
  /\ objs' = objs + 1
  /\ held' = held \cup {objs'}
  /\ UNCHANGED <<head, next, objOf, spare, nodes, freeCount, stack, wasted>>

\* Mutant: the counter saturates at zero.
PopCountsDown(t) ==
  /\ Leave(t, "pop_count")
  /\ freeCount' = IF freeCount = 0 THEN 0 ELSE freeCount - 1
  /\ UNCHANGED <<head, next, objOf, spare, nodes, objs, ghost>>

PopCounts(t) ==
  /\ Leave(t, "pop_count")
  /\ freeCount' = (freeCount + Modulus - 1) % Modulus
  /\ UNCHANGED <<head, next, objOf, spare, nodes, objs, ghost>>

-----------------------------------------------------------------------------
(* release: the test of the size, a node, pushNodeToHead, then fetch_add.  *)

\* An object is released once: no other thread is releasing it.
Returnable == held \ {given[t] : t \in Threads}

\* The objects in the pool, and those a pop has taken and not yet counted.
Uncounted == {t \in Threads : pc[t] = "pop_count"}
RoomLeft  == Len(stack) + Cardinality(Uncounted) < MaxSize

ReleaseDrops(t) ==
  /\ pc[t] = "idle"
  /\ MaxSize > 0 /\ freeCount >= MaxSize
  /\ \E o \in Returnable : held' = held \ {o}
  /\ wasted' = (wasted \/ RoomLeft)
  /\ UNCHANGED <<memory, local, stack>>

\* Mutant: one object too many.
ReleaseOneMore(t) ==
  /\ freeCount <= MaxSize
  /\ nodes < MaxNodes
  /\ At(t, "idle", "push_load")
  /\ nodes' = nodes + 1
  /\ \E o \in Returnable : /\ objOf' = [objOf EXCEPT ![nodes'] = o]
                           /\ given' = [given EXCEPT ![t] = o]
  /\ next' = [next EXCEPT ![nodes'] = Null]
  /\ node' = [node EXCEPT ![t] = nodes']
  /\ UNCHANGED <<head, spare, objs, freeCount, link, ghost>>

\* popNodeFromNodePool, else a new node.  Nothing ever calls
\* pushNodeToNodePool, so the node is always new.
ReleaseNode(t) ==
  LET n == IF spare = {} THEN nodes + 1 ELSE CHOOSE s \in spare : TRUE
  IN  /\ MaxSize = 0 \/ freeCount < MaxSize
      /\ n <= MaxNodes
      /\ At(t, "idle", "push_load")
      /\ \E o \in Returnable : /\ objOf' = [objOf EXCEPT ![n] = o]
                               /\ given' = [given EXCEPT ![t] = o]
      /\ next' = [next EXCEPT ![n] = Null]
      /\ spare' = spare \ {n}
      /\ nodes' = IF spare = {} THEN n ELSE nodes
      /\ node' = [node EXCEPT ![t] = n]
      /\ UNCHANGED <<head, objs, freeCount, link, ghost>>

PushLoad(t) ==
  /\ At(t, "push_load", "push_cas")
  /\ link' = [link EXCEPT ![t] = head]
  /\ UNCHANGED <<memory, node, given, ghost>>

PushPuts(t) ==
  /\ head = link[t]
  /\ At(t, "push_cas", "push_count")
  /\ head' = node[t]
  /\ next' = [next EXCEPT ![node[t]] = link[t]]
  /\ held' = held \ {given[t]}
  /\ given' = [given EXCEPT ![t] = 0]
  /\ stack' = <<node[t]>> \o stack
  /\ UNCHANGED <<objOf, spare, nodes, objs, freeCount, node, link, wasted>>

PushRetries(t) ==
  /\ head # link[t]
  /\ pc[t] = "push_cas"
  /\ link' = [link EXCEPT ![t] = head]
  /\ UNCHANGED <<memory, pc, node, given, ghost>>

\* Mutant: the counter does not wrap.
PushCountsOn(t) ==
  /\ Leave(t, "push_count")
  /\ freeCount' = freeCount + 1
  /\ UNCHANGED <<head, next, objOf, spare, nodes, objs, ghost>>

PushCounts(t) ==
  /\ Leave(t, "push_count")
  /\ freeCount' = (freeCount + 1) % Modulus
  /\ UNCHANGED <<head, next, objOf, spare, nodes, objs, ghost>>

-----------------------------------------------------------------------------
Acquire(t) == \/ PopLoad(t) \/ PopNext(t) \/ PopTakes(t) \/ PopRetries(t)
              \/ PopMisses(t) \/ PopCounts(t)

Release(t) == \/ ReleaseDrops(t) \/ ReleaseNode(t) \/ PushLoad(t)
              \/ PushPuts(t) \/ PushRetries(t) \/ PushCounts(t)

Next == \E t \in Threads : Acquire(t) \/ Release(t)

Spec == Init /\ [][Next]_vars

-----------------------------------------------------------------------------
TypeOK ==
  /\ head \in Node \cup {Null}
  /\ next \in [Node -> Node \cup {Null}]
  /\ objOf \in [Node -> Obj \cup {0}]
  /\ spare \subseteq Node
  /\ nodes \in 0..MaxNodes /\ objs \in 0..MaxObjs
  /\ freeCount \in 0..(Modulus - 1)
  /\ pc \in [Threads -> {"idle", "pop_next", "pop_cas", "pop_count",
                         "push_load", "push_cas", "push_count"}]
  /\ node \in [Threads -> Node \cup {Null}]
  /\ link \in [Threads -> Node \cup {Null}]
  /\ given \in [Threads -> Obj \cup {0}]
  /\ held \subseteq Obj
  /\ stack \in Seq(Node)
  /\ wasted \in BOOLEAN

(* The links from _head are the stack that the successful CASes have       *)
(* built, whatever the interleaving: no push is overwritten, no pop puts   *)
(* back a stale link (ObjectPool.hpp:188-206).                             *)
StackSound ==
  /\ head = IF stack = <<>> THEN Null ELSE stack[1]
  /\ \A i \in DOMAIN stack :
       next[stack[i]] = IF i = Len(stack) THEN Null ELSE stack[i + 1]

(* No object is handed to a caller while another still has it: what is in  *)
(* the pool is in use by nobody, and is in the pool once.                  *)
NoObjectTwice ==
  /\ \A i, j \in DOMAIN stack :
       objOf[stack[i]] = objOf[stack[j]] => i = j
  /\ \A i \in DOMAIN stack : objOf[stack[i]] \notin held

(* When no call is under way the counter is the number of free objects,    *)
(* although it lags behind the stack and passes below zero.                *)
CountSettles ==
  (\A t \in Threads : pc[t] = "idle") => freeCount = Len(stack) % Modulus

(* The size is tested before the push and not with it, yet the pool        *)
(* exceeds its maximum by less than one object for each thread.            *)
PoolBounded ==
  MaxSize > 0 =>
    \/ Len(stack) < MaxSize + Cardinality(Threads)
    \/ Len(stack) <= Initial

(* An object is given up only when the maximum is reached                  *)
(* (ObjectPool.hpp:145, "maxSize reached").                                *)
DropsOnlyWhenFull == ~wasted

(* The pool implements a stack of free objects: a miss only when the pool  *)
(* is empty, and each hit the object that was released last.               *)
Stack == INSTANCE FreeList
           WITH free <- [i \in DOMAIN stack |-> objOf[stack[i]]],
                used <- held

StackSpec == Stack!Spec
=============================================================================
