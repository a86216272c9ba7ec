------------------------------ MODULE TimerHeap ------------------------------
(***************************************************************************)
(* engine/common/Timer over engine/common/Heap: timers kept in a binary    *)
(* min heap of linked nodes, in order of m_time.                           *)
(*                                                                         *)
(* One thread makes every call.  update() fires up to ten due timers, and  *)
(* the callback of each may start, stop and destroy timers before update() *)
(* goes on, so an iteration of update() is a step and the callback's     *)
(* calls are further steps.  A timer's node is named by its timer.  A      *)
(* timer out of the heap has its pointers, m_repeat and history at rest:   *)
(* start() and heap_insert set them before anything reads them.  Nobody    *)
(* starts a timer that is in the heap, nor destroys the timer whose        *)
(* callback runs.                                                          *)
(***************************************************************************)
EXTENDS Naturals

CONSTANTS
  Timers,     \* the Timer objects
  Nil,        \* NULL
  Doomed,     \* the timers somebody destroys
  Timeouts,   \* the timeouts of start
  Repeats,    \* Repeats[t]: the repeats t is started with; 0 for none
  Batch,      \* the timers one update() fires, 10 in the code
  Width,      \* 2^32, at which m_time and iclock() wrap
  MaxClock    \* bound: the milliseconds of a behaviour

ASSUME TimerAssumption ==
  /\ Nil \notin Timers /\ Doomed \subseteq Timers
  /\ Timeouts \subseteq Nat /\ Repeats \in [Timers -> SUBSET Nat]
  /\ Batch \in Nat /\ Width \in Nat \ {0} /\ MaxClock \in Nat

VARIABLES
  heap,       \* gRootHeap, with the three pointers of each node
  mtime,      \* m_time
  repeat,     \* m_repeat
  alive,      \* the timers not destroyed
  left,       \* the iterations update() has left
  running,    \* the timer whose callback runs, or Nil
  clock,      \* the milliseconds behind XTime::iclock()
  due,        \* history: the time each timer was to fire at
  odd         \* history: an m_time was not that time, or was 0

settings == <<mtime, repeat, due>>
vars     == <<heap, settings, alive, left, running, clock, odd>>

Empty == [min |-> Nil, nelts |-> 0,
          left   |-> [x \in Timers |-> Nil],
          right  |-> [x \in Timers |-> Nil],
          parent |-> [x \in Timers |-> Nil]]

-----------------------------------------------------------------------------
(* Heap.cpp                                                                *)

\* The node at place n, counted from 1 by rows from the root: path holds the
\* bits of n, the highest after the first one taken first.
NodeAt(h, n) ==
  LET at[k \in 1..n] ==
        IF k = 1 THEN h.min
        ELSE IF k % 2 = 0 THEN h.left[at[k \div 2]] ELSE h.right[at[k \div 2]]
  IN  at[n]

\* A node's place in the tree is given to c, or emptied with c = Nil:
\* the link of its parent, or the root.
Replace(h, x, c) ==
  LET up == h.parent[x] IN
  IF up = Nil THEN [h EXCEPT !.min = c]
  ELSE IF h.left[up] = x THEN [h EXCEPT !.left[up] = c]
  ELSE [h EXCEPT !.right[up] = c]

\* The nodes in S, if any, get p as their parent.
Adopt(h, S, p) ==
  [h EXCEPT !.parent = [x \in Timers |-> IF x \in S THEN p ELSE @[x]]]

\* Mutant: the sibling keeps its parent.
SwapLosesSibling(h, p, c) ==
  LET onLeft == h.left[p] = c
      h1 == Replace(h, p, c)
      h2 == Adopt(h1, {h.left[c], h.right[c]}, p)
      h3 == [h2 EXCEPT !.parent[c] = h.parent[p], !.parent[p] = c]
  IN  [h3 EXCEPT !.left[p] = h.left[c], !.right[p] = h.right[c],
                 !.left[c] = IF onLeft THEN p ELSE h.left[p],
                 !.right[c] = IF onLeft THEN h.right[p] ELSE p]

\* heap_node_swap: child c and its parent p change places.
Swap(h, p, c) ==
  LET onLeft  == h.left[p] = c
      sibling == IF onLeft THEN h.right[p] ELSE h.left[p]
      h1 == Replace(h, p, c)
      h2 == Adopt(Adopt(h1, {sibling}, c), {h.left[c], h.right[c]}, p)
      h3 == [h2 EXCEPT !.parent[c] = h.parent[p], !.parent[p] = c]
  IN  [h3 EXCEPT !.left[p] = h.left[c], !.right[p] = h.right[c],
                 !.left[c] = IF onLeft THEN p ELSE h.left[p],
                 !.right[c] = IF onLeft THEN h.right[p] ELSE p]

\* An iteration of the walk up, with the m_time of each timer; none when the
\* loop has ended.
UpOnce(h, x, tm) ==
  LET p == h.parent[x] IN
  IF p # Nil /\ tm[x] < tm[p] THEN Swap(h, p, x) ELSE h

\* An iteration of the walk down, to the smaller child.
DownOnce(h, x, tm) ==
  LET l == h.left[x]
      r == h.right[x]
      a == IF l # Nil /\ tm[l] < tm[x] THEN l ELSE x
      smallest == IF r # Nil /\ tm[r] < tm[a] THEN r ELSE a
  IN  IF smallest = x THEN h ELSE Swap(h, x, smallest)

\* The walks: a tree of nelts nodes ends either loop within nelts iterations.
SiftUp(h, x, tm) ==
  LET walk[k \in 0..h.nelts] ==
        IF k = 0 THEN h ELSE UpOnce(walk[k - 1], x, tm)
  IN  walk[h.nelts]

SiftDown(h, x, tm) ==
  LET walk[k \in 0..h.nelts] ==
        IF k = 0 THEN h ELSE DownOnce(walk[k - 1], x, tm)
  IN  walk[h.nelts]

\* heap_insert
Insert(h, x, tm) ==
  LET n == h.nelts + 1
      p == IF n = 1 THEN Nil ELSE NodeAt(h, n \div 2)
      h1 == [h EXCEPT !.nelts = n, !.parent[x] = p]
      h2 == IF p = Nil THEN [h1 EXCEPT !.min = x]
            ELSE IF n % 2 = 0 THEN [h1 EXCEPT !.left[p] = x]
            ELSE [h1 EXCEPT !.right[p] = x]
  IN  SiftUp(h2, x, tm)

Clear(h, x) ==
  [h EXCEPT !.left[x] = Nil, !.right[x] = Nil, !.parent[x] = Nil]

\* heap_remove up to the walks: the last node takes the place of x.
TakeOut(h, x) ==
  LET last == NodeAt(h, h.nelts)
      h1 == Replace([h EXCEPT !.nelts = @ - 1], last, Nil)
      h2 == Replace(h1, x, last)
      h3 == Adopt(h2, {h1.left[x], h1.right[x]}, last)
      h4 == [h3 EXCEPT !.left[last] = h1.left[x], !.right[last] = h1.right[x],
                       !.parent[last] = h1.parent[x]]
  IN  IF last = x THEN h1 ELSE h4

\* Mutant: no walk up after a removal.
RemoveDownOnly(h, x, tm) ==
  LET last == NodeAt(h, h.nelts)
      h1 == TakeOut(h, x)
  IN  IF h.nelts = 0 THEN h
      ELSE Clear(IF last = x THEN h1 ELSE SiftDown(h1, last, tm), x)

\* heap_remove
Remove(h, x, tm) ==
  LET last == NodeAt(h, h.nelts)
      h1 == TakeOut(h, x)
  IN  IF h.nelts = 0 THEN h
      ELSE Clear(IF last = x THEN h1
                 ELSE SiftUp(SiftDown(h1, last, tm), last, tm), x)

-----------------------------------------------------------------------------
(* Timer.cpp                                                               *)

\* The conversion to 32 bits drops the rest of the milliseconds.  The clock is
\* std::clock, the processor time of the program.
iclock == clock % Width

Members == {x \in Timers : x = heap.min \/ heap.parent[x] # Nil}

\* Mutant: m_time is as wide as the time.
TimeForWide(d) == d

\* m_time for the real time d, and whether it is a time the code can use.
TimeFor(d) == d % Width
Odd(d) == TimeFor(d) # d \/ d = 0

\* Outside update(), or inside a callback.
MayCall == left = 0 \/ running # Nil

Init ==
  /\ heap = Empty
  /\ mtime = [t \in Timers |-> 0]
  /\ repeat = [t \in Timers |-> 0]
  /\ alive = Timers /\ left = 0 /\ running = Nil /\ clock = 0
  /\ due = [t \in Timers |-> 0] /\ odd = FALSE

start(t, timeout, rep) ==
  /\ MayCall /\ t \in alive \ Members
  /\ due' = [due EXCEPT ![t] = clock + timeout]
  /\ mtime' = [mtime EXCEPT ![t] = TimeFor(clock + timeout)]
  /\ repeat' = [repeat EXCEPT ![t] = rep]
  /\ heap' = Insert(heap, t, mtime')
  /\ odd' = (odd \/ Odd(clock + timeout))
  /\ UNCHANGED <<alive, left, running, clock>>

\* stop() of a timer whose m_time is 0 does nothing.
Stopped(t) ==
  IF mtime[t] = 0
  THEN UNCHANGED <<heap, settings>>
  ELSE /\ mtime' = [mtime EXCEPT ![t] = 0]
       /\ heap' = Remove(heap, t, mtime')
       /\ repeat' = [repeat EXCEPT ![t] = 0]
       /\ due' = [due EXCEPT ![t] = 0]

stop(t) ==
  /\ MayCall /\ t \in alive
  /\ Stopped(t)
  /\ UNCHANGED <<alive, left, running, clock, odd>>

\* Mutant: the destructor does not stop the timer.
destroyUnstopped(t) ==
  /\ MayCall /\ t \in (alive \cap Doomed) \ {running}
  /\ alive' = alive \ {t}
  /\ UNCHANGED <<heap, settings, left, running, clock, odd>>

\* The destructor stops the timer and frees its node.  It has set the node's
\* user to NULL before that, but no walk compares the node being removed.
destroy(t) ==
  /\ MayCall /\ t \in (alive \cap Doomed) \ {running}
  /\ Stopped(t)
  /\ alive' = alive \ {t}
  /\ UNCHANGED <<left, running, clock, odd>>

update ==
  /\ left = 0 /\ running = Nil
  /\ left' = Batch
  /\ UNCHANGED <<heap, settings, alive, running, clock, odd>>

\* An iteration that fires the first timer.  The clock is read again for
\* the next time of a repeating one.
Rearm(t, h) ==
  IF repeat[t] = 0
  THEN /\ heap' = h
       /\ mtime' = [mtime EXCEPT ![t] = 0]
       /\ due' = [due EXCEPT ![t] = 0]
       /\ UNCHANGED odd
  ELSE /\ due' = [due EXCEPT ![t] = clock' + repeat[t]]
       /\ mtime' = [mtime EXCEPT ![t] = TimeFor(clock' + repeat[t])]
       /\ heap' = Insert(h, t, mtime')
       /\ odd' = (odd \/ Odd(clock' + repeat[t]))

\* Mutant: a timer fires before its time.
fireEarly ==
  LET t == heap.min IN
  /\ left > 0 /\ running = Nil
  /\ t # Nil
  /\ clock' \in {clock, clock + 1} /\ clock' <= MaxClock
  /\ Rearm(t, Remove(heap, t, mtime))
  /\ left' = left - 1 /\ running' = t
  /\ UNCHANGED <<repeat, alive>>

fire ==
  LET t == heap.min IN
  /\ left > 0 /\ running = Nil
  /\ t # Nil /\ iclock >= mtime[t]
  /\ clock' \in {clock, clock + 1} /\ clock' <= MaxClock
  /\ Rearm(t, Remove(heap, t, mtime))
  /\ left' = left - 1 /\ running' = t
  /\ UNCHANGED <<repeat, alive>>

callbackReturns ==
  /\ running # Nil /\ running' = Nil
  /\ UNCHANGED <<heap, settings, alive, left, clock, odd>>

\* The first timer is not due, or there is none.
updateBreaks ==
  /\ left > 0 /\ running = Nil
  /\ heap.min # Nil => iclock < mtime[heap.min]
  /\ left' = 0
  /\ UNCHANGED <<heap, settings, alive, running, clock, odd>>

Tick ==
  /\ clock < MaxClock /\ clock' = clock + 1
  /\ UNCHANGED <<heap, settings, alive, left, running, odd>>

\* The heap has no node that was freed.  What the program does once it has
\* one is undefined, and no step of the model.
Intact == Members \subseteq alive

Next ==
  /\ Intact
  /\ \/ \E t \in Timers :
          \/ \E timeout \in Timeouts, rep \in Repeats[t] : start(t, timeout, rep)
          \/ stop(t) \/ destroy(t)
     \/ update \/ fire \/ callbackReturns \/ updateBreaks \/ Tick

Spec == Init /\ [][Next]_vars

-----------------------------------------------------------------------------
TypeOK ==
  /\ heap.min \in Timers \cup {Nil} /\ heap.nelts \in Nat
  /\ heap.left \in [Timers -> Timers \cup {Nil}]
  /\ heap.right \in [Timers -> Timers \cup {Nil}]
  /\ heap.parent \in [Timers -> Timers \cup {Nil}]
  /\ mtime \in [Timers -> 0..(Width - 1)]
  /\ \A t \in Timers : repeat[t] \in Repeats[t] \cup {0}
  /\ alive \subseteq Timers
  /\ left \in 0..Batch /\ running \in Timers \cup {Nil}
  /\ clock \in 0..MaxClock
  /\ due \in [Timers -> Nat] /\ odd \in BOOLEAN

(* The nodes are a complete binary tree whose links agree in both          *)
(* directions, whatever was inserted and removed (Heap.h, "it's always a   *)
(* complete binary tree"): a heap of n has a node at each place up to n,   *)
(* none beyond, and no node twice.                                         *)
CompleteTree ==
  /\ \A n \in 1..heap.nelts : NodeAt(heap, n) \in Members
  /\ \A n, m \in 1..heap.nelts : NodeAt(heap, n) = NodeAt(heap, m) => n = m
  /\ \A x \in Members : \E n \in 1..heap.nelts : NodeAt(heap, n) = x
  /\ heap.min # Nil => heap.parent[heap.min] = Nil
  /\ \A x \in Members : \A c \in {heap.left[x], heap.right[x]} \ {Nil} :
       heap.parent[c] = x

(* No timer is due before its parent: the root is the first (Heap.h, "the  *)
(* root is the lowest element in the set"), although stop() changes the    *)
(* key of a node that is still in the heap.                                *)
FirstAtTheRoot ==
  \A x \in Members : heap.parent[x] # Nil => mtime[heap.parent[x]] <= mtime[x]

(* The heap keeps the node of a destroyed timer in one case only: the      *)
(* timer was armed for a moment at which the 32-bit clock is 0, which      *)
(* stop() takes for "not armed" (Timer.cpp:71).  No other start, stop,     *)
(* firing or wrap of the clock leads there.                                *)
NoFreedNode == \A x \in Members : x \in alive \/ TimeFor(due[x]) = 0

(* The heap of timers implements the set of timers: a timer fires at its   *)
(* time and in its turn, a stopped one does not, and a start, stop or      *)
(* destruction made in a callback disturbs no other.                       *)
Set == INSTANCE TimerSet
         WITH due <- [t \in Members |-> due[t]], ok <- ~odd

SetSpec == Set!Spec
=============================================================================
