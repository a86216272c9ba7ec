--------------------------- MODULE TimerHeapProofs ---------------------------
(***************************************************************************)
(* The timers' heap, for any timers and times.  Link by link, heap_insert, *)
(* heap_remove and heap_node_swap keep the nodes a complete binary tree in *)
(* the order of m_time; the walks end within as many iterations as there   *)
(* are nodes; and the heap implements the set of armed timers.             *)
(***************************************************************************)
EXTENDS TimerHeap, WellFoundedInduction, TLAPS

-----------------------------------------------------------------------------
(* Counting.                                                               *)

(* A set of numbers that is not empty has a least one.                     *)
LEMMA Least ==
  ASSUME NEW S \in SUBSET Nat, S # {}
  PROVE  \E m \in S : \A k \in S : m <= k
<1> DEFINE R == {ss \in Nat \X Nat : ss[1] < ss[2]}
<1>1. IsWellFoundedOn(R, Nat)
  BY NatLessThanWellFounded DEF OpToRel
<1>2. PICK m \in S : \A k \in S : <<k, m>> \notin R
  BY <1>1, WFMin
<1>3. \A k \in S : ~(k < m)
  BY <1>2
<1> QED BY <1>3

(* A set with 0 that has the successor of each of its numbers, up to n.    *)
LEMMA Counting ==
  ASSUME NEW n \in Nat, NEW P, 0 \in P,
         \A k \in 1..n : k - 1 \in P => k \in P
  PROVE  0..n \subseteq P
<1> SUFFICES ASSUME (0..n) \ P # {} PROVE FALSE
  OBVIOUS
<1>1. PICK m \in (0..n) \ P : \A k \in (0..n) \ P : m <= k
  <2>1. (0..n) \ P \in SUBSET Nat
    OBVIOUS
  <2> QED BY <2>1, Least
<1>2. m \in 1..n /\ m - 1 \in 0..n
  BY <1>1
<1>3. m - 1 \in P
  BY <1>1, <1>2
<1> QED BY <1>1, <1>2, <1>3

(* A set that has a number when it has all the smaller ones, up to n.      *)
LEMMA Climbing ==
  ASSUME NEW n \in Nat, NEW P,
         \A k \in 1..n : (\A j \in 1..n : j < k => j \in P) => k \in P
  PROVE  1..n \subseteq P
<1> SUFFICES ASSUME (1..n) \ P # {} PROVE FALSE
  OBVIOUS
<1>1. PICK m \in (1..n) \ P : \A k \in (1..n) \ P : m <= k
  <2>1. (1..n) \ P \in SUBSET Nat
    OBVIOUS
  <2> QED BY <2>1, Least
<1>2. \A j \in 1..n : j < m => j \in P
  BY <1>1
<1> QED BY <1>1, <1>2

(* A function iterated n times: the form the two walks have.               *)
IteratesTo(S, F, s, n) ==
  \E w \in [0..n -> S] : w[0] = s /\ \A k \in 1..n : w[k] = F[w[k - 1]]

LEMMA Iterating ==
  ASSUME NEW S, NEW F \in [S -> S], NEW s \in S, NEW n \in Nat
  PROVE  IteratesTo(S, F, s, n)
<1> DEFINE Walks(m) == \E w \in [0..m -> S] :
             w[0] = s /\ \A k \in 1..m : w[k] = F[w[k - 1]]
           P == {m \in 0..n : Walks(m)}
<1>1. 0 \in P
  <2>1. [k \in 0..0 |-> s] \in [0..0 -> S] /\ [k \in 0..0 |-> s][0] = s
    OBVIOUS
  <2>2. \A k \in 1..0 : FALSE
    OBVIOUS
  <2>3. Walks(0)
    <3> DEFINE c == [k \in 0..0 |-> s]
    <3>1. c \in [0..0 -> S] /\ c[0] = s /\ \A k \in 1..0 : c[k] = F[c[k - 1]]
      BY <2>1, <2>2
    <3> HIDE DEF c
    <3> QED BY <3>1
  <2> QED BY <2>3
<1>2. ASSUME NEW m \in 1..n, m - 1 \in P PROVE m \in P
  <2>1. PICK w \in [0..(m - 1) -> S] :
          w[0] = s /\ \A k \in 1..(m - 1) : w[k] = F[w[k - 1]]
    BY <1>2
  <2> DEFINE v == [k \in 0..m |-> IF k = m THEN F[w[m - 1]] ELSE w[k]]
  <2>2. m - 1 \in 0..(m - 1) /\ w[m - 1] \in S
    BY <2>1
  <2>3. F[w[m - 1]] \in S
    BY <2>2
  <2>4. \A k \in 0..m : k # m => k \in 0..(m - 1) /\ w[k] \in S
    BY <2>1
  <2>5. v \in [0..m -> S]
    BY <2>3, <2>4
  <2>6. v[0] = s
    BY <2>1
  <2>7. ASSUME NEW k \in 1..m PROVE v[k] = F[v[k - 1]]
    <3>1. v[k - 1] = w[k - 1] /\ k \in 0..m
      OBVIOUS
    <3>2. CASE k = m
      BY <3>1, <3>2
    <3>3. CASE k # m
      <4>1. k \in 1..(m - 1)
        BY <3>3
      <4>2. v[k] = w[k]
        BY <3>1, <3>3
      <4> QED BY <2>1, <3>1, <4>1, <4>2
    <3> QED BY <3>2, <3>3
  <2> HIDE DEF v
  <2>8. Walks(m)
    BY <2>5, <2>6, <2>7
  <2> QED BY <2>8
<1>3. Walks(n)
  <2>1. 0..n \subseteq P
    <3> HIDE DEF P
    <3> QED BY <1>1, <1>2, Counting
  <2> QED BY <2>1
<1> QED BY <1>3 DEF IteratesTo

-----------------------------------------------------------------------------
(* The tree.  Its places are counted by rows from 1, the root: T[i] is the *)
(* node at place i.                                                        *)

\* Place i is below place j.
Child(i, j) == i = 2 * j \/ i = 2 * j + 1

LEMMA Parents ==
  ASSUME NEW n \in Nat, NEW i \in 1..n
  PROVE  /\ i # 1 => /\ i \div 2 \in 1..n /\ i \div 2 < i
                     /\ Child(i, i \div 2)
                     /\ \A j \in 1..n : Child(i, j) => j = i \div 2
         /\ i % 2 = 0 => i = 2 * (i \div 2)
         /\ i % 2 # 0 => i = 2 * (i \div 2) + 1
         /\ i = 1 => \A j \in 1..n : ~Child(i, j)
         /\ \A j \in 1..n : Child(i, j) => j < i
BY DEF Child

Links == Timers \cup {Nil}

Heaps == [min : Links, nelts : Nat, left : [Timers -> Links],
          right : [Timers -> Links], parent : [Timers -> Links]]

Loose(h, x) == h.left[x] = Nil /\ h.right[x] = Nil /\ h.parent[x] = Nil

Nodes(n, T) == {T[i] : i \in 1..n}

(* The links of h are those of the tree T of n nodes, and a node that is   *)
(* not in it has none, unless it is one of X.                              *)
Places(n, T) ==
  /\ T \in [1..n -> Timers]
  /\ \A i, j \in 1..n : T[i] = T[j] => i = j

Lefts(h, n, T) ==
  \A j \in 1..n : /\ \A i \in 1..n : i = 2 * j => h.left[T[j]] = T[i]
                  /\ 2 * j > n => h.left[T[j]] = Nil

Rights(h, n, T) ==
  \A j \in 1..n : /\ \A i \in 1..n : i = 2 * j + 1 => h.right[T[j]] = T[i]
                  /\ 2 * j + 1 > n => h.right[T[j]] = Nil

Uppers(h, n, T) ==
  \A i, j \in 1..n : Child(i, j) => h.parent[T[i]] = T[j]

Root(h, n, T) ==
  /\ n = 0 => h.min = Nil
  /\ n # 0 => h.min = T[1] /\ h.parent[T[1]] = Nil

Others(h, n, T, X) == \A x \in Timers \ (Nodes(n, T) \cup X) : Loose(h, x)

Spells(h, n, T, X) ==
  /\ n \in Nat /\ h \in Heaps /\ h.nelts = n
  /\ Places(n, T) /\ Lefts(h, n, T) /\ Rights(h, n, T) /\ Uppers(h, n, T)
  /\ Root(h, n, T) /\ Others(h, n, T, X)

(* The walk along the bits of a place ends at the node of that place.      *)
LEMMA NodeAtIs ==
  ASSUME NEW n \in Nat, NEW h, NEW T, NEW X, Spells(h, n, T, X),
         NEW m \in 1..n
  PROVE  NodeAt(h, m) = T[m]
<1> DEFINE Step(f, k) ==
             IF k = 1 THEN h.min
             ELSE IF k % 2 = 0 THEN h.left[f[k \div 2]]
             ELSE h.right[f[k \div 2]]
           g == [k \in 1..m |-> T[k]]
           at == CHOOSE f : f = [k \in 1..m |-> Step(f, k)]
<1>1. ASSUME NEW f, NEW k \in 1..m, k # 1 => f[k \div 2] = T[k \div 2]
      PROVE  Step(f, k) = T[k]
  <2>1. CASE k = 1
    BY <2>1 DEF Spells, Root
  <2>2. CASE k # 1
    <3>1. k \in 1..n /\ k \div 2 \in 1..n
      BY <2>2, Parents
    <3>2. CASE k % 2 = 0
      <4>1. k = 2 * (k \div 2)
        BY <3>1, <3>2, Parents
      <4>2. h.left[T[k \div 2]] = T[k]
        BY <3>1, <4>1 DEF Spells, Lefts
      <4> QED BY <1>1, <2>2, <3>2, <4>2
    <3>3. CASE k % 2 # 0
      <4>1. k = 2 * (k \div 2) + 1
        BY <3>1, <3>3, Parents
      <4>2. h.right[T[k \div 2]] = T[k]
        BY <3>1, <4>1 DEF Spells, Rights
      <4> QED BY <1>1, <2>2, <3>3, <4>2
    <3> QED BY <3>2, <3>3
  <2> QED BY <2>1, <2>2
<1>2. \A k \in 1..m : k # 1 => k \div 2 \in 1..m /\ k \div 2 < k
  BY Parents
<1>3. \A k \in 1..m : Step(g, k) = T[k]
  <2>1. \A k \in 1..m : k # 1 => g[k \div 2] = T[k \div 2]
    BY <1>2
  <2> HIDE DEF g, Step
  <2> QED BY <1>1, <2>1
<1>4. at = [k \in 1..m |-> Step(at, k)]
  <2>1. g = [k \in 1..m |-> Step(g, k)]
    BY <1>3
  <2> HIDE DEF g, Step
  <2> QED BY <2>1
<1>5. NodeAt(h, m) = at[m]
  BY DEF NodeAt
<1>6. \A k \in 1..m : at[k] = Step(at, k)
  <2> HIDE DEF Step, at
  <2> QED BY <1>4
<1> HIDE DEF at, Step
<1>7. 1..m \subseteq {k \in 1..m : at[k] = T[k]}
  <2> DEFINE P == {k \in 1..m : at[k] = T[k]}
  <2>1. ASSUME NEW k \in 1..m, \A j \in 1..m : j < k => j \in P
        PROVE  k \in P
    <3>1. k # 1 => at[k \div 2] = T[k \div 2]
      BY <1>2, <2>1
    <3>2. at[k] = T[k]
      BY <1>1, <1>6, <3>1
    <3> QED BY <3>2
  <2>2. m \in Nat
    OBVIOUS
  <2> HIDE DEF P
  <2>3. 1..m \subseteq P
    BY <2>1, <2>2, Climbing
  <2> QED BY <2>3 DEF P
<1>8. m \in 1..m
  OBVIOUS
<1> QED BY <1>5, <1>7, <1>8

(* The node above that of place j, and where it hangs from it.             *)
LEMMA HangsFrom ==
  ASSUME NEW n \in Nat, NEW h, NEW T, NEW X, Spells(h, n, T, X),
         NEW j \in 1..n
  PROVE  /\ j = 1 => h.parent[T[j]] = Nil
         /\ \A k \in 1..n : Child(j, k) =>
              /\ h.parent[T[j]] = T[k]
              /\ h.left[T[k]] = T[j] <=> j = 2 * k
         /\ \A k \in 1..n : ~Child(j, k) => h.parent[T[j]] # T[k]
<1>1. /\ Places(n, T) /\ Lefts(h, n, T) /\ Uppers(h, n, T) /\ Root(h, n, T)
      /\ \A k \in 1..n : T[k] # Nil
  BY TimerAssumption DEF Spells, Places
<1>2. j = 1 => h.parent[T[j]] = Nil
  BY <1>1 DEF Root
<1>3. ASSUME NEW k \in 1..n, Child(j, k)
      PROVE  h.parent[T[j]] = T[k] /\ (h.left[T[k]] = T[j] <=> j = 2 * k)
  <2>1. h.parent[T[j]] = T[k]
    BY <1>1, <1>3 DEF Uppers
  <2>2. j = 2 * k => h.left[T[k]] = T[j]
    BY <1>1 DEF Lefts
  <2>3. ASSUME j = 2 * k + 1 PROVE h.left[T[k]] # T[j]
    <3>1. 2 * k \in 1..n /\ 2 * k # j
      BY <2>3
    <3>2. h.left[T[k]] = T[2 * k]
      BY <1>1, <3>1 DEF Lefts
    <3> QED BY <1>1, <3>1, <3>2 DEF Places
  <2>4. j # 2 * k + 1 => j = 2 * k
    BY <1>3 DEF Child
  <2>5. j = 2 * k => ~(j = 2 * k + 1)
    OBVIOUS
  <2> QED BY <2>1, <2>2, <2>3, <2>4, <2>5
<1>4. \A k \in 1..n : ~Child(j, k) => h.parent[T[j]] # T[k]
  <2>1. CASE j = 1
    BY <1>1, <1>2, <2>1
  <2>2. CASE j # 1
    <3>1. PICK u \in 1..n : Child(j, u)
      BY <2>2, Parents
    <3> QED BY <1>1, <1>3, <3>1 DEF Places
  <2> QED BY <2>1, <2>2
<1> QED BY <1>2, <1>3, <1>4

(* The nodes below that of place i are those its links lead to.            *)
LEMMA HangsBelow ==
  ASSUME NEW n \in Nat, NEW h, NEW T, NEW X, Spells(h, n, T, X),
         NEW i \in 1..n
  PROVE  /\ \A k \in 1..n : Child(k, i) =>
              T[k] \in {h.left[T[i]], h.right[T[i]]}
         /\ \A k \in 1..n : ~Child(k, i) =>
              T[k] \notin {h.left[T[i]], h.right[T[i]]}
<1>1. /\ Places(n, T) /\ Lefts(h, n, T) /\ Rights(h, n, T)
      /\ \A k \in 1..n : T[k] # Nil
  BY TimerAssumption DEF Spells, Places
<1>2. ASSUME NEW k \in 1..n, Child(k, i)
      PROVE  T[k] \in {h.left[T[i]], h.right[T[i]]}
  BY <1>1, <1>2 DEF Child, Lefts, Rights
<1>3. ASSUME NEW k \in 1..n, ~Child(k, i)
      PROVE  T[k] \notin {h.left[T[i]], h.right[T[i]]}
  <2>1. h.left[T[i]] # T[k]
    <3>1. CASE 2 * i > n
      BY <1>1, <3>1 DEF Lefts
    <3>2. CASE 2 * i <= n
      <4>1. 2 * i \in 1..n /\ 2 * i # k
        BY <1>3, <3>2 DEF Child
      <4>2. h.left[T[i]] = T[2 * i]
        BY <1>1, <4>1 DEF Lefts
      <4> QED BY <1>1, <4>1, <4>2 DEF Places
    <3> QED BY <3>1, <3>2
  <2>2. h.right[T[i]] # T[k]
    <3>1. CASE 2 * i + 1 > n
      BY <1>1, <3>1 DEF Rights
    <3>2. CASE 2 * i + 1 <= n
      <4>1. 2 * i + 1 \in 1..n /\ 2 * i + 1 # k
        BY <1>3, <3>2 DEF Child
      <4>2. h.right[T[i]] = T[2 * i + 1]
        BY <1>1, <4>1 DEF Rights
      <4> QED BY <1>1, <4>1, <4>2 DEF Places
    <3> QED BY <3>1, <3>2
  <2> QED BY <2>1, <2>2
<1> QED BY <1>2, <1>3

(* The links of the nodes of the tree lead to nodes of the tree only.      *)
LEMMA LinksInside ==
  ASSUME NEW n \in Nat, NEW h, NEW T, NEW X, Spells(h, n, T, X),
         NEW y \in Timers \ Nodes(n, T), NEW k \in 1..n
  PROVE  /\ T[k] # y /\ h.left[T[k]] # y /\ h.right[T[k]] # y
         /\ h.parent[T[k]] # y
<1>1. /\ Lefts(h, n, T) /\ Rights(h, n, T) /\ y # Nil
      /\ \A i \in 1..n : T[i] # y
  BY TimerAssumption DEF Spells, Nodes
<1>2. h.left[T[k]] # y
  <2>1. CASE 2 * k > n
    BY <1>1, <2>1 DEF Lefts
  <2>2. CASE 2 * k <= n
    <3>1. 2 * k \in 1..n
      BY <2>2
    <3> QED BY <1>1, <3>1 DEF Lefts
  <2> QED BY <2>1, <2>2
<1>3. h.right[T[k]] # y
  <2>1. CASE 2 * k + 1 > n
    BY <1>1, <2>1 DEF Rights
  <2>2. CASE 2 * k + 1 <= n
    <3>1. 2 * k + 1 \in 1..n
      BY <2>2
    <3> QED BY <1>1, <3>1 DEF Rights
  <2> QED BY <2>1, <2>2
<1>4. h.parent[T[k]] # y
  <2>1. CASE k = 1
    BY <1>1, <2>1, HangsFrom
  <2>2. CASE k # 1
    <3>1. PICK u \in 1..n : Child(k, u)
      BY <2>2, Parents
    <3> QED BY <1>1, <3>1, HangsFrom
  <2> QED BY <2>1, <2>2
<1> QED BY <1>1, <1>2, <1>3, <1>4

-----------------------------------------------------------------------------
(* Two nodes change places.                                                *)

LEMMA ReplaceTyped ==
  ASSUME NEW h \in Heaps, NEW x \in Timers, NEW c \in Links
  PROVE  /\ Replace(h, x, c) \in Heaps
         /\ Replace(h, x, c).nelts = h.nelts
         /\ Replace(h, x, c).parent = h.parent
         /\ Replace(h, x, c).min = IF h.parent[x] = Nil THEN c ELSE h.min
         /\ \A y \in Timers :
              /\ Replace(h, x, c).left[y] =
                   IF h.parent[x] = y /\ h.left[y] = x THEN c ELSE h.left[y]
              /\ Replace(h, x, c).right[y] =
                   IF h.parent[x] = y /\ h.left[y] # x THEN c ELSE h.right[y]
<1>1. h.parent[x] \in Links /\ Nil \notin Timers
  BY TimerAssumption DEF Heaps
<1>2. CASE h.parent[x] = Nil
  BY <1>1, <1>2 DEF Replace, Heaps
<1>3. CASE h.parent[x] # Nil
  <2>1. h.parent[x] \in Timers
    BY <1>1, <1>3 DEF Links
  <2>2. CASE h.left[h.parent[x]] = x
    BY <1>3, <2>1, <2>2 DEF Replace, Heaps
  <2>3. CASE h.left[h.parent[x]] # x
    BY <1>3, <2>1, <2>3 DEF Replace, Heaps
  <2> QED BY <2>2, <2>3
<1> QED BY <1>2, <1>3

LEMMA AdoptTyped ==
  ASSUME NEW h \in Heaps, NEW S, NEW p \in Links
  PROVE  /\ Adopt(h, S, p) \in Heaps
         /\ Adopt(h, S, p).nelts = h.nelts /\ Adopt(h, S, p).min = h.min
         /\ Adopt(h, S, p).left = h.left /\ Adopt(h, S, p).right = h.right
         /\ \A y \in Timers :
              Adopt(h, S, p).parent[y] = IF y \in S THEN p ELSE h.parent[y]
BY DEF Adopt, Heaps

(* The links after a swap of p and its child c, node by node.              *)
Swapped(h, p, c, s) ==
  /\ s \in Heaps /\ s.nelts = h.nelts
  /\ s.min = IF h.parent[p] = Nil THEN c ELSE h.min
  /\ \A y \in Timers :
       /\ s.left[y] =
            IF y = c THEN IF h.left[p] = c THEN p ELSE h.left[p]
            ELSE IF y = p THEN h.left[c]
            ELSE IF h.parent[p] = y /\ h.left[y] = p THEN c
            ELSE h.left[y]
       /\ s.right[y] =
            IF y = c THEN IF h.left[p] = c THEN h.right[p] ELSE p
            ELSE IF y = p THEN h.right[c]
            ELSE IF h.parent[p] = y /\ h.left[y] # p THEN c
            ELSE h.right[y]
       /\ s.parent[y] =
            IF y = p THEN c
            ELSE IF y = c THEN h.parent[p]
            ELSE IF y \in {h.left[c], h.right[c]} THEN p
            ELSE IF y = (IF h.left[p] = c THEN h.right[p] ELSE h.left[p])
                 THEN c
            ELSE h.parent[y]

LEMMA SwapDoes ==
  ASSUME NEW h \in Heaps, NEW p \in Timers, NEW c \in Timers
  PROVE  Swap(h, p, c) \in Heaps
         /\ (p # c => Swapped(h, p, c, Swap(h, p, c)))
<1> DEFINE onLeft  == h.left[p] = c
           sibling == IF onLeft THEN h.right[p] ELSE h.left[p]
           h1 == Replace(h, p, c)
           h0 == Adopt(h1, {sibling}, c)
           h2 == Adopt(h0, {h.left[c], h.right[c]}, p)
           h3 == [h2 EXCEPT !.parent[c] = h.parent[p], !.parent[p] = c]
           h4 == [h3 EXCEPT !.left[p] = h.left[c], !.right[p] = h.right[c],
                      !.left[c] = IF onLeft THEN p ELSE h.left[p],
                      !.right[c] = IF onLeft THEN h.right[p] ELSE p]
<1>1. Swap(h, p, c) = h4
  BY DEF Swap
<1>2. c \in Links /\ p \in Links
  BY DEF Links
<1>3. /\ h.parent[p] \in Links /\ h.left[c] \in Links /\ h.right[c] \in Links
      /\ (IF onLeft THEN p ELSE h.left[p]) \in Links
      /\ (IF onLeft THEN h.right[p] ELSE p) \in Links
  BY <1>2 DEF Heaps
<1>4. /\ h1 \in Heaps /\ h1.nelts = h.nelts /\ h1.parent = h.parent
      /\ h1.min = IF h.parent[p] = Nil THEN c ELSE h.min
      /\ \A y \in Timers :
           /\ h1.left[y] =
                IF h.parent[p] = y /\ h.left[y] = p THEN c ELSE h.left[y]
           /\ h1.right[y] =
                IF h.parent[p] = y /\ h.left[y] # p THEN c ELSE h.right[y]
  BY <1>2, ReplaceTyped
<1> HIDE DEF h1
<1>5. /\ h0 \in Heaps /\ h0.nelts = h1.nelts /\ h0.min = h1.min
      /\ h0.left = h1.left /\ h0.right = h1.right
      /\ \A y \in Timers :
           h0.parent[y] = IF y = sibling THEN c ELSE h1.parent[y]
  <2> HIDE DEF sibling
  <2> QED BY <1>2, <1>4, AdoptTyped
<1> HIDE DEF h0, sibling
<1>6. /\ h2 \in Heaps /\ h2.nelts = h0.nelts /\ h2.min = h0.min
      /\ h2.left = h0.left /\ h2.right = h0.right
      /\ \A y \in Timers :
           h2.parent[y] = IF y \in {h.left[c], h.right[c]} THEN p
                          ELSE h0.parent[y]
  BY <1>2, <1>5, AdoptTyped
<1> HIDE DEF h2
<1>7. /\ h3 \in Heaps /\ h3.nelts = h2.nelts /\ h3.min = h2.min
      /\ h3.left = h2.left /\ h3.right = h2.right
      /\ \A y \in Timers :
           h3.parent[y] = IF y = p THEN c
                          ELSE IF y = c THEN h.parent[p] ELSE h2.parent[y]
  BY <1>2, <1>3, <1>6 DEF Heaps
<1> HIDE DEF h3, onLeft
<1>8. /\ h4 \in Heaps /\ h4.nelts = h3.nelts /\ h4.min = h3.min
      /\ h4.parent = h3.parent
      /\ p # c =>
           \A y \in Timers :
             /\ h4.left[y] =
                  IF y = c THEN IF onLeft THEN p ELSE h.left[p]
                  ELSE IF y = p THEN h.left[c] ELSE h3.left[y]
             /\ h4.right[y] =
                  IF y = c THEN IF onLeft THEN h.right[p] ELSE p
                  ELSE IF y = p THEN h.right[c] ELSE h3.right[y]
  BY <1>3, <1>7 DEF Heaps
<1> HIDE DEF h4
<1>9. ASSUME p # c PROVE Swapped(h, p, c, h4)
  BY <1>4, <1>5, <1>6, <1>7, <1>8, <1>9 DEF Swapped, onLeft, sibling
<1> QED BY <1>1, <1>8, <1>9

(* The tree with the nodes of two places exchanged.                        *)
Exchange(T, i, j) == [T EXCEPT ![i] = T[j], ![j] = T[i]]

LEMMA ExchangeIs ==
  ASSUME NEW n \in Nat, NEW T, Places(n, T), NEW i \in 1..n, NEW j \in 1..n,
         i # j
  PROVE  /\ Places(n, Exchange(T, i, j))
         /\ Exchange(T, i, j)[i] = T[j] /\ Exchange(T, i, j)[j] = T[i]
         /\ \A k \in 1..n : k # i /\ k # j => Exchange(T, i, j)[k] = T[k]
         /\ Nodes(n, Exchange(T, i, j)) = Nodes(n, T)
<1> DEFINE U == Exchange(T, i, j)
<1>1. /\ U \in [1..n -> Timers]
      /\ U[i] = T[j] /\ U[j] = T[i]
      /\ \A k \in 1..n : k # i /\ k # j => U[k] = T[k]
  BY DEF Places, Exchange
<1> HIDE DEF U
<1>2. \A k, l \in 1..n : U[k] = U[l] => k = l
  BY <1>1 DEF Places
<1>3. Nodes(n, U) = Nodes(n, T)
  <2>1. \A k \in 1..n : \E l \in 1..n : U[k] = T[l]
    BY <1>1
  <2>2. \A k \in 1..n : \E l \in 1..n : T[k] = U[l]
    BY <1>1
  <2> QED BY <2>1, <2>2 DEF Nodes
<1> QED BY <1>1, <1>2, <1>3 DEF Places, U

LEMMA SwapSpells ==
  ASSUME NEW n \in Nat, NEW h, NEW T, NEW X, Spells(h, n, T, X),
         NEW i \in 1..n, NEW j \in 1..n, Child(i, j)
  PROVE  Spells(Swap(h, T[j], T[i]), n, Exchange(T, i, j), X)
<1> DEFINE p == T[j]
           c == T[i]
           U == Exchange(T, i, j)
           s == Swap(h, p, c)
<1>1. /\ h \in Heaps /\ h.nelts = n
      /\ Places(n, T) /\ Lefts(h, n, T) /\ Rights(h, n, T) /\ Uppers(h, n, T)
      /\ Root(h, n, T) /\ Others(h, n, T, X)
  BY DEF Spells
<1>2. i # j /\ j < i /\ i # 1 /\ i \in 1..n /\ j \in 1..n
  BY DEF Child
<1>3. p \in Timers /\ c \in Timers /\ p # c /\ Nil \notin Timers
  BY <1>1, <1>2, TimerAssumption DEF Places
<1>4. Swapped(h, p, c, s)
  BY <1>1, <1>3, SwapDoes
<1>5. /\ Places(n, U) /\ U[i] = p /\ U[j] = c
      /\ \A k \in 1..n : k # i /\ k # j => U[k] = T[k]
      /\ Nodes(n, U) = Nodes(n, T)
  BY <1>1, <1>2, ExchangeIs
<1> HIDE DEF U, s
<1>6. \A k \in 1..n : T[k] \in Timers /\ T[k] # Nil
  BY <1>1, <1>3 DEF Places
\* The node above p, and where p hangs from it.
<1>7. /\ j = 1 => h.parent[p] = Nil
      /\ \A k \in 1..n : Child(j, k) =>
           h.parent[p] = T[k] /\ (h.left[T[k]] = p <=> j = 2 * k)
  <2>1. j = 1 => h.parent[T[j]] = Nil
    BY HangsFrom
  <2>2. ASSUME NEW k \in 1..n, Child(j, k)
        PROVE  h.parent[T[j]] = T[k] /\ (h.left[T[k]] = T[j] <=> j = 2 * k)
    BY <2>2, HangsFrom
  <2> QED BY <2>1, <2>2
<1>8. \A k \in 1..n : ~Child(j, k) => h.parent[p] # T[k]
  <2>1. \A k \in 1..n : ~Child(j, k) => h.parent[T[j]] # T[k]
    BY HangsFrom
  <2> QED BY <2>1
\* Where c hangs from p, and its sibling.
<1>9. /\ h.left[p] = c <=> i = 2 * j
      /\ i = 2 * j + 1 => h.left[p] = T[2 * j] /\ 2 * j \in 1..n
      /\ i = 2 * j => /\ \A k \in 1..n : k = 2 * j + 1 => h.right[p] = T[k]
                      /\ 2 * j + 1 > n => h.right[p] = Nil
      /\ h.left[p] = c => i = 2 * j
  <2>1. i = 2 * j => h.left[p] = c
    BY <1>1 DEF Lefts
  <2>2. ASSUME i = 2 * j + 1
        PROVE  h.left[p] = T[2 * j] /\ 2 * j \in 1..n /\ h.left[p] # c
    <3>1. 2 * j \in 1..n /\ 2 * j # i
      BY <2>2
    <3>2. h.left[p] = T[2 * j]
      BY <1>1, <3>1 DEF Lefts
    <3> QED BY <1>1, <3>1, <3>2 DEF Places
  <2>3. i = 2 * j \/ i = 2 * j + 1
    BY DEF Child
  <2>4. /\ \A k \in 1..n : k = 2 * j + 1 => h.right[p] = T[k]
        /\ 2 * j + 1 > n => h.right[p] = Nil
    BY <1>1 DEF Rights
  <2>5. CASE i = 2 * j
    <3>1. i # 2 * j + 1
      BY <2>5
    <3> QED BY <2>1, <2>4, <2>5, <3>1
  <2>6. CASE i = 2 * j + 1
    <3>1. i # 2 * j
      BY <2>6
    <3> QED BY <2>2, <2>6, <3>1
  <2> QED BY <2>3, <2>5, <2>6
<1>10. Lefts(s, n, U)
  <2> SUFFICES ASSUME NEW k \in 1..n
               PROVE  /\ \A l \in 1..n : l = 2 * k => s.left[U[k]] = U[l]
                      /\ 2 * k > n => s.left[U[k]] = Nil
    BY DEF Lefts
  <2>1. CASE k = j
    <3>1. s.left[U[k]] = IF h.left[p] = c THEN p ELSE h.left[p]
      BY <1>3, <1>4, <1>5, <2>1 DEF Swapped
    <3>2. CASE i = 2 * j
      <4>1. s.left[U[k]] = U[i]
        BY <1>5, <1>9, <3>1, <3>2
      <4> QED BY <2>1, <3>2, <4>1
    <3>3. CASE i = 2 * j + 1
      <4>1. h.left[p] # c /\ h.left[p] = T[2 * j] /\ 2 * j \in 1..n
        <5>1. i # 2 * j
          BY <3>3
        <5> QED BY <1>9, <3>3, <5>1
      <4>2. U[2 * j] = T[2 * j]
        <5>1. 2 * j # i /\ 2 * j # j
          BY <3>3
        <5> QED BY <1>5, <4>1, <5>1
      <4>3. s.left[U[k]] = U[2 * j]
        BY <3>1, <4>1, <4>2
      <4> QED BY <2>1, <4>1, <4>3
    <3> QED BY <3>2, <3>3 DEF Child
  <2>2. CASE k = i
    <3>1. s.left[U[k]] = h.left[c]
      BY <1>3, <1>4, <1>5, <2>2 DEF Swapped
    <3>2. ASSUME NEW l \in 1..n, l = 2 * k PROVE U[l] = T[l]
      <4>1. l # i /\ l # j
        BY <1>2, <2>2, <3>2
      <4> QED BY <1>5, <4>1
    <3> QED BY <1>1, <2>2, <3>1, <3>2 DEF Lefts
  <2>3. CASE k # i /\ k # j
    <3>1. U[k] = T[k] /\ T[k] # p /\ T[k] # c /\ T[k] \in Timers
      BY <1>1, <1>5, <1>6, <2>3 DEF Places
    <3>2. s.left[T[k]] = IF h.parent[p] = T[k] /\ h.left[T[k]] = p THEN c
                         ELSE h.left[T[k]]
      BY <1>4, <3>1 DEF Swapped
    <3>3. ASSUME NEW l \in 1..n, l = 2 * k PROVE s.left[T[k]] = U[l]
      <4>1. l # i
        BY <2>3, <3>3 DEF Child
      <4>2. CASE l = j
        <5>1. Child(j, k) /\ j = 2 * k
          BY <3>3, <4>2 DEF Child
        <5> QED BY <1>5, <1>7, <3>2, <4>2, <5>1
      <4>3. CASE l # j
        <5>1. ~(h.parent[p] = T[k] /\ h.left[T[k]] = p)
          <6>1. j # 2 * k
            BY <3>3, <4>3
          <6> QED BY <1>7, <1>8, <6>1
        <5>2. h.left[T[k]] = T[l] /\ U[l] = T[l]
          BY <1>1, <1>5, <3>3, <4>1, <4>3 DEF Lefts
        <5> QED BY <3>2, <5>1, <5>2
      <4> QED BY <4>2, <4>3
    <3>4. ASSUME 2 * k > n PROVE s.left[T[k]] = Nil
      <4>1. j # 2 * k
        BY <3>4
      <4>2. ~(h.parent[p] = T[k] /\ h.left[T[k]] = p)
        BY <1>7, <1>8, <4>1
      <4>3. h.left[T[k]] = Nil
        BY <1>1, <3>4 DEF Lefts
      <4> QED BY <3>2, <4>2, <4>3
    <3> QED BY <3>1, <3>3, <3>4
  <2> QED BY <2>1, <2>2, <2>3
<1>11. Rights(s, n, U)
  <2> SUFFICES ASSUME NEW k \in 1..n
               PROVE  /\ \A l \in 1..n : l = 2 * k + 1 => s.right[U[k]] = U[l]
                      /\ 2 * k + 1 > n => s.right[U[k]] = Nil
    BY DEF Rights
  <2>1. CASE k = j
    <3>1. s.right[U[k]] = IF h.left[p] = c THEN h.right[p] ELSE p
      BY <1>3, <1>4, <1>5, <2>1 DEF Swapped
    <3>2. CASE i = 2 * j
      <4>1. s.right[U[k]] = h.right[p]
        BY <1>9, <3>1, <3>2
      <4>2. ASSUME NEW l \in 1..n, l = 2 * j + 1 PROVE U[l] = T[l]
        <5>1. l # i /\ l # j
          BY <3>2, <4>2
        <5> QED BY <1>5, <5>1
      <4> QED BY <1>9, <2>1, <3>2, <4>1, <4>2
    <3>3. CASE i = 2 * j + 1
      <4>1. h.left[p] # c
        <5>1. i # 2 * j
          BY <3>3
        <5> QED BY <1>9, <5>1
      <4>2. s.right[U[k]] = U[i]
        BY <1>5, <3>1, <4>1
      <4> QED BY <2>1, <3>3, <4>2
    <3> QED BY <3>2, <3>3 DEF Child
  <2>2. CASE k = i
    <3>1. s.right[U[k]] = h.right[c]
      BY <1>3, <1>4, <1>5, <2>2 DEF Swapped
    <3>2. ASSUME NEW l \in 1..n, l = 2 * k + 1 PROVE U[l] = T[l]
      <4>1. l # i /\ l # j
        BY <1>2, <2>2, <3>2
      <4> QED BY <1>5, <4>1
    <3> QED BY <1>1, <2>2, <3>1, <3>2 DEF Rights
  <2>3. CASE k # i /\ k # j
    <3>1. U[k] = T[k] /\ T[k] # p /\ T[k] # c /\ T[k] \in Timers
      BY <1>1, <1>5, <1>6, <2>3 DEF Places
    <3>2. s.right[T[k]] = IF h.parent[p] = T[k] /\ h.left[T[k]] # p THEN c
                          ELSE h.right[T[k]]
      BY <1>4, <3>1 DEF Swapped
    <3>3. ASSUME NEW l \in 1..n, l = 2 * k + 1 PROVE s.right[T[k]] = U[l]
      <4>1. l # i
        BY <2>3, <3>3 DEF Child
      <4>2. CASE l = j
        <5>1. Child(j, k) /\ j # 2 * k
          BY <3>3, <4>2 DEF Child
        <5> QED BY <1>5, <1>7, <3>2, <4>2, <5>1
      <4>3. CASE l # j
        <5>1. ~(h.parent[p] = T[k] /\ h.left[T[k]] # p)
          <6>1. j # 2 * k + 1
            BY <3>3, <4>3
          <6>2. Child(j, k) => j = 2 * k
            BY <6>1 DEF Child
          <6> QED BY <1>7, <1>8, <6>2
        <5>2. h.right[T[k]] = T[l] /\ U[l] = T[l]
          BY <1>1, <1>5, <3>3, <4>1, <4>3 DEF Rights
        <5> QED BY <3>2, <5>1, <5>2
      <4> QED BY <4>2, <4>3
    <3>4. ASSUME 2 * k + 1 > n PROVE s.right[T[k]] = Nil
      <4>1. j # 2 * k + 1
        BY <3>4
      <4>2. ~(h.parent[p] = T[k] /\ h.left[T[k]] # p)
        <5>1. Child(j, k) => j = 2 * k
          BY <4>1 DEF Child
        <5> QED BY <1>7, <1>8, <5>1
      <4>3. h.right[T[k]] = Nil
        BY <1>1, <3>4 DEF Rights
      <4> QED BY <3>2, <4>2, <4>3
    <3> QED BY <3>1, <3>3, <3>4
  <2> QED BY <2>1, <2>2, <2>3, Zenon
\* The nodes below c, and the sibling of c.
<1>12. /\ \A k \in 1..n : Child(k, i) => T[k] \in {h.left[c], h.right[c]}
       /\ \A k \in 1..n : ~Child(k, i) => T[k] \notin {h.left[c], h.right[c]}
  BY HangsBelow
<1> DEFINE sibling == IF h.left[p] = c THEN h.right[p] ELSE h.left[p]
<1>13. /\ \A k \in 1..n : Child(k, j) /\ k # i => T[k] = sibling
       /\ \A k \in 1..n : ~Child(k, j) => T[k] # sibling
  <2>1. CASE i = 2 * j
    <3>1. sibling = h.right[p]
      BY <1>9, <2>1
    <3>2. \A k \in 1..n : Child(k, j) /\ k # i => k = 2 * j + 1
      BY <2>1 DEF Child
    <3>3. ASSUME NEW k \in 1..n, ~Child(k, j) PROVE T[k] # h.right[p]
      <4>1. CASE 2 * j + 1 > n
        BY <1>6, <1>9, <2>1, <4>1
      <4>2. CASE 2 * j + 1 <= n
        <5>1. 2 * j + 1 \in 1..n /\ 2 * j + 1 # k
          BY <3>3, <4>2 DEF Child
        <5>2. h.right[p] = T[2 * j + 1]
          BY <1>9, <2>1, <5>1
        <5> QED BY <1>1, <5>1, <5>2 DEF Places
      <4> QED BY <4>1, <4>2
    <3>4. \A k \in 1..n : k = 2 * j + 1 => T[k] = h.right[p]
      BY <1>9, <2>1
    <3> HIDE DEF sibling
    <3> QED BY <3>1, <3>2, <3>3, <3>4
  <2>2. CASE i = 2 * j + 1
    <3>1. /\ sibling = h.left[p] /\ h.left[p] = T[2 * j]
          /\ 2 * j \in 1..n
      <4>1. i # 2 * j
        BY <2>2
      <4> QED BY <1>9, <2>2, <4>1
    <3>2. \A k \in 1..n : Child(k, j) /\ k # i => k = 2 * j
      BY <2>2 DEF Child
    <3>3. \A k \in 1..n : ~Child(k, j) => k # 2 * j
      BY DEF Child
    <3> HIDE DEF sibling
    <3> QED BY <1>1, <3>1, <3>2, <3>3 DEF Places
  <2> QED BY <2>1, <2>2 DEF Child
<1>14. \A y \in Timers :
         s.parent[y] = IF y = p THEN c
                       ELSE IF y = c THEN h.parent[p]
                       ELSE IF y \in {h.left[c], h.right[c]} THEN p
                       ELSE IF y = sibling THEN c ELSE h.parent[y]
  BY <1>4 DEF Swapped
<1> HIDE DEF sibling
<1>15. Uppers(s, n, U)
  <2> SUFFICES ASSUME NEW a \in 1..n, NEW b \in 1..n, Child(a, b)
               PROVE  s.parent[U[a]] = U[b]
    BY DEF Uppers
  <2>1. a # b /\ a # 1 /\ b < a
    BY DEF Child
  <2>2. CASE a = i
    <3>1. b = j
      BY <2>2 DEF Child
    <3> QED BY <1>3, <1>5, <1>14, <2>2, <3>1
  <2>3. CASE a = j
    <3>1. b # i /\ b # j
      BY <1>2, <2>1, <2>3
    <3>2. U[a] = c /\ U[b] = T[b] /\ h.parent[p] = T[b]
      BY <1>5, <1>7, <2>3, <3>1
    <3> QED BY <1>3, <1>14, <3>2
  <2>4. CASE a # i /\ a # j
    <3>1. U[a] = T[a] /\ T[a] \in Timers /\ T[a] # p /\ T[a] # c
      BY <1>1, <1>5, <1>6, <2>4 DEF Places
    <3>2. CASE b = i
      <4>1. T[a] \in {h.left[c], h.right[c]}
        BY <1>12, <3>2
      <4> QED BY <1>5, <1>14, <3>1, <3>2, <4>1
    <3>3. CASE b # i
      <4>1. ~Child(a, i)
        BY <3>3 DEF Child
      <4>2. s.parent[T[a]] = IF T[a] = sibling THEN c ELSE h.parent[T[a]]
        BY <1>12, <1>14, <3>1, <4>1
      <4>3. CASE b = j
        BY <1>5, <1>13, <2>4, <3>1, <4>2, <4>3
      <4>4. CASE b # j
        <5>1. ~Child(a, j)
          BY <4>4 DEF Child
        <5>2. h.parent[T[a]] = T[b] /\ U[b] = T[b]
          BY <1>1, <1>5, <3>3, <4>4 DEF Uppers
        <5> QED BY <1>13, <3>1, <4>2, <5>1, <5>2
      <4> QED BY <4>3, <4>4
    <3> QED BY <3>2, <3>3
  <2> QED BY <2>2, <2>3, <2>4
<1>16. Root(s, n, U)
  <2>1. n # 0 /\ 1 \in 1..n
    BY <1>2
  <2>2. s.min = IF h.parent[p] = Nil THEN c ELSE h.min
    BY <1>4 DEF Swapped
  <2>3. h.min = T[1] /\ h.parent[T[1]] = Nil
    BY <1>1, <2>1 DEF Root
  <2>4. CASE j = 1
    <3>1. h.parent[p] = Nil /\ U[1] = c
      BY <1>5, <1>7, <2>4
    <3>2. s.parent[c] = Nil
      BY <1>3, <1>14, <3>1
    <3> QED BY <2>1, <2>2, <3>1, <3>2 DEF Root
  <2>5. CASE j # 1
    <3>1. U[1] = T[1]
      BY <1>2, <1>5, <2>1, <2>5
    <3>2. h.parent[p] # Nil
      <4>1. PICK u \in 1..n : Child(j, u)
        BY <2>5, Parents
      <4> QED BY <1>6, <1>7, <4>1
    <3>3. ~Child(1, i) /\ ~Child(1, j)
      BY DEF Child
    <3>4. T[1] # p /\ T[1] # c /\ T[1] \in Timers
      BY <1>1, <1>2, <1>6, <2>1, <2>5 DEF Places
    <3>5. s.parent[T[1]] = Nil
      BY <1>12, <1>13, <1>14, <2>1, <2>3, <3>3, <3>4
    <3> QED BY <2>1, <2>2, <2>3, <3>1, <3>2, <3>5 DEF Root
  <2> QED BY <2>4, <2>5
<1>17. Others(s, n, U, X)
  <2> SUFFICES ASSUME NEW y \in Timers, y \notin Nodes(n, T), y \notin X
               PROVE  Loose(s, y)
    BY <1>5 DEF Others
  <2>1. \A k \in 1..n : y # T[k]
    BY DEF Nodes
  <2>2. Loose(h, y)
    BY <1>1 DEF Others
  <2>3. y # p /\ y # c
    BY <1>2, <2>1
  <2>4. h.parent[p] # y
    BY <1>2, LinksInside
  <2>5. y \notin {h.left[c], h.right[c]} /\ y # sibling
    BY <1>2, LinksInside DEF sibling
  <2>6. /\ s.left[y] = h.left[y] /\ s.right[y] = h.right[y]
        /\ s.parent[y] = h.parent[y]
    BY <1>4, <1>14, <2>3, <2>4, <2>5 DEF Swapped
  <2> QED BY <2>2, <2>6 DEF Loose
<1>18. s \in Heaps /\ s.nelts = n
  BY <1>1, <1>4 DEF Swapped
<1> QED BY <1>5, <1>10, <1>11, <1>15, <1>16, <1>17, <1>18 DEF Spells, s, U

-----------------------------------------------------------------------------
(* A node is hung at the next place: heap_insert up to its walk.           *)

Planted(h, x) ==
  LET n == h.nelts + 1
      p == IF n = 1 THEN Nil ELSE NodeAt(h, n \div 2)
      h1 == [h EXCEPT !.nelts = n, !.parent[x] = p]
  IN  IF p = Nil THEN [h1 EXCEPT !.min = x]
      ELSE IF n % 2 = 0 THEN [h1 EXCEPT !.left[p] = x]
      ELSE [h1 EXCEPT !.right[p] = x]

Grown(T, n, x) == [k \in 1..(n + 1) |-> IF k = n + 1 THEN x ELSE T[k]]

LEMMA GrownIs ==
  ASSUME NEW n \in Nat, NEW T, Places(n, T), NEW x \in Timers \ Nodes(n, T)
  PROVE  /\ Places(n + 1, Grown(T, n, x))
         /\ Grown(T, n, x)[n + 1] = x
         /\ \A k \in 1..n : Grown(T, n, x)[k] = T[k]
         /\ Nodes(n + 1, Grown(T, n, x)) = Nodes(n, T) \cup {x}
<1> DEFINE U == Grown(T, n, x)
<1>1. /\ n + 1 \in 1..(n + 1) /\ U[n + 1] = x
      /\ \A k \in 1..n : k \in 1..(n + 1) /\ k # n + 1
      /\ \A k \in 1..(n + 1) : k = n + 1 \/ k \in 1..n
  BY DEF Grown
<1>2. \A k \in 1..n : U[k] = T[k]
  BY <1>1 DEF Grown
<1>3. \A k \in 1..n : T[k] \in Timers /\ T[k] # x
  BY DEF Places, Nodes
<1>4. U \in [1..(n + 1) -> Timers]
  BY <1>1, <1>3 DEF Grown
<1> HIDE DEF U
<1>5. \A i, j \in 1..(n + 1) : U[i] = U[j] => i = j
  BY <1>1, <1>2, <1>3 DEF Places
<1>6. Nodes(n + 1, U) = Nodes(n, T) \cup {x}
  BY <1>1, <1>2 DEF Nodes
<1> QED BY <1>1, <1>2, <1>4, <1>5, <1>6 DEF Places, U

LEMMA PlantSpells ==
  ASSUME NEW n \in Nat, NEW h, NEW T, Spells(h, n, T, {}),
         NEW x \in Timers \ Nodes(n, T)
  PROVE  Spells(Planted(h, x), n + 1, Grown(T, n, x), {})
<1> DEFINE U == Grown(T, n, x)
           m == n + 1
           g == Planted(h, x)
<1>1. /\ h \in Heaps /\ h.nelts = n
      /\ Places(n, T) /\ Lefts(h, n, T) /\ Rights(h, n, T) /\ Uppers(h, n, T)
      /\ Root(h, n, T) /\ Others(h, n, T, {})
      /\ Nil \notin Timers /\ x \in Timers /\ Loose(h, x)
      /\ \A k \in 1..n : T[k] \in Timers /\ T[k] # x
  BY TimerAssumption DEF Spells, Others, Places, Nodes
<1>2. /\ Places(m, U) /\ U[m] = x /\ \A k \in 1..n : U[k] = T[k]
      /\ Nodes(m, U) = Nodes(n, T) \cup {x}
  BY <1>1, GrownIs
<1> HIDE DEF U
<1>3. m \in Nat /\ m \in 1..m /\ \A k \in 1..m : k = m \/ k \in 1..n
  OBVIOUS
<1>4. /\ m # 1 => /\ m \div 2 \in 1..n /\ Child(m, m \div 2)
                  /\ \A j \in 1..m : Child(m, j) => j = m \div 2
      /\ m % 2 = 0 => m = 2 * (m \div 2)
      /\ m % 2 # 0 => m = 2 * (m \div 2) + 1
      /\ \A j \in 1..m : ~(m = 1 /\ Child(m, j))
  <2>1. m # 1 => m \div 2 < m /\ m \div 2 \in 1..m
    BY <1>3, Parents
  <2> QED BY <1>3, <2>1, Parents
\* The links of g, where p is the node above the next place.
<1> DEFINE q == m \div 2
           p == T[q]
<1>5. CASE m = 1
  <2>1. n = 0
    BY <1>5
  <2>2. g = [[h EXCEPT !.nelts = m, !.parent[x] = Nil] EXCEPT !.min = x]
    BY <1>1, <1>5 DEF Planted
  <2>3. /\ g \in Heaps /\ g.nelts = m /\ g.min = x
        /\ g.left = h.left /\ g.right = h.right
        /\ \A y \in Timers : g.parent[y] = IF y = x THEN Nil ELSE h.parent[y]
    <3> HIDE DEF g, m
    <3> DEFINE h1 == [h EXCEPT !.nelts = m, !.parent[x] = Nil]
    <3>1. /\ h1 \in Heaps /\ h1.nelts = m
          /\ h1.left = h.left /\ h1.right = h.right
          /\ \A y \in Timers :
               h1.parent[y] = IF y = x THEN Nil ELSE h.parent[y]
      BY <1>1, <1>3 DEF Heaps, Links
    <3>2. g = [h1 EXCEPT !.min = x]
      BY <2>2
    <3> HIDE DEF h1
    <3> QED BY <1>1, <3>1, <3>2 DEF Heaps, Links
  <2> HIDE DEF g, m
  <2>4. \A i, j \in 1..m : ~Child(i, j) /\ i = 1 /\ 2 * j > m
    BY <1>5 DEF Child
  <2>5. U[1] = x /\ \A k \in 1..m : U[k] = x
    BY <1>2, <1>5, <2>4
  <2>6. Lefts(g, m, U) /\ Rights(g, m, U) /\ Uppers(g, m, U) /\ Root(g, m, U)
    <3>1. \A i, j \in 1..m : i # 2 * j /\ i # 2 * j + 1
      BY <2>4 DEF Child
    <3> QED BY <1>1, <1>5, <2>3, <2>4, <2>5, <3>1
              DEF Lefts, Rights, Uppers, Root, Loose
  <2>7. Others(g, m, U, {})
    BY <1>1, <1>2, <2>3 DEF Others, Loose
  <2> QED BY <1>2, <1>3, <2>3, <2>6, <2>7 DEF Spells, g, U, m
<1>6. CASE m # 1
  <2>1. q \in 1..n /\ p \in Timers /\ p # Nil /\ p # x
    BY <1>1, <1>4, <1>6
  <2>2. NodeAt(h, q) = p
    BY <2>1, NodeAtIs
  <2> DEFINE h1 == [h EXCEPT !.nelts = m, !.parent[x] = p]
  <2>3. g = IF m % 2 = 0 THEN [h1 EXCEPT !.left[p] = x]
            ELSE [h1 EXCEPT !.right[p] = x]
    BY <1>1, <1>6, <2>1, <2>2 DEF Planted
  <2>4. /\ h1 \in Heaps /\ h1.nelts = m /\ h1.min = h.min
        /\ h1.left = h.left /\ h1.right = h.right
        /\ \A y \in Timers : h1.parent[y] = IF y = x THEN p ELSE h.parent[y]
    <3> HIDE DEF p, m
    <3> QED BY <1>1, <1>3, <2>1 DEF Heaps, Links
  <2> HIDE DEF h1, p, q, m, g
  <2>5. /\ g \in Heaps /\ g.nelts = m /\ g.min = h.min
        /\ \A y \in Timers :
             /\ g.left[y] = IF y = p /\ m % 2 = 0 THEN x ELSE h.left[y]
             /\ g.right[y] = IF y = p /\ m % 2 # 0 THEN x ELSE h.right[y]
             /\ g.parent[y] = IF y = x THEN p ELSE h.parent[y]
    <3>1. CASE m % 2 = 0
      BY <1>1, <2>1, <2>3, <2>4, <3>1 DEF Heaps, Links
    <3>2. CASE m % 2 # 0
      BY <1>1, <2>1, <2>3, <2>4, <3>2 DEF Heaps, Links
    <3> QED BY <3>1, <3>2
  <2>6. /\ m % 2 = 0 => m = 2 * q
        /\ m % 2 # 0 => m = 2 * q + 1
    BY <1>4 DEF q
  <2>7. \A k \in 1..n : k # q => T[k] # p /\ m # 2 * k /\ m # 2 * k + 1
    <3>1. \A k \in 1..n : Child(m, k) => k = q
      BY <1>3, <1>4, <1>6 DEF q, m
    <3> QED BY <1>1, <2>1, <3>1 DEF Places, p, Child
  <2>8. Lefts(g, m, U)
    <3> SUFFICES ASSUME NEW k \in 1..m
                 PROVE  /\ \A l \in 1..m : l = 2 * k => g.left[U[k]] = U[l]
                        /\ 2 * k > m => g.left[U[k]] = Nil
      BY DEF Lefts
    <3>1. CASE k = m
      <4>1. g.left[U[k]] = Nil
        BY <1>1, <1>2, <2>1, <2>5, <3>1 DEF Loose
      <4>2. \A l \in 1..m : l # 2 * k
        BY <1>3, <3>1
      <4> QED BY <4>1, <4>2
    <3>2. CASE k # m
      <4>1. k \in 1..n /\ U[k] = T[k] /\ T[k] \in Timers
        BY <1>1, <1>2, <1>3, <3>2
      <4>2. ASSUME NEW l \in 1..m, l = 2 * k PROVE g.left[U[k]] = U[l]
        <5>1. CASE l = m
          <6>1. k = q
            BY <2>7, <4>1, <4>2, <5>1
          <6>2. m % 2 = 0
            <7>1. m = 2 * q
              BY <4>2, <5>1, <6>1
            <7>2. q \in Nat
              BY <2>1
            <7>3. m # 2 * q + 1
              BY <7>1, <7>2
            <7> QED BY <2>6, <7>3
          <6> QED BY <1>2, <2>5, <4>1, <5>1, <6>1, <6>2 DEF p
        <5>2. CASE l # m
          <6>1. l \in 1..n /\ U[l] = T[l]
            BY <1>2, <1>3, <5>2
          <6>2. ~(T[k] = p /\ m % 2 = 0)
            <7>1. T[k] = p => k = q
              BY <2>7, <4>1
            <7> QED BY <2>6, <4>2, <5>2, <7>1
          <6>3. h.left[T[k]] = T[l]
            BY <1>1, <4>1, <4>2, <6>1 DEF Lefts
          <6> QED BY <2>5, <4>1, <6>1, <6>2, <6>3
        <5> QED BY <5>1, <5>2
      <4>3. ASSUME 2 * k > m PROVE g.left[U[k]] = Nil
        <5>1. 2 * k > n
          BY <4>3, <1>3 DEF m
        <5>2. ~(T[k] = p /\ m % 2 = 0)
          <6>1. T[k] = p => k = q
            BY <2>7, <4>1
          <6>2. m # 2 * k
            BY <4>3, <1>3
          <6> QED BY <2>6, <6>1, <6>2
        <5>3. h.left[T[k]] = Nil
          BY <1>1, <4>1, <5>1 DEF Lefts
        <5> QED BY <2>5, <4>1, <5>2, <5>3
      <4> QED BY <4>2, <4>3
    <3> QED BY <3>1, <3>2
  <2>9. Rights(g, m, U)
    <3> SUFFICES ASSUME NEW k \in 1..m
                 PROVE  /\ \A l \in 1..m : l = 2 * k + 1 => g.right[U[k]] = U[l]
                        /\ 2 * k + 1 > m => g.right[U[k]] = Nil
      BY DEF Rights
    <3>1. CASE k = m
      <4>1. g.right[U[k]] = Nil
        BY <1>1, <1>2, <2>1, <2>5, <3>1 DEF Loose
      <4>2. \A l \in 1..m : l # 2 * k + 1
        BY <1>3, <3>1
      <4> QED BY <4>1, <4>2
    <3>2. CASE k # m
      <4>1. k \in 1..n /\ U[k] = T[k] /\ T[k] \in Timers
        BY <1>1, <1>2, <1>3, <3>2
      <4>2. ASSUME NEW l \in 1..m, l = 2 * k + 1 PROVE g.right[U[k]] = U[l]
        <5>1. CASE l = m
          <6>1. k = q
            BY <2>7, <4>1, <4>2, <5>1
          <6>2. m % 2 # 0
            <7>1. m = 2 * q + 1
              BY <4>2, <5>1, <6>1
            <7>2. q \in Nat
              BY <2>1
            <7>3. m # 2 * q
              BY <7>1, <7>2
            <7> QED BY <2>6, <7>3
          <6> QED BY <1>2, <2>5, <4>1, <5>1, <6>1, <6>2 DEF p
        <5>2. CASE l # m
          <6>1. l \in 1..n /\ U[l] = T[l]
            BY <1>2, <1>3, <5>2
          <6>2. ~(T[k] = p /\ m % 2 # 0)
            <7>1. T[k] = p => k = q
              BY <2>7, <4>1
            <7> QED BY <2>6, <4>2, <5>2, <7>1
          <6>3. h.right[T[k]] = T[l]
            BY <1>1, <4>1, <4>2, <6>1 DEF Rights
          <6> QED BY <2>5, <4>1, <6>1, <6>2, <6>3
        <5> QED BY <5>1, <5>2
      <4>3. ASSUME 2 * k + 1 > m PROVE g.right[U[k]] = Nil
        <5>1. 2 * k + 1 > n
          BY <4>3, <1>3 DEF m
        <5>2. ~(T[k] = p /\ m % 2 # 0)
          <6>1. T[k] = p => k = q
            BY <2>7, <4>1
          <6>2. m # 2 * k + 1
            BY <4>3, <1>3
          <6> QED BY <2>6, <6>1, <6>2
        <5>3. h.right[T[k]] = Nil
          BY <1>1, <4>1, <5>1 DEF Rights
        <5> QED BY <2>5, <4>1, <5>2, <5>3
      <4> QED BY <4>2, <4>3
    <3> QED BY <3>1, <3>2
  <2>10. Uppers(g, m, U)
    <3> SUFFICES ASSUME NEW a \in 1..m, NEW b \in 1..m, Child(a, b)
                 PROVE  g.parent[U[a]] = U[b]
      BY DEF Uppers
    <3>1. b # m /\ b \in 1..n /\ U[b] = T[b]
      <4>1. b # m
        BY <1>3 DEF Child
      <4> QED BY <1>2, <1>3, <4>1
    <3>2. CASE a = m
      <4>1. b = q
        BY <2>7, <3>1, <3>2 DEF Child
      <4> QED BY <1>1, <1>2, <2>5, <3>1, <3>2, <4>1 DEF p
    <3>3. CASE a # m
      <4>1. a \in 1..n /\ U[a] = T[a] /\ T[a] \in Timers /\ T[a] # x
        BY <1>1, <1>2, <1>3, <3>3
      <4>2. h.parent[T[a]] = T[b]
        BY <1>1, <3>1, <4>1 DEF Uppers
      <4> QED BY <2>5, <3>1, <4>1, <4>2
    <3> QED BY <3>2, <3>3
  <2>11. Root(g, m, U)
    <3>1. n # 0 /\ 1 \in 1..n /\ m # 0
      BY <1>3, <2>1
    <3>2. h.min = T[1] /\ h.parent[T[1]] = Nil
      BY <1>1, <3>1 DEF Root
    <3>3. U[1] = T[1] /\ T[1] \in Timers /\ T[1] # x
      BY <1>1, <1>2, <3>1
    <3> QED BY <2>5, <3>1, <3>2, <3>3 DEF Root
  <2>12. Others(g, m, U, {})
    <3> SUFFICES ASSUME NEW y \in Timers, y \notin Nodes(n, T), y # x
                 PROVE  Loose(g, y)
      BY <1>2 DEF Others
    <3>1. Loose(h, y) /\ y # p
      BY <1>1, <2>1 DEF Others, Nodes, p
    <3> QED BY <2>5, <3>1 DEF Loose
  <2> QED BY <1>2, <1>3, <2>5, <2>8, <2>9, <2>10, <2>11, <2>12
            DEF Spells, g, U, m
<1> QED BY <1>5, <1>6

-----------------------------------------------------------------------------
(* The last node is cut off and takes the place of another: heap_remove up *)
(* to its walks.                                                           *)

Cut(T, n) == [k \in 1..(n - 1) |-> T[k]]

CutOff(h, x) == Replace([h EXCEPT !.nelts = @ - 1], x, Nil)

LEMMA CutIs ==
  ASSUME NEW n \in Nat \ {0}, NEW T, Places(n, T)
  PROVE  /\ n - 1 \in Nat /\ n \in 1..n
         /\ \A k \in 1..(n - 1) : k \in 1..n /\ k # n /\ Cut(T, n)[k] = T[k]
         /\ \A k \in 1..n : k = n \/ k \in 1..(n - 1)
         /\ Places(n - 1, Cut(T, n))
         /\ T[n] \in Timers \ Nodes(n - 1, Cut(T, n))
         /\ Nodes(n, T) = Nodes(n - 1, Cut(T, n)) \cup {T[n]}
<1> DEFINE C == Cut(T, n)
<1>1. /\ n - 1 \in Nat /\ n \in 1..n
      /\ \A k \in 1..(n - 1) : k \in 1..n /\ k # n
      /\ \A k \in 1..n : k = n \/ k \in 1..(n - 1)
  OBVIOUS
<1>2. \A k \in 1..(n - 1) : C[k] = T[k]
  BY DEF Cut
<1>3. C \in [1..(n - 1) -> Timers]
  BY <1>1 DEF Cut, Places
<1> HIDE DEF C
<1>4. \A i, j \in 1..(n - 1) : C[i] = C[j] => i = j
  BY <1>1, <1>2 DEF Places
<1>5. T[n] \in Timers /\ \A k \in 1..(n - 1) : C[k] # T[n]
  BY <1>1, <1>2 DEF Places
<1>6. Nodes(n, T) = Nodes(n - 1, C) \cup {T[n]}
  BY <1>1, <1>2 DEF Nodes
<1> QED BY <1>1, <1>2, <1>3, <1>4, <1>5, <1>6 DEF Places, Nodes, C

LEMMA CutSpells ==
  ASSUME NEW n \in Nat \ {0}, NEW h, NEW T, Spells(h, n, T, {})
  PROVE  /\ Spells(CutOff(h, T[n]), n - 1, Cut(T, n), {T[n]})
         /\ CutOff(h, T[n]).parent = h.parent
<1> DEFINE C == Cut(T, n)
           x == T[n]
           g == CutOff(h, x)
           m == n - 1
<1>1. /\ h \in Heaps /\ h.nelts = n
      /\ Places(n, T) /\ Lefts(h, n, T) /\ Rights(h, n, T) /\ Uppers(h, n, T)
      /\ Root(h, n, T) /\ Others(h, n, T, {}) /\ Nil \notin Timers
      /\ \A k \in 1..n : T[k] \in Timers
  BY TimerAssumption DEF Spells, Places
<1>2. /\ m \in Nat /\ n \in 1..n /\ x \in Timers
      /\ \A k \in 1..m : k \in 1..n /\ k # n /\ C[k] = T[k]
      /\ \A k \in 1..n : k = n \/ k \in 1..m
      /\ Places(m, C) /\ Nodes(n, T) = Nodes(m, C) \cup {x}
  BY <1>1, CutIs
<1>3. /\ g \in Heaps /\ g.nelts = m /\ g.parent = h.parent
      /\ g.min = IF h.parent[x] = Nil THEN Nil ELSE h.min
      /\ \A y \in Timers :
           /\ g.left[y] =
                IF h.parent[x] = y /\ h.left[y] = x THEN Nil ELSE h.left[y]
           /\ g.right[y] =
                IF h.parent[x] = y /\ h.left[y] # x THEN Nil ELSE h.right[y]
  <2> DEFINE h0 == [h EXCEPT !.nelts = @ - 1]
  <2>1. /\ h0 \in Heaps /\ h0.nelts = m /\ h0.min = h.min
        /\ h0.left = h.left /\ h0.right = h.right /\ h0.parent = h.parent
    BY <1>1, <1>2 DEF Heaps
  <2>2. g = Replace(h0, x, Nil) /\ Nil \in Links
    BY DEF CutOff, Links
  <2> HIDE DEF h0, g
  <2> QED BY <1>2, <2>1, <2>2, ReplaceTyped
<1>4. /\ n = 1 => h.parent[x] = Nil
      /\ \A k \in 1..n : Child(n, k) =>
           /\ h.parent[x] = T[k]
           /\ h.left[T[k]] = x <=> n = 2 * k
      /\ \A k \in 1..n : ~Child(n, k) => h.parent[x] # T[k]
  BY <1>2, HangsFrom
<1> HIDE DEF C, g, x, m
<1>5. Lefts(g, m, C)
  <2> SUFFICES ASSUME NEW k \in 1..m
               PROVE  /\ \A l \in 1..m : l = 2 * k => g.left[T[k]] = T[l]
                      /\ 2 * k > m => g.left[T[k]] = Nil
    BY <1>2 DEF Lefts
  <2>1. /\ k \in 1..n /\ T[k] \in Timers
        /\ g.left[T[k]] = IF h.parent[x] = T[k] /\ h.left[T[k]] = x THEN Nil
                          ELSE h.left[T[k]]
    BY <1>1, <1>2, <1>3
  <2>2. (h.parent[x] = T[k] /\ h.left[T[k]] = x) => n = 2 * k
    BY <1>4, <2>1
  <2>3. n = 2 * k => h.parent[x] = T[k] /\ h.left[T[k]] = x
    BY <1>4, <2>1 DEF Child
  <2>4. ASSUME NEW l \in 1..m, l = 2 * k PROVE g.left[T[k]] = T[l]
    <3>1. l \in 1..n /\ n # 2 * k
      BY <1>2, <2>4
    <3>2. h.left[T[k]] = T[l]
      BY <1>1, <2>1, <2>4, <3>1 DEF Lefts
    <3> QED BY <2>1, <2>2, <3>1, <3>2
  <2>5. ASSUME 2 * k > m PROVE g.left[T[k]] = Nil
    <3>1. CASE n = 2 * k
      BY <2>1, <2>3, <3>1
    <3>2. CASE n # 2 * k
      <4>1. 2 * k > n
        BY <2>5, <3>2 DEF m
      <4>2. h.left[T[k]] = Nil
        BY <1>1, <2>1, <4>1 DEF Lefts
      <4> QED BY <2>1, <4>2
    <3> QED BY <3>1, <3>2
  <2> QED BY <2>4, <2>5
<1>6. Rights(g, m, C)
  <2> SUFFICES ASSUME NEW k \in 1..m
               PROVE  /\ \A l \in 1..m : l = 2 * k + 1 => g.right[T[k]] = T[l]
                      /\ 2 * k + 1 > m => g.right[T[k]] = Nil
    BY <1>2 DEF Rights
  <2>1. /\ k \in 1..n /\ T[k] \in Timers
        /\ g.right[T[k]] = IF h.parent[x] = T[k] /\ h.left[T[k]] # x THEN Nil
                           ELSE h.right[T[k]]
    BY <1>1, <1>2, <1>3
  <2>2. (h.parent[x] = T[k] /\ h.left[T[k]] # x) => n = 2 * k + 1
    BY <1>4, <2>1 DEF Child
  <2>3. n = 2 * k + 1 => h.parent[x] = T[k] /\ h.left[T[k]] # x
    <3>1. n = 2 * k + 1 => n # 2 * k
      OBVIOUS
    <3> QED BY <1>4, <2>1, <3>1 DEF Child
  <2>4. ASSUME NEW l \in 1..m, l = 2 * k + 1 PROVE g.right[T[k]] = T[l]
    <3>1. l \in 1..n /\ n # 2 * k + 1
      BY <1>2, <2>4
    <3>2. h.right[T[k]] = T[l]
      BY <1>1, <2>1, <2>4, <3>1 DEF Rights
    <3> QED BY <2>1, <2>2, <3>1, <3>2
  <2>5. ASSUME 2 * k + 1 > m PROVE g.right[T[k]] = Nil
    <3>1. CASE n = 2 * k + 1
      BY <2>1, <2>3, <3>1
    <3>2. CASE n # 2 * k + 1
      <4>1. 2 * k + 1 > n
        BY <2>5, <3>2 DEF m
      <4>2. h.right[T[k]] = Nil
        BY <1>1, <2>1, <4>1 DEF Rights
      <4> QED BY <2>1, <4>2
    <3> QED BY <3>1, <3>2
  <2> QED BY <2>4, <2>5
<1>7. Uppers(g, m, C)
  BY <1>1, <1>2, <1>3 DEF Uppers
<1>8. Root(g, m, C)
  <2>1. CASE n = 1
    BY <1>3, <1>4, <2>1 DEF Root, m
  <2>2. CASE n # 1
    <3>1. 1 \in 1..m /\ 1 \in 1..n /\ n # 0
      BY <2>2 DEF m
    <3>2. PICK u \in 1..n : Child(n, u)
      BY <1>2, <2>2, Parents
    <3>3. h.parent[x] # Nil
      BY <1>1, <1>4, <3>2
    <3> QED BY <1>1, <1>2, <1>3, <3>1, <3>3 DEF Root
  <2> QED BY <2>1, <2>2
<1>9. Others(g, m, C, {x})
  <2> SUFFICES ASSUME NEW y \in Timers, y \notin Nodes(n, T)
               PROVE  Loose(g, y)
    BY <1>2 DEF Others
  <2>1. Loose(h, y) /\ h.parent[x] # y
    BY <1>1, <1>2, LinksInside DEF Others, x
  <2> QED BY <1>3, <2>1 DEF Loose
<1> QED BY <1>2, <1>3, <1>5, <1>6, <1>7, <1>8, <1>9 DEF Spells, C, g, x, m

(* The node at place m goes, and z gets its place.                         *)
Moved(T, m, z) == [T EXCEPT ![m] = z]

MovedIn(h, x, z) ==
  LET h2 == Replace(h, x, z)
      h3 == Adopt(h2, {h.left[x], h.right[x]}, z)
  IN  [h3 EXCEPT !.left[z] = h.left[x], !.right[z] = h.right[x],
                 !.parent[z] = h.parent[x]]

LEMMA MovedInDoes ==
  ASSUME NEW h \in Heaps, NEW x \in Timers, NEW z \in Timers
  PROVE  /\ MovedIn(h, x, z) \in Heaps
         /\ MovedIn(h, x, z).nelts = h.nelts
         /\ MovedIn(h, x, z).min = IF h.parent[x] = Nil THEN z ELSE h.min
         /\ \A y \in Timers :
              /\ MovedIn(h, x, z).left[y] =
                   IF y = z THEN h.left[x]
                   ELSE IF h.parent[x] = y /\ h.left[y] = x THEN z
                   ELSE h.left[y]
              /\ MovedIn(h, x, z).right[y] =
                   IF y = z THEN h.right[x]
                   ELSE IF h.parent[x] = y /\ h.left[y] # x THEN z
                   ELSE h.right[y]
              /\ MovedIn(h, x, z).parent[y] =
                   IF y = z THEN h.parent[x]
                   ELSE IF y \in {h.left[x], h.right[x]} THEN z
                   ELSE h.parent[y]
<1> DEFINE h2 == Replace(h, x, z)
           h3 == Adopt(h2, {h.left[x], h.right[x]}, z)
           h4 == [h3 EXCEPT !.left[z] = h.left[x], !.right[z] = h.right[x],
                            !.parent[z] = h.parent[x]]
<1>1. z \in Links
  BY DEF Links
<1>2. /\ h2 \in Heaps /\ h2.nelts = h.nelts /\ h2.parent = h.parent
      /\ h2.min = IF h.parent[x] = Nil THEN z ELSE h.min
      /\ \A y \in Timers :
           /\ h2.left[y] =
                IF h.parent[x] = y /\ h.left[y] = x THEN z ELSE h.left[y]
           /\ h2.right[y] =
                IF h.parent[x] = y /\ h.left[y] # x THEN z ELSE h.right[y]
  BY <1>1, ReplaceTyped
<1> HIDE DEF h2
<1>3. /\ h3 \in Heaps /\ h3.nelts = h2.nelts /\ h3.min = h2.min
      /\ h3.left = h2.left /\ h3.right = h2.right
      /\ \A y \in Timers :
           h3.parent[y] = IF y \in {h.left[x], h.right[x]} THEN z
                          ELSE h2.parent[y]
  BY <1>1, <1>2, AdoptTyped
<1> HIDE DEF h3
<1>4. h.left[x] \in Links /\ h.right[x] \in Links /\ h.parent[x] \in Links
  BY DEF Heaps
<1>5. /\ h4 \in Heaps /\ h4.nelts = h3.nelts /\ h4.min = h3.min
      /\ \A y \in Timers :
           /\ h4.left[y] = IF y = z THEN h.left[x] ELSE h3.left[y]
           /\ h4.right[y] = IF y = z THEN h.right[x] ELSE h3.right[y]
           /\ h4.parent[y] = IF y = z THEN h.parent[x] ELSE h3.parent[y]
  BY <1>3, <1>4 DEF Heaps
<1>6. MovedIn(h, x, z) = h4
  BY DEF MovedIn, h2, h3
<1> HIDE DEF h4
<1> QED BY <1>2, <1>3, <1>5, <1>6

LEMMA MovedIs ==
  ASSUME NEW n \in Nat, NEW T, Places(n, T), NEW m \in 1..n,
         NEW z \in Timers \ Nodes(n, T)
  PROVE  /\ Places(n, Moved(T, m, z)) /\ Moved(T, m, z)[m] = z
         /\ \A k \in 1..n : k # m => Moved(T, m, z)[k] = T[k]
         /\ Nodes(n, Moved(T, m, z)) = (Nodes(n, T) \ {T[m]}) \cup {z}
<1> DEFINE U == Moved(T, m, z)
<1>1. /\ U \in [1..n -> Timers] /\ U[m] = z
      /\ \A k \in 1..n : k # m => U[k] = T[k]
      /\ \A k \in 1..n : T[k] # z
  BY DEF Moved, Places, Nodes
<1> HIDE DEF U
<1>2. \A i, j \in 1..n : U[i] = U[j] => i = j
  BY <1>1 DEF Places
<1>3. Nodes(n, U) = (Nodes(n, T) \ {T[m]}) \cup {z}
  <2>1. \A k \in 1..n : U[k] = z \/ (U[k] = T[k] /\ T[k] # T[m])
    BY <1>1 DEF Places
  <2>2. \A k \in 1..n : T[k] # T[m] => U[k] = T[k]
    BY <1>1
  <2> QED BY <1>1, <2>1, <2>2 DEF Nodes
<1> QED BY <1>1, <1>2, <1>3 DEF Places, U

LEMMA MoveSpells ==
  ASSUME NEW n \in Nat, NEW h, NEW T, NEW m \in 1..n,
         NEW z \in Timers \ Nodes(n, T), Spells(h, n, T, {z})
  PROVE  Spells(MovedIn(h, T[m], z), n, Moved(T, m, z), {T[m]})
<1> DEFINE U == Moved(T, m, z)
           x == T[m]
           g == MovedIn(h, x, z)
<1>1. /\ h \in Heaps /\ h.nelts = n
      /\ Places(n, T) /\ Lefts(h, n, T) /\ Rights(h, n, T) /\ Uppers(h, n, T)
      /\ Root(h, n, T) /\ Others(h, n, T, {z}) /\ Nil \notin Timers
      /\ \A k \in 1..n : T[k] \in Timers /\ T[k] # z
  BY TimerAssumption DEF Spells, Places, Nodes
<1>2. x \in Timers
  BY <1>1
<1>3. /\ g \in Heaps /\ g.nelts = n
      /\ g.min = IF h.parent[x] = Nil THEN z ELSE h.min
      /\ \A y \in Timers :
           /\ g.left[y] = IF y = z THEN h.left[x]
                          ELSE IF h.parent[x] = y /\ h.left[y] = x THEN z
                          ELSE h.left[y]
           /\ g.right[y] = IF y = z THEN h.right[x]
                           ELSE IF h.parent[x] = y /\ h.left[y] # x THEN z
                           ELSE h.right[y]
           /\ g.parent[y] = IF y = z THEN h.parent[x]
                            ELSE IF y \in {h.left[x], h.right[x]} THEN z
                            ELSE h.parent[y]
  <2> HIDE DEF x
  <2> QED BY <1>1, <1>2, MovedInDoes
<1>4. /\ Places(n, U) /\ U[m] = z
      /\ \A k \in 1..n : k # m => U[k] = T[k]
      /\ Nodes(n, U) = (Nodes(n, T) \ {x}) \cup {z}
  BY <1>1, MovedIs
<1>5. /\ m = 1 => h.parent[x] = Nil
      /\ \A k \in 1..n : Child(m, k) =>
           /\ h.parent[x] = T[k]
           /\ h.left[T[k]] = x <=> m = 2 * k
      /\ \A k \in 1..n : ~Child(m, k) => h.parent[x] # T[k]
  BY HangsFrom
<1>6. /\ \A k \in 1..n : Child(k, m) => T[k] \in {h.left[x], h.right[x]}
      /\ \A k \in 1..n : ~Child(k, m) => T[k] \notin {h.left[x], h.right[x]}
  BY HangsBelow
<1> HIDE DEF U, x, g
<1>7. Lefts(g, n, U)
  <2> SUFFICES ASSUME NEW k \in 1..n
               PROVE  /\ \A l \in 1..n : l = 2 * k => g.left[U[k]] = U[l]
                      /\ 2 * k > n => g.left[U[k]] = Nil
    BY DEF Lefts
  <2>1. CASE k = m
    <3>1. g.left[U[k]] = h.left[x]
      BY <1>3, <1>4, <2>1
    <3>2. \A l \in 1..n : l = 2 * k => U[l] = T[l]
      BY <1>4, <2>1
    <3> QED BY <1>1, <2>1, <3>1, <3>2 DEF Lefts, x
  <2>2. CASE k # m
    <3>1. /\ U[k] = T[k]
          /\ g.left[T[k]] = IF h.parent[x] = T[k] /\ h.left[T[k]] = x THEN z
                            ELSE h.left[T[k]]
      BY <1>1, <1>3, <1>4, <2>2
    <3>2. (h.parent[x] = T[k] /\ h.left[T[k]] = x) <=> m = 2 * k
      BY <1>5 DEF Child
    <3>3. ASSUME NEW l \in 1..n, l = 2 * k PROVE g.left[T[k]] = U[l]
      <4>1. h.left[T[k]] = T[l]
        BY <1>1, <3>3 DEF Lefts
      <4>2. CASE l = m
        BY <1>4, <3>1, <3>2, <3>3, <4>2
      <4>3. CASE l # m
        <5>1. m # 2 * k
          BY <3>3, <4>3
        <5> QED BY <1>4, <3>1, <3>2, <4>1, <4>3, <5>1
      <4> QED BY <4>2, <4>3
    <3>4. ASSUME 2 * k > n PROVE g.left[T[k]] = Nil
      <4>1. m # 2 * k
        BY <3>4
      <4>2. h.left[T[k]] = Nil
        BY <1>1, <3>4 DEF Lefts
      <4> QED BY <3>1, <3>2, <4>1, <4>2
    <3> QED BY <3>1, <3>3, <3>4
  <2> QED BY <2>1, <2>2
<1>8. Rights(g, n, U)
  <2> SUFFICES ASSUME NEW k \in 1..n
               PROVE  /\ \A l \in 1..n : l = 2 * k + 1 => g.right[U[k]] = U[l]
                      /\ 2 * k + 1 > n => g.right[U[k]] = Nil
    BY DEF Rights
  <2>1. CASE k = m
    <3>1. g.right[U[k]] = h.right[x]
      BY <1>3, <1>4, <2>1
    <3>2. \A l \in 1..n : l = 2 * k + 1 => U[l] = T[l]
      BY <1>4, <2>1
    <3> QED BY <1>1, <2>1, <3>1, <3>2 DEF Rights, x
  <2>2. CASE k # m
    <3>1. /\ U[k] = T[k]
          /\ g.right[T[k]] = IF h.parent[x] = T[k] /\ h.left[T[k]] # x THEN z
                             ELSE h.right[T[k]]
      BY <1>1, <1>3, <1>4, <2>2
    <3>2. (h.parent[x] = T[k] /\ h.left[T[k]] # x) <=> m = 2 * k + 1
      <4>1. m = 2 * k + 1 => m # 2 * k
        OBVIOUS
      <4> QED BY <1>5, <4>1 DEF Child
    <3>3. ASSUME NEW l \in 1..n, l = 2 * k + 1 PROVE g.right[T[k]] = U[l]
      <4>1. h.right[T[k]] = T[l]
        BY <1>1, <3>3 DEF Rights
      <4>2. CASE l = m
        BY <1>4, <3>1, <3>2, <3>3, <4>2
      <4>3. CASE l # m
        <5>1. m # 2 * k + 1
          BY <3>3, <4>3
        <5> QED BY <1>4, <3>1, <3>2, <4>1, <4>3, <5>1
      <4> QED BY <4>2, <4>3
    <3>4. ASSUME 2 * k + 1 > n PROVE g.right[T[k]] = Nil
      <4>1. m # 2 * k + 1
        BY <3>4
      <4>2. h.right[T[k]] = Nil
        BY <1>1, <3>4 DEF Rights
      <4> QED BY <3>1, <3>2, <4>1, <4>2
    <3> QED BY <3>1, <3>3, <3>4
  <2> QED BY <2>1, <2>2
<1>9. Uppers(g, n, U)
  <2> SUFFICES ASSUME NEW a \in 1..n, NEW b \in 1..n, Child(a, b)
               PROVE  g.parent[U[a]] = U[b]
    BY DEF Uppers
  <2>1. CASE a = m
    <3>1. b # m /\ U[b] = T[b]
      BY <1>4, <2>1 DEF Child
    <3> QED BY <1>1, <1>3, <1>4, <1>5, <2>1, <3>1
  <2>2. CASE a # m
    <3>1. U[a] = T[a] /\ T[a] \in Timers /\ T[a] # z
      BY <1>1, <1>4, <2>2
    <3>2. CASE b = m
      BY <1>3, <1>4, <1>6, <3>1, <3>2
    <3>3. CASE b # m
      <4>1. ~Child(a, m)
        BY <3>3 DEF Child
      <4>2. h.parent[T[a]] = T[b] /\ U[b] = T[b]
        BY <1>1, <1>4, <3>3 DEF Uppers
      <4> QED BY <1>3, <1>6, <3>1, <4>1, <4>2
    <3> QED BY <3>2, <3>3
  <2> QED BY <2>1, <2>2
<1>10. Root(g, n, U)
  <2>1. n # 0 /\ 1 \in 1..n
    OBVIOUS
  <2>2. h.min = T[1] /\ h.parent[T[1]] = Nil
    BY <1>1, <2>1 DEF Root
  <2>3. CASE m = 1
    BY <1>1, <1>3, <1>4, <1>5, <2>1, <2>3 DEF Root
  <2>4. CASE m # 1
    <3>1. PICK u \in 1..n : Child(m, u)
      BY <2>4, Parents
    <3>2. h.parent[x] # Nil
      BY <1>1, <1>5, <3>1
    <3>3. ~Child(1, m)
      BY DEF Child
    <3> QED BY <1>1, <1>3, <1>4, <1>6, <2>1, <2>2, <2>4, <3>2, <3>3 DEF Root
  <2> QED BY <2>3, <2>4
<1>11. Others(g, n, U, {x})
  <2> SUFFICES ASSUME NEW y \in Timers, y \notin Nodes(n, T), y # z
               PROVE  Loose(g, y)
    BY <1>4 DEF Others
  <2>1. /\ Loose(h, y) /\ h.parent[x] # y
        /\ h.left[x] # y /\ h.right[x] # y
    BY <1>1, LinksInside DEF Others, x
  <2> QED BY <1>3, <2>1 DEF Loose
<1> QED BY <1>3, <1>4, <1>7, <1>8, <1>9, <1>10, <1>11 DEF Spells, U, x, g

(* The node that left loses its links.                                     *)
LEMMA ClearSpells ==
  ASSUME NEW n \in Nat, NEW h, NEW T, NEW x \in Timers \ Nodes(n, T),
         Spells(h, n, T, {x})
  PROVE  Spells(Clear(h, x), n, T, {})
<1> DEFINE g == Clear(h, x)
<1>1. /\ h \in Heaps /\ h.nelts = n
      /\ Places(n, T) /\ Lefts(h, n, T) /\ Rights(h, n, T) /\ Uppers(h, n, T)
      /\ Root(h, n, T) /\ Others(h, n, T, {x})
      /\ \A k \in 1..n : T[k] \in Timers /\ T[k] # x
  BY DEF Spells, Places, Nodes
<1>2. /\ g \in Heaps /\ g.nelts = n /\ g.min = h.min
      /\ \A y \in Timers :
           /\ g.left[y] = IF y = x THEN Nil ELSE h.left[y]
           /\ g.right[y] = IF y = x THEN Nil ELSE h.right[y]
           /\ g.parent[y] = IF y = x THEN Nil ELSE h.parent[y]
  BY <1>1 DEF Clear, Heaps, Links
<1> HIDE DEF g
<1>3. Lefts(g, n, T) /\ Rights(g, n, T) /\ Uppers(g, n, T)
  BY <1>1, <1>2 DEF Lefts, Rights, Uppers
<1>4. Root(g, n, T)
  <2>1. n # 0 => 1 \in 1..n
    OBVIOUS
  <2> QED BY <1>1, <1>2, <2>1 DEF Root
<1>5. Others(g, n, T, {})
  BY <1>1, <1>2 DEF Others, Loose
<1> QED BY <1>1, <1>2, <1>3, <1>4, <1>5 DEF Spells, g

-----------------------------------------------------------------------------
(* The order of the heap, and the walks that restore it.                   *)

Keys == [Timers -> Nat]

Ordered(n, T, tm) ==
  \A i, j \in 1..n : Child(i, j) => tm[T[j]] <= tm[T[i]]

(* In order but for x: around x, too, the nodes below are not before the   *)
(* node above.                                                             *)
Near(n, T, tm, x) ==
  /\ \A i, j \in 1..n : Child(i, j) /\ T[i] # x /\ T[j] # x =>
       tm[T[j]] <= tm[T[i]]
  /\ \A i, m, j \in 1..n : T[m] = x /\ Child(i, m) /\ Child(m, j) =>
       tm[T[j]] <= tm[T[i]]

\* x is not after the nodes below it, or not before the node above.
FirstBelow(n, T, tm, x) ==
  \A i, m \in 1..n : T[m] = x /\ Child(i, m) => tm[x] <= tm[T[i]]

NotBeforeAbove(n, T, tm, x) ==
  \A m, j \in 1..n : T[m] = x /\ Child(m, j) => tm[T[j]] <= tm[x]

LEMMA NearEnough ==
  ASSUME NEW n \in Nat, NEW T, NEW tm, NEW x, Near(n, T, tm, x),
         FirstBelow(n, T, tm, x), NotBeforeAbove(n, T, tm, x)
  PROVE  Ordered(n, T, tm)
BY DEF Near, FirstBelow, NotBeforeAbove, Ordered

(* An exchange upwards keeps the order near x.                             *)
LEMMA ExchangeUp ==
  ASSUME NEW n \in Nat, NEW T, Places(n, T), NEW tm \in Keys,
         NEW m \in 1..n, NEW j \in 1..n, Child(m, j),
         Near(n, T, tm, T[m]), tm[T[m]] < tm[T[j]]
  PROVE  /\ Near(n, Exchange(T, m, j), tm, T[m])
         /\ FirstBelow(n, Exchange(T, m, j), tm, T[m])
<1> DEFINE U == Exchange(T, m, j)
           x == T[m]
           p == T[j]
<1>1. /\ Places(n, U) /\ U[m] = p /\ U[j] = x
      /\ \A k \in 1..n : k # m /\ k # j => U[k] = T[k]
      /\ m # j
  <2>1. m # j
    BY DEF Child
  <2> QED BY <2>1, ExchangeIs
<1>2. \A k \in 1..n : T[k] \in Timers /\ tm[T[k]] \in Nat
  BY DEF Places, Keys
<1> HIDE DEF U
<1>3. \A k \in 1..n : (U[k] = x <=> k = j) /\ (T[k] = x <=> k = m)
  BY <1>1 DEF Places
<1>4. ASSUME NEW i \in 1..n, Child(i, m)
      PROVE  tm[p] <= tm[T[i]]
  BY <1>4 DEF Near
<1>5. ASSUME NEW i \in 1..n, Child(i, j), i # m
      PROVE  tm[p] <= tm[T[i]]
  BY <1>1, <1>3, <1>5 DEF Near
<1>6. ASSUME NEW k \in 1..n, Child(j, k)
      PROVE  tm[T[k]] <= tm[p] /\ U[k] = T[k]
  <2>1. k # m /\ k # j
    BY <1>6 DEF Child
  <2> QED BY <1>1, <1>3, <1>6, <2>1 DEF Near
<1>7. ASSUME NEW i \in 1..n, NEW k \in 1..n, Child(i, k), U[i] # x, U[k] # x
      PROVE  tm[U[k]] <= tm[U[i]]
  <2>1. i # j /\ k # j
    BY <1>3, <1>7
  <2>2. CASE k = m
    <3>1. i # m /\ U[i] = T[i]
      <4>1. i # m
        BY <1>7, <2>2 DEF Child
      <4> QED BY <1>1, <2>1, <4>1
    <3> QED BY <1>1, <1>4, <1>7, <2>2, <3>1
  <2>3. CASE k # m
    <3>1. i # m
      BY <1>7, <2>1 DEF Child
    <3>2. U[i] = T[i] /\ U[k] = T[k] /\ T[i] # x /\ T[k] # x
      BY <1>1, <1>3, <2>1, <2>3, <3>1
    <3> QED BY <1>7, <3>2 DEF Near
  <2> QED BY <2>2, <2>3
<1>8. ASSUME NEW i \in 1..n, NEW l \in 1..n, U[l] = x, Child(i, l)
      PROVE  /\ tm[x] <= tm[U[i]]
             /\ \A k \in 1..n : Child(l, k) => tm[U[k]] <= tm[U[i]]
  <2>1. l = j
    BY <1>3, <1>8
  <2>2. CASE i = m
    BY <1>1, <1>2, <1>6, <2>1, <2>2
  <2>3. CASE i # m
    <3>1. i # j
      BY <1>8, <2>1 DEF Child
    <3>2. U[i] = T[i] /\ tm[p] <= tm[T[i]]
      BY <1>1, <1>5, <1>8, <2>1, <2>3, <3>1
    <3>3. \A k \in 1..n : Child(j, k) => tm[T[k]] <= tm[T[i]]
      BY <1>2, <1>6, <3>2
    <3> QED BY <1>2, <1>6, <2>1, <3>2, <3>3
  <2> QED BY <2>2, <2>3
<1>9. FirstBelow(n, U, tm, x)
  BY <1>8 DEF FirstBelow
<1>10. Near(n, U, tm, x)
  BY <1>7, <1>8 DEF Near
<1> QED BY <1>9, <1>10 DEF U

(* So does an exchange with the first of the nodes below.                  *)
LEMMA ExchangeDown ==
  ASSUME NEW n \in Nat, NEW T, Places(n, T), NEW tm \in Keys,
         NEW m \in 1..n, NEW c \in 1..n, Child(c, m),
         Near(n, T, tm, T[m]),
         \A i \in 1..n : Child(i, m) => tm[T[c]] <= tm[T[i]]
  PROVE  Near(n, Exchange(T, c, m), tm, T[m])
<1> DEFINE U == Exchange(T, c, m)
           x == T[m]
           s == T[c]
<1>1. /\ Places(n, U) /\ U[c] = x /\ U[m] = s
      /\ \A k \in 1..n : k # m /\ k # c => U[k] = T[k]
      /\ m # c
  <2>1. m # c
    BY DEF Child
  <2> QED BY <2>1, ExchangeIs
<1> HIDE DEF U
<1>2. \A k \in 1..n : (U[k] = x <=> k = c) /\ (T[k] = x <=> k = m)
  BY <1>1 DEF Places
<1>3. ASSUME NEW i \in 1..n, NEW k \in 1..n, Child(i, k), U[i] # x, U[k] # x
      PROVE  tm[U[k]] <= tm[U[i]]
  <2>1. i # c /\ k # c
    BY <1>2, <1>3
  <2>2. CASE k = m
    <3>1. i # m
      BY <1>3, <2>2 DEF Child
    <3> QED BY <1>1, <1>3, <2>1, <2>2, <3>1
  <2>3. CASE i = m
    <3>1. k # m
      BY <1>3, <2>3 DEF Child
    <3>2. U[k] = T[k]
      BY <1>1, <2>1, <3>1
    <3> QED BY <1>1, <1>3, <2>3, <3>2 DEF Near
  <2>4. CASE i # m /\ k # m
    <3>1. U[i] = T[i] /\ U[k] = T[k] /\ T[i] # x /\ T[k] # x
      BY <1>1, <1>2, <2>1, <2>4
    <3> QED BY <1>3, <3>1 DEF Near
  <2> QED BY <2>2, <2>3, <2>4
<1>4. ASSUME NEW i \in 1..n, NEW l \in 1..n, NEW k \in 1..n,
             U[l] = x, Child(i, l), Child(l, k)
      PROVE  tm[U[k]] <= tm[U[i]]
  <2>1. l = c
    BY <1>2, <1>4
  <2>2. k = m
    BY <1>4, <2>1 DEF Child
  <2>3. i # m /\ i # c
    BY <1>4, <2>1 DEF Child
  <2>4. tm[s] <= tm[T[i]]
    BY <1>2, <1>4, <2>1, <2>3, <1>1 DEF Near
  <2> QED BY <1>1, <2>2, <2>3, <2>4
<1> QED BY <1>3, <1>4 DEF Near, U

(* An iteration of the walk up ends it, or moves x to the place above.     *)
LEMMA UpOnceDoes ==
  ASSUME NEW n \in Nat, NEW h, NEW T, NEW X, Spells(h, n, T, X),
         NEW tm \in Keys, NEW m \in 1..n,
         Near(n, T, tm, T[m]), FirstBelow(n, T, tm, T[m])
  PROVE  \/ UpOnce(h, T[m], tm) = h /\ NotBeforeAbove(n, T, tm, T[m])
         \/ \E j \in 1..n :
              /\ j < m
              /\ Spells(UpOnce(h, T[m], tm), n, Exchange(T, m, j), X)
              /\ Near(n, Exchange(T, m, j), tm, T[m])
              /\ FirstBelow(n, Exchange(T, m, j), tm, T[m])
              /\ Exchange(T, m, j)[j] = T[m]
              /\ Nodes(n, Exchange(T, m, j)) = Nodes(n, T)
<1>1. /\ Places(n, T) /\ Nil \notin Timers
      /\ \A k \in 1..n : T[k] \in Timers /\ tm[T[k]] \in Nat
      /\ \A k \in 1..n : T[k] = T[m] <=> k = m
  BY TimerAssumption DEF Spells, Places, Keys
<1>2. CASE m = 1
  <2>1. h.parent[T[m]] = Nil
    BY <1>2, HangsFrom
  <2>2. \A j \in 1..n : ~Child(m, j)
    BY <1>2 DEF Child
  <2> QED BY <1>1, <2>1, <2>2 DEF UpOnce, NotBeforeAbove
<1>3. CASE m # 1
  <2>1. PICK j \in 1..n : Child(m, j) /\ j < m
    BY <1>3, Parents
  <2>2. h.parent[T[m]] = T[j] /\ T[j] # Nil
    BY <1>1, <2>1, HangsFrom
  <2>3. \A k \in 1..n : Child(m, k) => k = j
    BY <2>1 DEF Child
  <2>4. CASE tm[T[m]] < tm[T[j]]
    <3>1. UpOnce(h, T[m], tm) = Swap(h, T[j], T[m])
      BY <2>2, <2>4 DEF UpOnce
    <3>2. Spells(UpOnce(h, T[m], tm), n, Exchange(T, m, j), X)
      BY <2>1, <3>1, SwapSpells
    <3>3. /\ Near(n, Exchange(T, m, j), tm, T[m])
          /\ FirstBelow(n, Exchange(T, m, j), tm, T[m])
      BY <1>1, <2>1, <2>4, ExchangeUp
    <3>4. /\ Exchange(T, m, j)[j] = T[m]
          /\ Nodes(n, Exchange(T, m, j)) = Nodes(n, T)
      <4>1. m # j
        BY <2>1
      <4> QED BY <1>1, <4>1, ExchangeIs
    <3> QED BY <2>1, <3>2, <3>3, <3>4
  <2>5. CASE ~(tm[T[m]] < tm[T[j]])
    <3>1. UpOnce(h, T[m], tm) = h
      BY <2>2, <2>5 DEF UpOnce
    <3>2. tm[T[j]] <= tm[T[m]]
      BY <1>1, <2>5
    <3>3. NotBeforeAbove(n, T, tm, T[m])
      BY <1>1, <2>3, <3>2 DEF NotBeforeAbove
    <3> QED BY <3>1, <3>3
  <2> QED BY <2>4, <2>5
<1> QED BY <1>2, <1>3

LEMMA UpOnceRests ==
  ASSUME NEW n \in Nat, NEW h, NEW T, NEW X, Spells(h, n, T, X),
         NEW tm \in Keys, NEW m \in 1..n, NotBeforeAbove(n, T, tm, T[m])
  PROVE  UpOnce(h, T[m], tm) = h
<1> SUFFICES ASSUME h.parent[T[m]] # Nil
             PROVE  ~(tm[T[m]] < tm[h.parent[T[m]]])
  BY DEF UpOnce
<1>1. m # 1
  BY HangsFrom
<1>2. PICK i \in 1..n : Child(m, i)
  BY <1>1, Parents
<1>3. h.parent[T[m]] = T[i]
  BY <1>2, HangsFrom
<1>4. tm[T[i]] <= tm[T[m]]
  BY <1>2 DEF NotBeforeAbove
<1>5. tm[T[i]] \in Nat /\ tm[T[m]] \in Nat
  BY DEF Spells, Places, Keys
<1> QED BY <1>3, <1>4, <1>5

LEMMA UpOnceTyped ==
  ASSUME NEW h \in Heaps, NEW x \in Timers, NEW tm
  PROVE  UpOnce(h, x, tm) \in Heaps
<1>1. h.parent[x] # Nil => h.parent[x] \in Timers
  BY DEF Heaps, Links
<1> QED BY <1>1, SwapDoes DEF UpOnce

(* After k iterations the walk up has ended, or x has climbed k places.    *)
Rising(h, n, M, X, x, tm, k) ==
  \E T, m :
    /\ m \in 1..n /\ T[m] = x
    /\ Spells(h, n, T, X) /\ Nodes(n, T) = M
    /\ Near(n, T, tm, x) /\ FirstBelow(n, T, tm, x)
    /\ m + k <= n \/ NotBeforeAbove(n, T, tm, x)

LEMMA RisingStep ==
  ASSUME NEW n \in Nat, NEW k \in Nat, NEW h, NEW M, NEW X, NEW x,
         NEW tm \in Keys, Rising(h, n, M, X, x, tm, k)
  PROVE  Rising(UpOnce(h, x, tm), n, M, X, x, tm, k + 1)
<1>1. PICK T, m :
        /\ m \in 1..n /\ T[m] = x
        /\ Spells(h, n, T, X) /\ Nodes(n, T) = M
        /\ Near(n, T, tm, x) /\ FirstBelow(n, T, tm, x)
        /\ m + k <= n \/ NotBeforeAbove(n, T, tm, x)
  BY DEF Rising
<1>2. CASE UpOnce(h, x, tm) = h /\ NotBeforeAbove(n, T, tm, x)
  BY <1>1, <1>2 DEF Rising
<1>3. CASE \E j \in 1..n :
              /\ j < m
              /\ Spells(UpOnce(h, x, tm), n, Exchange(T, m, j), X)
              /\ Near(n, Exchange(T, m, j), tm, x)
              /\ FirstBelow(n, Exchange(T, m, j), tm, x)
              /\ Exchange(T, m, j)[j] = x
              /\ Nodes(n, Exchange(T, m, j)) = Nodes(n, T)
  <2>1. PICK j \in 1..n :
              /\ j < m
              /\ Spells(UpOnce(h, x, tm), n, Exchange(T, m, j), X)
              /\ Near(n, Exchange(T, m, j), tm, x)
              /\ FirstBelow(n, Exchange(T, m, j), tm, x)
              /\ Exchange(T, m, j)[j] = x
              /\ Nodes(n, Exchange(T, m, j)) = Nodes(n, T)
    BY <1>3
  <2>2. CASE m + k <= n
    <3>1. j + (k + 1) <= n
      BY <1>1, <2>1, <2>2
    <3> QED BY <1>1, <2>1, <3>1 DEF Rising
  <2>3. CASE NotBeforeAbove(n, T, tm, x)
    <3>1. UpOnce(h, x, tm) = h
      BY <1>1, <2>3, UpOnceRests
    <3> QED BY <1>1, <2>3, <3>1 DEF Rising
  <2> QED BY <1>1, <2>2, <2>3
<1> QED BY <1>1, <1>2, <1>3, UpOnceDoes

(* The walk up restores the order, whatever place it starts from, and ends *)
(* within n iterations.                                                    *)
LEMMA SiftUpDoes ==
  ASSUME NEW n \in Nat, NEW h, NEW T, NEW X, Spells(h, n, T, X),
         NEW tm \in Keys, NEW m \in 1..n,
         Near(n, T, tm, T[m]), FirstBelow(n, T, tm, T[m])
  PROVE  /\ \E U : /\ Spells(SiftUp(h, T[m], tm), n, U, X)
                   /\ Ordered(n, U, tm) /\ Nodes(n, U) = Nodes(n, T)
         /\ LET g == SiftUp(h, T[m], tm) IN UpOnce(g, T[m], tm) = g
<1> DEFINE x == T[m]
           M == Nodes(n, T)
           F == [g \in Heaps |-> UpOnce(g, x, tm)]
           w == CHOOSE w : w = [k \in 0..n |-> IF k = 0 THEN h
                                  ELSE UpOnce(w[k - 1], x, tm)]
           P == {k \in 0..n : Rising(w[k], n, M, X, x, tm, k)}
<1>1. h \in Heaps /\ h.nelts = n /\ x \in Timers
  BY DEF Spells, Places
<1>2. F \in [Heaps -> Heaps]
  BY <1>1, UpOnceTyped
<1>3. w = [k \in 0..n |-> IF k = 0 THEN h ELSE UpOnce(w[k - 1], x, tm)]
  <2>0. IteratesTo(Heaps, F, h, n)
    <3> HIDE DEF F
    <3> QED BY <1>1, <1>2, Iterating
  <2>1. PICK v \in [0..n -> Heaps] :
          v[0] = h /\ \A k \in 1..n : v[k] = F[v[k - 1]]
    <3> HIDE DEF F
    <3> QED BY <2>0 DEF IteratesTo
  <2>2. \A k \in 0..n : k # 0 => v[k - 1] \in Heaps
    <3>1. \A k \in 0..n : k # 0 => k - 1 \in 0..n
      OBVIOUS
    <3> QED BY <2>1, <3>1
  <2>3. \A k \in 0..n : k # 0 => F[v[k - 1]] = UpOnce(v[k - 1], x, tm)
    BY <2>2
  <2>4. \A k \in 0..n : v[k] = IF k = 0 THEN h ELSE UpOnce(v[k - 1], x, tm)
    <3> HIDE DEF F, x
    <3>1. \A k \in 0..n : k # 0 => k \in 1..n
      OBVIOUS
    <3> QED BY <2>1, <2>3, <3>1
  <2>5. v = [k \in 0..n |-> IF k = 0 THEN h ELSE UpOnce(v[k - 1], x, tm)]
    <3> HIDE DEF F, x
    <3> QED BY <2>1, <2>4
  <2> HIDE DEF F, x
  <2> QED BY <2>5
<1>4. SiftUp(h, x, tm) = w[n]
  BY <1>1 DEF SiftUp
<1> HIDE DEF w, F
<1>5. w[0] = h /\ \A k \in 1..n : w[k] = UpOnce(w[k - 1], x, tm)
  <2>1. \A k \in 0..n : w[k] = IF k = 0 THEN h ELSE UpOnce(w[k - 1], x, tm)
    <3> HIDE DEF x
    <3> QED BY <1>3
  <2>2. 0 \in 0..n /\ \A k \in 1..n : k \in 0..n /\ k # 0
    OBVIOUS
  <2> HIDE DEF x
  <2> QED BY <2>1, <2>2
<1>6. 0 \in P
  <2>1. m + 0 <= n
    OBVIOUS
  <2>2. Rising(h, n, M, X, x, tm, 0)
    BY <2>1 DEF Rising
  <2> HIDE DEF x, M
  <2> QED BY <1>5, <2>2
<1> HIDE DEF x, M
<1>7. ASSUME NEW k \in 1..n, k - 1 \in P PROVE k \in P
  <2>1. Rising(w[k - 1], n, M, X, x, tm, k - 1) /\ k - 1 \in Nat
    BY <1>7
  <2>2. Rising(w[k], n, M, X, x, tm, (k - 1) + 1)
    BY <1>5, <2>1, RisingStep
  <2> QED BY <2>2
<1>8. Rising(w[n], n, M, X, x, tm, n)
  <2>1. 0..n \subseteq P
    <3> HIDE DEF P
    <3> QED BY <1>6, <1>7, Counting
  <2> QED BY <2>1
<1>9. PICK U, i :
        /\ i \in 1..n /\ U[i] = x
        /\ Spells(w[n], n, U, X) /\ Nodes(n, U) = M
        /\ Near(n, U, tm, x) /\ FirstBelow(n, U, tm, x)
        /\ i + n <= n \/ NotBeforeAbove(n, U, tm, x)
  BY <1>8 DEF Rising
<1>10. ~(i + n <= n)
  BY <1>9
<1>11. Ordered(n, U, tm)
  BY <1>9, <1>10, NearEnough
<1>12. UpOnce(w[n], x, tm) = w[n]
  BY <1>9, <1>10, UpOnceRests
<1> QED BY <1>4, <1>9, <1>11, <1>12 DEF M, x

-----------------------------------------------------------------------------
(* The walk down.                                                          *)

LEMMA DownOnceTyped ==
  ASSUME NEW h \in Heaps, NEW x \in Timers, NEW tm
  PROVE  DownOnce(h, x, tm) \in Heaps
<1>1. h.left[x] # Nil => h.left[x] \in Timers
  BY DEF Heaps, Links
<1>2. h.right[x] # Nil => h.right[x] \in Timers
  BY DEF Heaps, Links
<1> QED BY <1>1, <1>2, SwapDoes DEF DownOnce

(* The child taken, if any, is the first of the nodes below.               *)
LEMMA DownOnceTakes ==
  ASSUME NEW n \in Nat, NEW h, NEW T, NEW X, Spells(h, n, T, X),
         NEW tm \in Keys, NEW m \in 1..n
  PROVE  \/ DownOnce(h, T[m], tm) = h /\ FirstBelow(n, T, tm, T[m])
         \/ \E c \in 1..n :
              /\ Child(c, m) /\ DownOnce(h, T[m], tm) = Swap(h, T[m], T[c])
              /\ tm[T[c]] < tm[T[m]]
              /\ \A i \in 1..n : Child(i, m) => tm[T[c]] <= tm[T[i]]
<1> DEFINE x == T[m]
           l == h.left[x]
           r == h.right[x]
           a == IF l # Nil /\ tm[l] < tm[x] THEN l ELSE x
           s == IF r # Nil /\ tm[r] < tm[a] THEN r ELSE a
<1>1. /\ Places(n, T) /\ Lefts(h, n, T) /\ Rights(h, n, T)
      /\ \A k \in 1..n : T[k] \in Timers /\ T[k] # Nil /\ tm[T[k]] \in Nat
      /\ \A k \in 1..n : T[k] = x <=> k = m
  BY TimerAssumption DEF Spells, Places, Keys
<1>2. l # Nil => 2 * m \in 1..n /\ l = T[2 * m]
  <2>1. CASE 2 * m > n
    BY <1>1, <2>1 DEF Lefts
  <2>2. CASE ~(2 * m > n)
    <3>1. 2 * m \in 1..n
      BY <2>2
    <3> QED BY <1>1, <3>1 DEF Lefts
  <2> QED BY <2>1, <2>2
<1>3. r # Nil => 2 * m + 1 \in 1..n /\ r = T[2 * m + 1]
  <2>1. CASE 2 * m + 1 > n
    BY <1>1, <2>1 DEF Rights
  <2>2. CASE ~(2 * m + 1 > n)
    <3>1. 2 * m + 1 \in 1..n
      BY <2>2
    <3> QED BY <1>1, <3>1 DEF Rights
  <2> QED BY <2>1, <2>2
<1>4. ASSUME NEW i \in 1..n, Child(i, m)
      PROVE  (l # Nil /\ T[i] = l) \/ (r # Nil /\ T[i] = r)
  <2>1. T[i] \in {l, r} /\ T[i] # Nil
    BY <1>1, <1>4, HangsBelow
  <2> QED BY <2>1
<1>5. DownOnce(h, x, tm) = IF s = x THEN h ELSE Swap(h, x, s)
  BY DEF DownOnce
<1>6. /\ l # Nil => l # x /\ tm[l] \in Nat
      /\ r # Nil => r # x /\ tm[r] \in Nat
      /\ tm[x] \in Nat
  <2>1. 2 * m # m /\ 2 * m + 1 # m
    OBVIOUS
  <2> QED BY <1>1, <1>2, <1>3, <2>1
<1> HIDE DEF x, l, r
<1>7. CASE s = x
  <2>1. /\ l # Nil => tm[x] <= tm[l]
        /\ r # Nil => tm[x] <= tm[r]
    BY <1>6, <1>7
  <2>2. \A i \in 1..n : Child(i, m) => tm[x] <= tm[T[i]]
    BY <1>4, <2>1
  <2>3. FirstBelow(n, T, tm, x)
    BY <1>1, <2>2 DEF FirstBelow
  <2> QED BY <1>5, <1>7, <2>3 DEF x
<1>8. CASE s # x
  <2>1. PICK c \in 1..n : Child(c, m) /\ s = T[c]
    <3>1. (l # Nil /\ s = l) \/ (r # Nil /\ s = r)
      BY <1>8
    <3> QED BY <1>2, <1>3, <3>1 DEF Child
  <2>2. /\ l # Nil => tm[s] <= tm[l]
        /\ r # Nil => tm[s] <= tm[r]
    BY <1>6, <1>8
  <2>3. \A i \in 1..n : Child(i, m) => tm[s] <= tm[T[i]]
    BY <1>4, <2>2
  <2>4. tm[s] < tm[x]
    BY <1>6, <1>8
  <2> HIDE DEF s
  <2>5. DownOnce(h, x, tm) = Swap(h, x, T[c])
    BY <1>5, <1>8, <2>1
  <2> QED BY <2>1, <2>3, <2>4, <2>5 DEF x
<1> QED BY <1>7, <1>8

LEMMA DownOnceRests ==
  ASSUME NEW n \in Nat, NEW h, NEW T, NEW X, Spells(h, n, T, X),
         NEW tm \in Keys, NEW m \in 1..n, FirstBelow(n, T, tm, T[m])
  PROVE  DownOnce(h, T[m], tm) = h
<1>1. CASE \E c \in 1..n : Child(c, m) /\ tm[T[c]] < tm[T[m]]
  <2>1. \A c \in 1..n : tm[T[c]] \in Nat
    BY DEF Spells, Places, Keys
  <2> QED BY <1>1, <2>1 DEF FirstBelow
<1> QED BY <1>1, DownOnceTakes

(* After k iterations the walk down has ended, or x has sunk k places.     *)
Sinking(h, n, M, X, x, tm, k) ==
  \E T, m :
    /\ m \in 1..n /\ T[m] = x
    /\ Spells(h, n, T, X) /\ Nodes(n, T) = M
    /\ Near(n, T, tm, x)
    /\ k < m \/ FirstBelow(n, T, tm, x)

LEMMA SinkingStep ==
  ASSUME NEW n \in Nat, NEW k \in Nat, NEW h, NEW M, NEW X, NEW x,
         NEW tm \in Keys, Sinking(h, n, M, X, x, tm, k)
  PROVE  Sinking(DownOnce(h, x, tm), n, M, X, x, tm, k + 1)
<1>1. PICK T, m :
        /\ m \in 1..n /\ T[m] = x
        /\ Spells(h, n, T, X) /\ Nodes(n, T) = M
        /\ Near(n, T, tm, x)
        /\ k < m \/ FirstBelow(n, T, tm, x)
  BY DEF Sinking
<1>2. CASE DownOnce(h, x, tm) = h /\ FirstBelow(n, T, tm, x)
  BY <1>1, <1>2 DEF Sinking
<1>3. CASE /\ k < m
           /\ \E c \in 1..n :
                /\ Child(c, m) /\ DownOnce(h, x, tm) = Swap(h, x, T[c])
                /\ \A i \in 1..n : Child(i, m) => tm[T[c]] <= tm[T[i]]
  <2>1. PICK c \in 1..n :
          /\ Child(c, m) /\ DownOnce(h, x, tm) = Swap(h, x, T[c])
          /\ \A i \in 1..n : Child(i, m) => tm[T[c]] <= tm[T[i]]
    BY <1>3
  <2>2. Places(n, T) /\ c # m /\ k + 1 < c
    BY <1>1, <1>3, <2>1 DEF Child, Spells
  <2>3. Spells(Swap(h, x, T[c]), n, Exchange(T, c, m), X)
    BY <1>1, <2>1, SwapSpells
  <2>4. Near(n, Exchange(T, c, m), tm, x)
    BY <1>1, <2>1, <2>2, ExchangeDown
  <2>5. /\ Exchange(T, c, m)[c] = x
        /\ Nodes(n, Exchange(T, c, m)) = M
    BY <1>1, <2>2, ExchangeIs
  <2> QED BY <2>1, <2>2, <2>3, <2>4, <2>5 DEF Sinking
<1>4. FirstBelow(n, T, tm, x) => DownOnce(h, x, tm) = h
  BY <1>1, DownOnceRests
<1> QED BY <1>1, <1>2, <1>3, <1>4, DownOnceTakes

(* The walk down leaves x not after the nodes below it, and the order near *)
(* x as it was, and ends within n iterations.                              *)
LEMMA SiftDownDoes ==
  ASSUME NEW n \in Nat, NEW h, NEW T, NEW X, Spells(h, n, T, X),
         NEW tm \in Keys, NEW m \in 1..n,
         Near(n, T, tm, T[m])
  PROVE  \E U, i :
           /\ i \in 1..n /\ U[i] = T[m]
           /\ Spells(SiftDown(h, T[m], tm), n, U, X)
           /\ Nodes(n, U) = Nodes(n, T)
           /\ Near(n, U, tm, T[m]) /\ FirstBelow(n, U, tm, T[m])
           /\ LET g == SiftDown(h, T[m], tm) IN DownOnce(g, T[m], tm) = g
<1> DEFINE x == T[m]
           M == Nodes(n, T)
           F == [g \in Heaps |-> DownOnce(g, x, tm)]
           w == CHOOSE w : w = [k \in 0..n |-> IF k = 0 THEN h
                                  ELSE DownOnce(w[k - 1], x, tm)]
           P == {k \in 0..n : Sinking(w[k], n, M, X, x, tm, k)}
<1>1. h \in Heaps /\ h.nelts = n /\ x \in Timers
  BY DEF Spells, Places
<1>2. F \in [Heaps -> Heaps]
  BY <1>1, DownOnceTyped
<1>3. w = [k \in 0..n |-> IF k = 0 THEN h ELSE DownOnce(w[k - 1], x, tm)]
  <2>0. IteratesTo(Heaps, F, h, n)
    <3> HIDE DEF F
    <3> QED BY <1>1, <1>2, Iterating
  <2>1. PICK v \in [0..n -> Heaps] :
          v[0] = h /\ \A k \in 1..n : v[k] = F[v[k - 1]]
    <3> HIDE DEF F
    <3> QED BY <2>0 DEF IteratesTo
  <2>2. \A k \in 0..n : k # 0 => v[k - 1] \in Heaps
    <3>1. \A k \in 0..n : k # 0 => k - 1 \in 0..n
      OBVIOUS
    <3> QED BY <2>1, <3>1
  <2>3. \A k \in 0..n : k # 0 => F[v[k - 1]] = DownOnce(v[k - 1], x, tm)
    BY <2>2
  <2>4. \A k \in 0..n : v[k] = IF k = 0 THEN h ELSE DownOnce(v[k - 1], x, tm)
    <3> HIDE DEF F, x
    <3>1. \A k \in 0..n : k # 0 => k \in 1..n
      OBVIOUS
    <3> QED BY <2>1, <2>3, <3>1
  <2>5. v = [k \in 0..n |-> IF k = 0 THEN h ELSE DownOnce(v[k - 1], x, tm)]
    <3> HIDE DEF F, x
    <3> QED BY <2>1, <2>4
  <2> HIDE DEF F, x
  <2> QED BY <2>5
<1>4. SiftDown(h, x, tm) = w[n]
  BY <1>1 DEF SiftDown
<1> HIDE DEF w, F
<1>5. w[0] = h /\ \A k \in 1..n : w[k] = DownOnce(w[k - 1], x, tm)
  <2>1. \A k \in 0..n : w[k] = IF k = 0 THEN h ELSE DownOnce(w[k - 1], x, tm)
    <3> HIDE DEF x
    <3> QED BY <1>3
  <2>2. 0 \in 0..n /\ \A k \in 1..n : k \in 0..n /\ k # 0
    OBVIOUS
  <2> HIDE DEF x
  <2> QED BY <2>1, <2>2
<1>6. 0 \in P
  <2>1. 0 < m
    OBVIOUS
  <2>2. Sinking(h, n, M, X, x, tm, 0)
    BY <2>1 DEF Sinking
  <2> HIDE DEF x, M
  <2> QED BY <1>5, <2>2
<1> HIDE DEF x, M
<1>7. ASSUME NEW k \in 1..n, k - 1 \in P PROVE k \in P
  <2>1. Sinking(w[k - 1], n, M, X, x, tm, k - 1) /\ k - 1 \in Nat
    BY <1>7
  <2>2. Sinking(w[k], n, M, X, x, tm, (k - 1) + 1)
    BY <1>5, <2>1, SinkingStep
  <2> QED BY <2>2
<1>8. Sinking(w[n], n, M, X, x, tm, n)
  <2>1. 0..n \subseteq P
    <3> HIDE DEF P
    <3> QED BY <1>6, <1>7, Counting
  <2> QED BY <2>1
<1>9. PICK U, i :
        /\ i \in 1..n /\ U[i] = x
        /\ Spells(w[n], n, U, X) /\ Nodes(n, U) = M
        /\ Near(n, U, tm, x)
        /\ n < i \/ FirstBelow(n, U, tm, x)
  BY <1>8 DEF Sinking
<1>10. ~(n < i)
  BY <1>9
<1>11. DownOnce(w[n], x, tm) = w[n]
  BY <1>9, <1>10, DownOnceRests
<1> QED BY <1>4, <1>9, <1>10, <1>11 DEF M, x

-----------------------------------------------------------------------------
(* heap_insert and heap_remove keep the tree and its order.                *)

\* A change of keys that no node of the tree has keeps the order.
LEMMA OrderedSame ==
  ASSUME NEW n \in Nat, NEW T, NEW tm, NEW um, Ordered(n, T, tm),
         \A y \in Nodes(n, T) : um[y] = tm[y]
  PROVE  Ordered(n, T, um)
<1>1. \A i \in 1..n : um[T[i]] = tm[T[i]]
  BY DEF Nodes
<1> QED BY <1>1 DEF Ordered

\* In order, also near x whatever key x gets.
LEMMA OrderedNear ==
  ASSUME NEW n \in Nat, NEW T, Places(n, T), NEW x, NEW tm \in Keys, NEW um,
         Ordered(n, T, tm), \A y \in Timers : y # x => um[y] = tm[y]
  PROVE  Near(n, T, um, x)
<1>1. \A i \in 1..n : T[i] \in Timers /\ tm[T[i]] \in Nat
  BY DEF Places, Keys
<1>2. \A i, j \in 1..n : Child(i, j) => tm[T[j]] <= tm[T[i]]
  BY DEF Ordered
<1>3. ASSUME NEW i \in 1..n, NEW j \in 1..n, Child(i, j), T[i] # x, T[j] # x
      PROVE  um[T[j]] <= um[T[i]]
  BY <1>1, <1>2, <1>3
<1>4. ASSUME NEW i \in 1..n, NEW m \in 1..n, NEW j \in 1..n,
             T[m] = x, Child(i, m), Child(m, j)
      PROVE  um[T[j]] <= um[T[i]]
  <2>1. tm[T[j]] <= tm[T[m]] /\ tm[T[m]] <= tm[T[i]]
    BY <1>2, <1>4
  <2>2. tm[T[j]] <= tm[T[i]]
    BY <1>1, <2>1
  <2>3. i # m /\ j # m
    BY <1>4 DEF Child
  <2>4. T[i] # x /\ T[j] # x
    BY <1>4, <2>3 DEF Places
  <2> QED BY <1>1, <2>2, <2>4
<1> QED BY <1>3, <1>4 DEF Near

LEMMA InsertDoes ==
  ASSUME NEW n \in Nat, NEW h, NEW T, Spells(h, n, T, {}),
         NEW x \in Timers \ Nodes(n, T), NEW tm \in Keys, Ordered(n, T, tm)
  PROVE  \E U : /\ Spells(Insert(h, x, tm), n + 1, U, {})
                /\ Ordered(n + 1, U, tm)
                /\ Nodes(n + 1, U) = Nodes(n, T) \cup {x}
<1> DEFINE G == Grown(T, n, x)
<1>1. /\ Spells(Planted(h, x), n + 1, G, {}) /\ n + 1 \in Nat
      /\ n + 1 \in 1..(n + 1)
  BY PlantSpells
<1>2. /\ G[n + 1] = x /\ \A k \in 1..n : G[k] = T[k]
      /\ Nodes(n + 1, G) = Nodes(n, T) \cup {x}
      /\ Places(n, T)
  <2>1. Places(n, T)
    BY DEF Spells
  <2> QED BY <2>1, GrownIs
<1> HIDE DEF G
<1>3. \A k \in 1..(n + 1) : G[k] # x => k \in 1..n /\ G[k] = T[k]
  <2>1. \A k \in 1..(n + 1) : k = n + 1 \/ k \in 1..n
    OBVIOUS
  <2> QED BY <1>2, <2>1
<1>4. \A k \in 1..(n + 1) : G[k] = x => k = n + 1
  BY <1>1, <1>2 DEF Spells, Places
<1>5. \A i \in 1..(n + 1) : ~Child(i, n + 1)
  BY DEF Child
<1>6. Near(n + 1, G, tm, x)
  BY <1>3, <1>4, <1>5 DEF Near, Ordered
<1>7. FirstBelow(n + 1, G, tm, x)
  BY <1>4, <1>5 DEF FirstBelow
<1>8. Insert(h, x, tm) = SiftUp(Planted(h, x), x, tm)
  BY DEF Insert, Planted
<1>9. \E U : /\ Spells(SiftUp(Planted(h, x), G[n + 1], tm), n + 1, U, {})
             /\ Ordered(n + 1, U, tm) /\ Nodes(n + 1, U) = Nodes(n + 1, G)
  BY <1>1, <1>2, <1>6, <1>7, SiftUpDoes
<1> QED BY <1>2, <1>8, <1>9

LEMMA RemoveDoes ==
  ASSUME NEW n \in Nat, NEW h, NEW T, Spells(h, n, T, {}),
         NEW m \in 1..n, NEW tm \in Keys, Near(n, T, tm, T[m])
  PROVE  \E U : /\ Spells(Remove(h, T[m], tm), n - 1, U, {})
                /\ Ordered(n - 1, U, tm)
                /\ Nodes(n - 1, U) = Nodes(n, T) \ {T[m]}
<1> DEFINE x == T[m]
           z == T[n]
           C == Cut(T, n)
           g == CutOff(h, z)
           W == Moved(C, m, z)
<1>1. /\ n \in Nat \ {0} /\ h.nelts = n /\ Places(n, T) /\ NodeAt(h, n) = z
      /\ x \in Timers /\ z \in Timers
  <2>1. n \in Nat \ {0} /\ n \in 1..n
    OBVIOUS
  <2> QED BY <2>1, NodeAtIs DEF Spells, Places
<1>2. /\ n - 1 \in Nat /\ n \in 1..n
      /\ \A k \in 1..(n - 1) : k \in 1..n /\ k # n /\ C[k] = T[k]
      /\ \A k \in 1..n : k = n \/ k \in 1..(n - 1)
      /\ Places(n - 1, C) /\ z \in Timers \ Nodes(n - 1, C)
      /\ Nodes(n, T) = Nodes(n - 1, C) \cup {z}
  <2> HIDE DEF C, z
  <2> QED BY <1>1, CutIs DEF C, z
<1>3. Spells(g, n - 1, C, {z})
  BY <1>1, CutSpells
<1> HIDE DEF C, W, g
<1>4. \A k \in 1..n : T[k] = x => k = m
  BY <1>1 DEF Places
<1>5. CASE m = n
  <2>1. x = z
    BY <1>5
  <2>2. TakeOut(h, x) = g
    <3>1. NodeAt(h, h.nelts) = x
      BY <1>1, <2>1
    <3> HIDE DEF x
    <3> QED BY <2>1, <3>1 DEF TakeOut, g, CutOff
  <2>3. Remove(h, x, tm) = Clear(g, x)
    BY <1>1, <2>1, <2>2 DEF Remove
  <2>4. Spells(Clear(g, x), n - 1, C, {})
    BY <1>2, <1>3, <2>1, ClearSpells
  <2>5. Ordered(n - 1, C, tm)
    <3>1. \A k \in 1..(n - 1) : T[k] # x
      BY <1>2, <1>4, <1>5
    <3> QED BY <1>2, <3>1 DEF Ordered, Near
  <2>6. Nodes(n - 1, C) = Nodes(n, T) \ {x}
    BY <1>2, <2>1
  <2> QED BY <2>3, <2>4, <2>5, <2>6
<1>6. CASE m # n
  <2>1. m \in 1..(n - 1) /\ x = C[m] /\ x # z
    BY <1>2, <1>4, <1>6
  <2>2. TakeOut(h, x) = MovedIn(g, x, z)
    <3>1. NodeAt(h, h.nelts) = z
      BY <1>1
    <3> HIDE DEF x, z
    <3> QED BY <2>1, <3>1 DEF TakeOut, g, CutOff, MovedIn
  <2>3. Spells(MovedIn(g, x, z), n - 1, W, {x})
    <3> HIDE DEF x, z
    <3> QED BY <1>2, <1>3, <2>1, MoveSpells DEF W
  <2>4. /\ W[m] = z /\ \A k \in 1..(n - 1) : k # m => W[k] = T[k]
        /\ Nodes(n - 1, W) = (Nodes(n - 1, C) \ {x}) \cup {z}
        /\ Places(n - 1, W)
    <3> HIDE DEF x, z
    <3> QED BY <1>2, <2>1, MovedIs DEF W
  <2>5. \A k \in 1..(n - 1) : W[k] = z => k = m
    BY <2>1, <2>4 DEF Places
  <2>6. Near(n - 1, W, tm, z)
    <3>1. ASSUME NEW i \in 1..(n - 1), NEW j \in 1..(n - 1), Child(i, j),
                 W[i] # z, W[j] # z
          PROVE  tm[W[j]] <= tm[W[i]]
      <4>1. i # m /\ j # m
        BY <2>4, <3>1
      <4>2. T[i] # x /\ T[j] # x /\ W[i] = T[i] /\ W[j] = T[j]
        BY <1>2, <1>4, <2>4, <4>1
      <4> QED BY <1>2, <3>1, <4>2 DEF Near
    <3>2. ASSUME NEW i \in 1..(n - 1), NEW l \in 1..(n - 1),
                 NEW j \in 1..(n - 1), W[l] = z, Child(i, l), Child(l, j)
          PROVE  tm[W[j]] <= tm[W[i]]
      <4>1. l = m /\ i # m /\ j # m
        BY <2>5, <3>2 DEF Child
      <4>2. W[i] = T[i] /\ W[j] = T[j]
        BY <2>4, <4>1
      <4> QED BY <1>2, <3>2, <4>1, <4>2 DEF Near
    <3> QED BY <3>1, <3>2 DEF Near
  <2>7. PICK V, i :
          /\ i \in 1..(n - 1) /\ V[i] = z
          /\ Spells(SiftDown(MovedIn(g, x, z), z, tm), n - 1, V, {x})
          /\ Nodes(n - 1, V) = Nodes(n - 1, W)
          /\ Near(n - 1, V, tm, z) /\ FirstBelow(n - 1, V, tm, z)
    <3> HIDE DEF x, z
    <3> QED BY <1>2, <2>1, <2>3, <2>4, <2>6, SiftDownDoes
  <2>8. PICK U :
          /\ Spells(SiftUp(SiftDown(MovedIn(g, x, z), z, tm), z, tm),
                    n - 1, U, {x})
          /\ Ordered(n - 1, U, tm) /\ Nodes(n - 1, U) = Nodes(n - 1, V)
    <3> HIDE DEF x, z
    <3> QED BY <1>2, <2>7, SiftUpDoes
  <2>9. x \in Timers \ Nodes(n - 1, U)
    BY <1>1, <2>1, <2>4, <2>7, <2>8
  <2>10. Spells(Clear(SiftUp(SiftDown(MovedIn(g, x, z), z, tm), z, tm), x),
                n - 1, U, {})
    <3> HIDE DEF x, z
    <3> QED BY <1>2, <2>8, <2>9, ClearSpells
  <2>11. Remove(h, x, tm) =
           Clear(SiftUp(SiftDown(MovedIn(g, x, z), z, tm), z, tm), x)
    BY <1>1, <2>1, <2>2 DEF Remove
  <2>12. Nodes(n - 1, U) = Nodes(n, T) \ {x}
    BY <1>2, <2>1, <2>4, <2>7, <2>8
  <2> QED BY <2>8, <2>10, <2>11, <2>12
<1> QED BY <1>5, <1>6

(* The nodes of the tree are those the links show to be in the heap.       *)
MembersOf(h) == {y \in Timers : y = h.min \/ h.parent[y] # Nil}

LEMMA MembersAre ==
  ASSUME NEW n \in Nat, NEW h, NEW T, Spells(h, n, T, {})
  PROVE  Nodes(n, T) = MembersOf(h)
<1>1. /\ Places(n, T) /\ Root(h, n, T) /\ Others(h, n, T, {})
      /\ \A k \in 1..n : T[k] \in Timers /\ T[k] # Nil
  BY TimerAssumption DEF Spells, Places
<1>2. ASSUME NEW i \in 1..n PROVE T[i] \in MembersOf(h)
  <2>1. CASE i = 1
    BY <1>1, <2>1 DEF Root, MembersOf
  <2>2. CASE i # 1
    <3>1. PICK j \in 1..n : Child(i, j)
      BY <2>2, Parents
    <3>2. h.parent[T[i]] = T[j]
      BY <3>1, HangsFrom
    <3> QED BY <1>1, <3>2 DEF MembersOf
  <2> QED BY <2>1, <2>2
<1>3. ASSUME NEW y \in MembersOf(h) PROVE y \in Nodes(n, T)
  <2>1. CASE y = h.min
    <3>1. y # Nil
      BY TimerAssumption DEF MembersOf
    <3>2. 1 \in 1..n /\ y = T[1]
      BY <1>1, <2>1, <3>1 DEF Root
    <3> QED BY <3>2 DEF Nodes
  <2>2. CASE h.parent[y] # Nil
    BY <1>1, <2>2 DEF Others, Loose, MembersOf
  <2> QED BY <2>1, <2>2 DEF MembersOf
<1> QED BY <1>2, <1>3 DEF Nodes

(* h is a complete tree of the nodes in M, in the order of tm.             *)
HeapOf(h, tm, M) ==
  \E T : /\ Spells(h, h.nelts, T, {}) /\ Ordered(h.nelts, T, tm)
         /\ Nodes(h.nelts, T) = M

LEMMA HeapOfItsMembers ==
  ASSUME NEW h, NEW tm, NEW M, HeapOf(h, tm, M)
  PROVE  M = MembersOf(h) /\ M \subseteq Timers
<1>1. PICK T : Spells(h, h.nelts, T, {}) /\ Nodes(h.nelts, T) = M
  BY DEF HeapOf
<1>2. h.nelts \in Nat
  BY <1>1 DEF Spells
<1>3. M = MembersOf(h)
  BY <1>1, <1>2, MembersAre
<1> QED BY <1>3 DEF MembersOf

LEMMA InsertKeeps ==
  ASSUME NEW h, NEW tm \in Keys, NEW um \in Keys, NEW M, HeapOf(h, tm, M),
         NEW x \in Timers \ M, \A y \in Timers : y # x => um[y] = tm[y]
  PROVE  HeapOf(Insert(h, x, um), um, M \cup {x})
<1> DEFINE n == h.nelts
<1>1. PICK T : /\ Spells(h, n, T, {}) /\ Ordered(n, T, tm)
               /\ Nodes(n, T) = M
  BY DEF HeapOf
<1>2. n \in Nat /\ M \subseteq Timers
  BY <1>1, HeapOfItsMembers DEF Spells
<1>3. Ordered(n, T, um)
  BY <1>1, <1>2, OrderedSame
<1>4. PICK U : /\ Spells(Insert(h, x, um), n + 1, U, {})
               /\ Ordered(n + 1, U, um)
               /\ Nodes(n + 1, U) = M \cup {x}
  BY <1>1, <1>2, <1>3, InsertDoes
<1>5. Insert(h, x, um).nelts = n + 1
  BY <1>4 DEF Spells
<1> HIDE DEF n
<1> QED BY <1>4, <1>5 DEF HeapOf

LEMMA RemoveKeeps ==
  ASSUME NEW h, NEW tm \in Keys, NEW um \in Keys, NEW M, HeapOf(h, tm, M),
         NEW x \in M, \A y \in Timers : y # x => um[y] = tm[y]
  PROVE  HeapOf(Remove(h, x, um), um, M \ {x})
<1> DEFINE n == h.nelts
<1>1. PICK T : /\ Spells(h, n, T, {}) /\ Ordered(n, T, tm)
               /\ Nodes(n, T) = M
  BY DEF HeapOf
<1>2. n \in Nat /\ Places(n, T)
  BY <1>1 DEF Spells
<1>3. PICK m \in 1..n : x = T[m]
  BY <1>1 DEF Nodes
<1>4. Near(n, T, um, x)
  BY <1>1, <1>2, OrderedNear
<1> HIDE DEF n
<1>5. PICK U : /\ Spells(Remove(h, x, um), n - 1, U, {})
               /\ Ordered(n - 1, U, um)
               /\ Nodes(n - 1, U) = M \ {x}
  BY <1>1, <1>2, <1>3, <1>4, RemoveDoes
<1>6. Remove(h, x, um).nelts = n - 1
  BY <1>5 DEF Spells
<1> QED BY <1>5, <1>6 DEF HeapOf

(* No node is before the root: upwards from it, by the order.              *)
LEMMA RootIsFirst ==
  ASSUME NEW h, NEW tm \in Keys, NEW M, HeapOf(h, tm, M), h.min # Nil
  PROVE  h.min \in M /\ \A y \in M : tm[h.min] <= tm[y]
<1> DEFINE n == h.nelts
<1>1. PICK T : /\ Spells(h, n, T, {}) /\ Ordered(n, T, tm)
               /\ Nodes(n, T) = M
  BY DEF HeapOf
<1> DEFINE P == {i \in 1..n : tm[T[1]] <= tm[T[i]]}
<1>2. n \in Nat /\ 1 \in 1..n /\ h.min = T[1]
  BY <1>1 DEF Spells, Root
<1>3. \A i \in 1..n : tm[T[i]] \in Nat
  BY <1>1 DEF Spells, Places, Keys
<1> HIDE DEF n
<1>4. ASSUME NEW i \in 1..n, \A j \in 1..n : j < i => j \in P
      PROVE  i \in P
  <2>1. CASE i = 1
    BY <1>3, <2>1
  <2>2. CASE i # 1
    <3>1. PICK j \in 1..n : Child(i, j) /\ j < i
      BY <1>2, <2>2, Parents
    <3>2. tm[T[1]] <= tm[T[j]] /\ tm[T[j]] <= tm[T[i]]
      BY <1>1, <1>4, <3>1 DEF Ordered
    <3> QED BY <1>2, <1>3, <3>2
  <2> QED BY <2>1, <2>2
<1>5. 1..n \subseteq P
  <2> HIDE DEF P
  <2> QED BY <1>2, <1>4, Climbing
<1>6. \A i \in 1..n : tm[T[1]] <= tm[T[i]]
  BY <1>5
<1> QED BY <1>1, <1>2, <1>6 DEF Nodes

-----------------------------------------------------------------------------
(* The invariant.  The tree is in order whatever m_time has become; a      *)
(* timer with an m_time is in it, and while every m_time is the time asked *)
(* for, so is every timer in it, with that time, and not destroyed.  At    *)
(* all times the m_time of a timer in it is the time asked for, modulo the *)
(* width, and a destroyed one has none.                                    *)
Typed ==
  /\ mtime \in [Timers -> 0..(Width - 1)] /\ repeat \in [Timers -> Nat]
  /\ \A t \in Timers : repeat[t] \in Repeats[t] \cup {0}
  /\ alive \subseteq Timers
  /\ left \in 0..Batch /\ running \in Timers \cup {Nil}
  /\ clock \in 0..MaxClock
  /\ due \in [Timers -> Nat] /\ odd \in BOOLEAN

TimedAreIn == \A t \in Timers : mtime[t] # 0 => t \in Members

OnTime ==
  ~odd => \A t \in Members : mtime[t] = due[t] /\ mtime[t] # 0 /\ t \in alive

Dated ==
  \A t \in Members : /\ mtime[t] = TimeFor(due[t])
                     /\ t \in alive \/ mtime[t] = 0

Kept ==
  /\ Typed /\ HeapOf(heap, mtime, Members)
  /\ TimedAreIn /\ OnTime /\ Dated

LEMMA TimesAreKeys == ASSUME Typed PROVE mtime \in Keys
BY TimerAssumption DEF Typed, Keys

LEMMA TimeForFits ==
  ASSUME NEW d \in Nat
  PROVE  /\ TimeFor(d) \in 0..(Width - 1)
         /\ Odd(d) \in BOOLEAN
         /\ ~Odd(d) => TimeFor(d) = d /\ d # 0
BY TimerAssumption DEF TimeFor, Odd

LEMMA InitKept == Init => Kept
<1> SUFFICES ASSUME Init PROVE Kept
  OBVIOUS
<1> DEFINE T == [i \in 1..0 |-> Nil]
<1>1. /\ heap.nelts = 0 /\ heap.min = Nil
      /\ \A y \in Timers : Loose(heap, y)
  BY DEF Init, Empty, Loose
<1>2. heap \in Heaps
  BY DEF Init, Empty, Heaps, Links
<1>3. \A i \in 1..0 : FALSE
  OBVIOUS
<1>4. Places(0, T) /\ Nodes(0, T) = {}
  BY <1>3 DEF Places, Nodes
<1>5. Lefts(heap, 0, T) /\ Rights(heap, 0, T) /\ Uppers(heap, 0, T)
  BY <1>3 DEF Lefts, Rights, Uppers
<1>6. Root(heap, 0, T) /\ Others(heap, 0, T, {}) /\ Ordered(0, T, mtime)
  BY <1>1, <1>3 DEF Root, Others, Ordered
<1>7. Spells(heap, 0, T, {})
  BY <1>1, <1>2, <1>4, <1>5, <1>6 DEF Spells
<1>8. Members = {}
  BY <1>1, TimerAssumption DEF Members, Loose
<1>9. HeapOf(heap, mtime, Members)
  <2> HIDE DEF T
  <2> QED BY <1>1, <1>4, <1>6, <1>7, <1>8 DEF HeapOf
<1>10. Typed
  <2>1. 0 \in 0..(Width - 1) /\ 0 \in 0..Batch /\ 0 \in 0..MaxClock
    BY TimerAssumption
  <2> QED BY <2>1 DEF Init, Typed
<1> QED BY <1>8, <1>9, <1>10 DEF Kept, TimedAreIn, OnTime, Dated, Init

(* start() arms a timer at clock + timeout.                                *)
LEMMA StartKeeps ==
  ASSUME Kept, NEW t \in Timers, NEW timeout \in Timeouts,
         NEW rep \in Repeats[t], start(t, timeout, rep)
  PROVE  Kept' /\ Members' = Members \cup {t} /\ t \notin Members
<1>1. /\ clock \in Nat /\ timeout \in Nat /\ rep \in Nat
      /\ clock + timeout \in Nat /\ t \notin Members /\ t \in alive
  <2>1. clock \in Nat
    BY TimerAssumption DEF Kept, Typed
  <2>2. timeout \in Nat /\ rep \in Nat
    BY TimerAssumption
  <2>3. t \notin Members /\ t \in alive
    BY DEF start
  <2> QED BY <2>1, <2>2, <2>3
<1>2. /\ TimeFor(clock + timeout) \in 0..(Width - 1)
      /\ Odd(clock + timeout) \in BOOLEAN
      /\ ~Odd(clock + timeout) => /\ TimeFor(clock + timeout) = clock + timeout
                                  /\ clock + timeout # 0
  BY <1>1, TimeForFits
<1>3. Typed'
  BY <1>1, <1>2 DEF Kept, Typed, start
<1>4. mtime \in Keys /\ mtime' \in Keys
  BY <1>3, TimesAreKeys, TimerAssumption DEF Kept, Typed, Keys
<1>5. \A y \in Timers : y # t => mtime'[y] = mtime[y] /\ due'[y] = due[y]
  BY DEF start, Kept, Typed
<1>6. HeapOf(heap', mtime', Members \cup {t})
  BY <1>1, <1>4, <1>5, InsertKeeps DEF Kept, start
<1>7. Members' = Members \cup {t}
  <2>1. Members' = MembersOf(heap')
    BY DEF Members, MembersOf
  <2> QED BY <1>6, <2>1, HeapOfItsMembers
<1>8. TimedAreIn'
  BY <1>5, <1>7 DEF TimedAreIn, Kept
<1>9. mtime'[t] = TimeFor(clock + timeout) /\ due'[t] = clock + timeout
  BY DEF start, Kept, Typed
<1>10. OnTime'
  <2>1. odd' = (odd \/ Odd(clock + timeout)) /\ alive' = alive
    BY DEF start
  <2>2. \A y \in Members : y \in Timers
    BY DEF Members
  <2> QED BY <1>1, <1>2, <1>5, <1>7, <1>9, <2>1, <2>2 DEF OnTime, Kept
<1>11. Dated'
  <2>1. alive' = alive /\ \A y \in Members : y \in Timers
    BY DEF start, Members
  <2> QED BY <1>1, <1>5, <1>7, <1>9, <2>1 DEF Dated, Kept
<1> QED BY <1>1, <1>3, <1>6, <1>7, <1>8, <1>10, <1>11 DEF Kept

(* stop() disarms a timer, or finds it without an m_time.                  *)
LEMMA StoppedKeeps ==
  ASSUME Kept, NEW t \in Timers, Stopped(t),
         alive' \in {alive, alive \ {t}},
         UNCHANGED <<left, running, clock, odd>>
  PROVE  /\ Kept'
         /\ \/ mtime[t] = 0 /\ UNCHANGED <<heap, settings>>
            \/ /\ t \in Members /\ Members' = Members \ {t}
               /\ \A y \in Timers : y # t => due'[y] = due[y]
<1>1. alive' \subseteq Timers /\ \A y \in alive : y # t => y \in alive'
  BY DEF Kept, Typed
<1>2. CASE mtime[t] = 0
  <2>1. UNCHANGED <<heap, mtime, repeat, due>>
    BY <1>2 DEF Stopped, settings
  <2>2. Members' = Members /\ HeapOf(heap', mtime', Members')
    BY <2>1 DEF Members, Kept
  <2>3. OnTime'
    BY <1>1, <1>2, <2>1, <2>2 DEF OnTime, Kept
  <2>4. Typed' /\ TimedAreIn'
    BY <1>1, <2>1, <2>2 DEF Typed, TimedAreIn, Kept
  <2>5. Dated'
    BY <1>1, <1>2, <2>1, <2>2 DEF Dated, Kept
  <2> QED BY <1>2, <2>1, <2>2, <2>3, <2>4, <2>5 DEF Kept, settings
<1>3. CASE mtime[t] # 0
  <2>1. /\ mtime' = [mtime EXCEPT ![t] = 0]
        /\ heap' = Remove(heap, t, mtime')
        /\ repeat' = [repeat EXCEPT ![t] = 0]
        /\ due' = [due EXCEPT ![t] = 0]
    BY <1>3 DEF Stopped
  <2>2. t \in Members
    BY <1>3 DEF Kept, TimedAreIn
  <2>3. Typed'
    BY <1>1, <2>1, TimerAssumption DEF Kept, Typed
  <2>4. mtime \in Keys /\ mtime' \in Keys
    BY <2>3, TimesAreKeys, TimerAssumption DEF Kept, Typed, Keys
  <2>5. \A y \in Timers : y # t => mtime'[y] = mtime[y] /\ due'[y] = due[y]
    BY <2>1 DEF Kept, Typed
  <2>6. HeapOf(heap', mtime', Members \ {t})
    BY <2>1, <2>2, <2>4, <2>5, RemoveKeeps DEF Kept
  <2>7. Members' = Members \ {t}
    <3>1. Members' = MembersOf(heap')
      BY DEF Members, MembersOf
    <3> QED BY <2>6, <3>1, HeapOfItsMembers
  <2>8. TimedAreIn'
    <3>1. mtime'[t] = 0
      BY <2>1 DEF Kept, Typed
    <3> QED BY <2>5, <2>7, <3>1 DEF TimedAreIn, Kept
  <2>9. OnTime'
    <3>1. \A y \in Members : y \in Timers
      BY DEF Members
    <3> QED BY <1>1, <2>5, <2>7, <3>1 DEF OnTime, Kept
  <2>10. Dated'
    <3>1. \A y \in Members : y \in Timers
      BY DEF Members
    <3> QED BY <1>1, <2>5, <2>7, <3>1 DEF Dated, Kept
  <2> QED BY <2>2, <2>3, <2>5, <2>6, <2>7, <2>8, <2>9, <2>10 DEF Kept
<1> QED BY <1>2, <1>3

(* An iteration of update() takes the root out, which is in its turn, and  *)
(* arms a repeating timer again.                                           *)
LEMMA FireKeeps ==
  ASSUME Kept, Intact, fire
  PROVE  \E t \in Members :
           /\ t = heap.min /\ Kept'
           /\ \A y \in Members : mtime[t] <= mtime[y]
           /\ \A y \in Timers : y # t => due'[y] = due[y]
           /\ \/ Members' = Members \ {t} /\ odd' = odd
              \/ /\ Members' = Members
                 /\ repeat[t] \in Nat \ {0}
                 /\ due'[t] = clock' + repeat[t]
                 /\ ~odd' => ~odd
<1> DEFINE t == heap.min
           h == Remove(heap, t, mtime)
<1>1. mtime \in Keys /\ HeapOf(heap, mtime, Members) /\ t # Nil
  BY TimesAreKeys DEF Kept, fire
<1>2. t \in Members /\ \A y \in Members : mtime[t] <= mtime[y]
  BY <1>1, RootIsFirst
<1>3. t \in Timers /\ Members \subseteq Timers
  BY <1>2 DEF Members
<1>4. HeapOf(h, mtime, Members \ {t})
  BY <1>1, <1>2, RemoveKeeps
<1>5. /\ clock' \in 0..MaxClock /\ left' \in 0..Batch
      /\ running' = t /\ alive' = alive /\ repeat' = repeat
  <2>1. clock \in Nat /\ left \in 0..Batch
    BY TimerAssumption DEF Kept, Typed
  <2>2. /\ clock' \in {clock, clock + 1} /\ clock' <= MaxClock
        /\ left > 0 /\ left' = left - 1
    BY DEF fire
  <2>3. clock' \in 0..MaxClock
    BY <2>1, <2>2, TimerAssumption
  <2>4. left' \in 0..Batch
    BY <2>1, <2>2, TimerAssumption
  <2> QED BY <2>3, <2>4 DEF fire
<1>6. Rearm(t, h)
  BY DEF fire
<1> HIDE DEF t, h
<1>7. CASE repeat[t] = 0
  <2>1. /\ heap' = h /\ mtime' = [mtime EXCEPT ![t] = 0]
        /\ due' = [due EXCEPT ![t] = 0] /\ odd' = odd
    BY <1>6, <1>7 DEF Rearm
  <2>2. \A y \in Timers : y # t => mtime'[y] = mtime[y] /\ due'[y] = due[y]
    BY <2>1 DEF Kept, Typed
  <2>3. Typed'
    <3>1. 0 \in 0..(Width - 1)
      BY TimerAssumption
    <3> QED BY <1>3, <1>5, <2>1, <3>1 DEF Kept, Typed
  <2>4. HeapOf(heap', mtime', Members \ {t})
    <3>1. PICK T : /\ Spells(h, h.nelts, T, {}) /\ Ordered(h.nelts, T, mtime)
                   /\ Nodes(h.nelts, T) = Members \ {t}
      BY <1>4 DEF HeapOf
    <3>2. \A y \in Nodes(h.nelts, T) : mtime'[y] = mtime[y]
      BY <1>3, <2>2, <3>1
    <3>3. h.nelts \in Nat
      BY <3>1 DEF Spells
    <3>4. Ordered(h.nelts, T, mtime')
      BY <3>1, <3>2, <3>3, OrderedSame
    <3> QED BY <2>1, <3>1, <3>4 DEF HeapOf
  <2>5. Members' = Members \ {t}
    <3>1. Members' = MembersOf(heap')
      BY DEF Members, MembersOf
    <3> QED BY <2>4, <3>1, HeapOfItsMembers
  <2>6. TimedAreIn'
    <3>1. mtime'[t] = 0
      BY <1>3, <2>1 DEF Kept, Typed
    <3> QED BY <2>2, <2>5, <3>1 DEF TimedAreIn, Kept
  <2>7. OnTime'
    BY <1>3, <1>5, <2>1, <2>2, <2>5 DEF OnTime, Kept
  <2>8. Dated'
    BY <1>3, <1>5, <2>1, <2>2, <2>5 DEF Dated, Kept
  <2>9. Kept'
    BY <2>3, <2>4, <2>5, <2>6, <2>7, <2>8 DEF Kept
  <2> QED BY <1>2, <2>1, <2>2, <2>5, <2>9 DEF t
<1>8. CASE repeat[t] # 0
  <2> DEFINE d == clock' + repeat[t]
  <2>1. /\ due' = [due EXCEPT ![t] = d]
        /\ mtime' = [mtime EXCEPT ![t] = TimeFor(d)]
        /\ heap' = Insert(h, t, mtime')
        /\ odd' = (odd \/ Odd(d))
    BY <1>6, <1>8 DEF Rearm
  <2>2. d \in Nat /\ repeat[t] \in Nat
    BY <1>3, <1>5 DEF Kept, Typed
  <2> HIDE DEF d
  <2>3. /\ TimeFor(d) \in 0..(Width - 1) /\ Odd(d) \in BOOLEAN
        /\ ~Odd(d) => TimeFor(d) = d /\ d # 0
    BY <2>2, TimeForFits
  <2>4. \A y \in Timers : y # t => mtime'[y] = mtime[y] /\ due'[y] = due[y]
    BY <2>1 DEF Kept, Typed
  <2>5. mtime'[t] = TimeFor(d) /\ due'[t] = d
    BY <1>3, <2>1 DEF Kept, Typed
  <2>6. Typed'
    BY <1>3, <1>5, <2>1, <2>2, <2>3 DEF Kept, Typed
  <2>7. mtime' \in Keys
    BY <2>6, TimerAssumption DEF Typed, Keys
  <2>8. HeapOf(heap', mtime', Members)
    <3>1. (Members \ {t}) \cup {t} = Members /\ t \in Timers \ (Members \ {t})
      BY <1>2, <1>3 DEF t
    <3>2. HeapOf(Insert(h, t, mtime'), mtime', (Members \ {t}) \cup {t})
      BY <1>1, <1>4, <2>4, <2>7, <3>1, InsertKeeps
    <3> QED BY <2>1, <3>1, <3>2
  <2>9. Members' = Members
    <3>1. Members' = MembersOf(heap')
      BY DEF Members, MembersOf
    <3> QED BY <2>8, <3>1, HeapOfItsMembers
  <2>10. t \in Members
    BY <1>2 DEF t
  <2>11. TimedAreIn'
    BY <2>4, <2>9, <2>10 DEF TimedAreIn, Kept
  <2>12. OnTime'
    BY <1>3, <1>5, <2>1, <2>3, <2>4, <2>5, <2>9 DEF OnTime, Kept
  <2>13. Dated'
    BY <1>3, <1>5, <2>4, <2>5, <2>9 DEF Dated, Intact, Kept
  <2>14. Kept'
    BY <2>6, <2>8, <2>9, <2>11, <2>12, <2>13 DEF Kept
  <2>15. ~odd' => ~odd
    BY <2>1
  <2> QED BY <1>2, <1>8, <2>2, <2>4, <2>5, <2>9, <2>14, <2>15 DEF t, d
<1> QED BY <1>7, <1>8

(* The other steps leave the heap and its times alone.                     *)
LEMMA RestKeeps ==
  ASSUME Kept,
         \/ update \/ callbackReturns \/ updateBreaks \/ Tick
         \/ UNCHANGED vars
  PROVE  Kept' /\ Members' = Members /\ UNCHANGED <<heap, settings, odd>>
<1>1. UNCHANGED <<heap, mtime, repeat, due, alive, odd>>
  BY DEF update, callbackReturns, updateBreaks, Tick, vars, settings
<1>2. left' \in 0..Batch
  <2>1. left' \in {left, 0, Batch}
    BY DEF update, callbackReturns, updateBreaks, Tick, vars
  <2> QED BY <2>1, TimerAssumption DEF Kept, Typed
<1>3. running' \in {running, Nil}
  BY DEF update, callbackReturns, updateBreaks, Tick, vars
<1>4. clock' \in 0..MaxClock
  <2>1. clock' = clock \/ (clock < MaxClock /\ clock' = clock + 1)
    BY DEF update, callbackReturns, updateBreaks, Tick, vars
  <2> QED BY <2>1, TimerAssumption DEF Kept, Typed
<1>5. Typed'
  BY <1>1, <1>2, <1>3, <1>4 DEF Kept, Typed
<1>6. Members' = Members
  BY <1>1 DEF Members
<1>7. HeapOf(heap', mtime', Members') /\ TimedAreIn' /\ OnTime' /\ Dated'
  BY <1>1, <1>6 DEF Kept, TimedAreIn, OnTime, Dated
<1> QED BY <1>1, <1>5, <1>6, <1>7 DEF Kept, settings

LEMMA NextKept == Kept /\ [Next]_vars => Kept'
<1> SUFFICES ASSUME Kept, [Next]_vars PROVE Kept'
  OBVIOUS
<1>1. ASSUME NEW t \in Timers, NEW timeout \in Timeouts,
             NEW rep \in Repeats[t], start(t, timeout, rep)
      PROVE  Kept'
  BY <1>1, StartKeeps
<1>2. ASSUME NEW t \in Timers, stop(t) \/ destroy(t) PROVE Kept'
  <2>1. /\ Stopped(t) /\ alive' \in {alive, alive \ {t}}
        /\ UNCHANGED <<left, running, clock, odd>>
    BY <1>2 DEF stop, destroy
  <2> QED BY <2>1, StoppedKeeps
<1>3. CASE Intact /\ fire
  BY <1>3, FireKeeps
<1>4. CASE update \/ callbackReturns \/ updateBreaks \/ Tick \/ UNCHANGED vars
  BY <1>4, RestKeeps
<1> QED BY <1>1, <1>2, <1>3, <1>4 DEF Next

THEOREM HeapInvariant == Spec => []Kept
<1> QED BY InitKept, NextKept, PTL DEF Spec

-----------------------------------------------------------------------------
(* What the invariant means for the timers.                                *)

(* Every reachable state of Timer, Heap and update() has its type; m_time  *)
(* fits its 32 bits.                                                       *)
THEOREM HeapTypes == Spec => []TypeOK
<1>1. Kept => TypeOK
  <2> SUFFICES ASSUME Kept PROVE TypeOK
    OBVIOUS
  <2>1. heap \in Heaps
    BY DEF Kept, HeapOf, Spells
  <2> QED BY <2>1 DEF Kept, Typed, TypeOK, Heaps, Links
<1> QED BY <1>1, HeapInvariant, PTL

(* Whatever is inserted and removed, the heap's nodes are a complete       *)
(* binary tree whose links agree in both directions (Heap.cpp).            *)
THEOREM TreeIsComplete == Spec => []CompleteTree
<1>1. Kept => CompleteTree
  <2> SUFFICES ASSUME Kept PROVE CompleteTree
    OBVIOUS
  <2>1. PICK T : /\ Spells(heap, heap.nelts, T, {})
                 /\ Nodes(heap.nelts, T) = Members
    BY DEF Kept, HeapOf
  <2>2. /\ heap.nelts \in Nat /\ Places(heap.nelts, T)
        /\ Lefts(heap, heap.nelts, T) /\ Rights(heap, heap.nelts, T)
        /\ Root(heap, heap.nelts, T)
    BY <2>1 DEF Spells
  <2>3. \A k \in 1..heap.nelts : NodeAt(heap, k) = T[k]
    BY <2>1, <2>2, NodeAtIs
  <2>4. \A k \in 1..heap.nelts : NodeAt(heap, k) \in Members
    BY <2>1, <2>3 DEF Nodes
  <2>5. \A k, m \in 1..heap.nelts :
          NodeAt(heap, k) = NodeAt(heap, m) => k = m
    BY <2>2, <2>3 DEF Places
  <2>6. \A x \in Members : \E k \in 1..heap.nelts : NodeAt(heap, k) = x
    BY <2>1, <2>3 DEF Nodes
  <2>7. heap.min # Nil => heap.parent[heap.min] = Nil
    BY <2>2 DEF Root
  <2>8. ASSUME NEW x \in Members,
               NEW c \in {heap.left[x], heap.right[x]} \ {Nil}
        PROVE  heap.parent[c] = x
    <3>1. PICK k \in 1..heap.nelts : x = T[k]
      BY <2>1 DEF Nodes
    <3>2. \E i \in 1..heap.nelts : Child(i, k) /\ c = T[i]
      <4>1. CASE c = heap.left[x]
        <5>1. ~(2 * k > heap.nelts)
          BY <2>2, <2>8, <3>1, <4>1 DEF Lefts
        <5>2. 2 * k \in 1..heap.nelts
          BY <2>2, <5>1
        <5> QED BY <2>2, <3>1, <4>1, <5>2 DEF Lefts, Child
      <4>2. CASE c = heap.right[x]
        <5>1. ~(2 * k + 1 > heap.nelts)
          BY <2>2, <2>8, <3>1, <4>2 DEF Rights
        <5>2. 2 * k + 1 \in 1..heap.nelts
          BY <2>2, <5>1
        <5> QED BY <2>2, <3>1, <4>2, <5>2 DEF Rights, Child
      <4> QED BY <4>1, <4>2
    <3> QED BY <2>1, <2>2, <3>1, <3>2, HangsFrom
  <2> QED BY <2>4, <2>5, <2>6, <2>7, <2>8 DEF CompleteTree
<1> QED BY <1>1, HeapInvariant, PTL

(* No timer is before its parent, and so none before the root, although    *)
(* stop() clears the m_time of a node that is still in the heap and every  *)
(* m_time may have wrapped.                                                *)
THEOREM RootComesFirst ==
  Spec => [](/\ FirstAtTheRoot
             /\ \A y \in Members : mtime[heap.min] <= mtime[y])
<1>1. Kept => FirstAtTheRoot
  <2> SUFFICES ASSUME Kept, NEW x \in Members, heap.parent[x] # Nil
               PROVE  mtime[heap.parent[x]] <= mtime[x]
    BY DEF FirstAtTheRoot
  <2>1. PICK T : /\ Spells(heap, heap.nelts, T, {})
                 /\ Ordered(heap.nelts, T, mtime)
                 /\ Nodes(heap.nelts, T) = Members
    BY DEF Kept, HeapOf
  <2>2. heap.nelts \in Nat
    BY <2>1 DEF Spells
  <2>3. PICK i \in 1..heap.nelts : x = T[i]
    BY <2>1 DEF Nodes
  <2>4. i # 1
    BY <2>1, <2>2, <2>3, HangsFrom
  <2>5. PICK j \in 1..heap.nelts : Child(i, j)
    BY <2>2, <2>4, Parents
  <2>6. heap.parent[x] = T[j]
    BY <2>1, <2>2, <2>3, <2>5, HangsFrom
  <2> QED BY <2>1, <2>3, <2>5, <2>6 DEF Ordered
<1>2. Kept => \A y \in Members : mtime[heap.min] <= mtime[y]
  <2> SUFFICES ASSUME Kept, NEW y \in Members
               PROVE  mtime[heap.min] <= mtime[y]
    OBVIOUS
  <2>1. heap.min # Nil
    <3>1. PICK T : /\ Spells(heap, heap.nelts, T, {})
                   /\ Nodes(heap.nelts, T) = Members
      BY DEF Kept, HeapOf
    <3>2. heap.nelts \in Nat /\ 1 \in 1..heap.nelts
      BY <3>1 DEF Spells, Nodes
    <3> QED BY <3>1, <3>2, TimerAssumption DEF Spells, Root, Places
  <2> QED BY <2>1, TimesAreKeys, RootIsFirst DEF Kept
<1> QED BY <1>1, <1>2, HeapInvariant, PTL

(* A node of the heap is freed in one case only: its timer was armed for a *)
(* moment at which the 32-bit clock is 0 (Timer.cpp:71).                   *)
THEOREM NoneFreed == Spec => []NoFreedNode
<1>1. Kept => NoFreedNode
  BY DEF Kept, Dated, NoFreedNode
<1> QED BY <1>1, HeapInvariant, PTL

-----------------------------------------------------------------------------
(* The heap implements the set of armed timers.                            *)
Dues == [t \in Members |-> due[t]]

LEMMA SetInit == Init => Set!Init
<1> SUFFICES ASSUME Init PROVE Dues = <<>> /\ ~odd = TRUE
  BY DEF Set!Init, Dues
<1>1. Members = {}
  BY TimerAssumption DEF Init, Empty, Members
<1> QED BY <1>1 DEF Dues, Init

LEMMA SetStep == Kept /\ [Next]_vars => [Set!Next]_(Set!vars)
<1> SUFFICES ASSUME Kept, [Next]_vars, ~odd'
             PROVE  [Set!Next]_(Set!vars)
  BY DEF Set!Next
<1>0. /\ DOMAIN Dues = Members /\ DOMAIN Dues' = Members'
      /\ \A y \in Members : Dues[y] = due[y]
      /\ \A y \in Members' : Dues'[y] = due'[y]
      /\ Members \subseteq Timers
  BY DEF Dues, Members
<1>1. ASSUME NEW t \in Timers, NEW timeout \in Timeouts,
             NEW rep \in Repeats[t], start(t, timeout, rep)
      PROVE  Set!Next
  <2>1. /\ t \notin Members /\ Members' = Members \cup {t}
    BY <1>1, StartKeeps
  <2>2. /\ due' = [due EXCEPT ![t] = clock + timeout] /\ clock' = clock
        /\ ~odd
    BY <1>1 DEF start
  <2>3. clock \in Nat /\ timeout \in Nat /\ due \in [Timers -> Nat]
    BY TimerAssumption DEF Kept, Typed
  <2>4. due'[t] >= clock /\ \A y \in Timers : y # t => due'[y] = due[y]
    BY <2>2, <2>3
  <2>5. Set!Arm(t)
    BY <1>0, <2>1, <2>2, <2>4 DEF Set!Arm, Set!Armed, Dues
  <2> QED BY <2>2, <2>5 DEF Set!Next
<1>2. ASSUME NEW t \in Timers, stop(t) \/ destroy(t)
      PROVE  [Set!Next]_(Set!vars)
  <2>1. /\ Stopped(t) /\ alive' \in {alive, alive \ {t}}
        /\ UNCHANGED <<left, running, clock, odd>>
    BY <1>2 DEF stop, destroy
  <2>2. CASE UNCHANGED <<heap, settings>>
    <3>1. Dues' = Dues
      BY <2>2 DEF Dues, Members, settings
    <3> QED BY <2>1, <3>1 DEF Set!vars, Dues
  <2>3. CASE /\ t \in Members /\ Members' = Members \ {t}
             /\ \A y \in Timers : y # t => due'[y] = due[y]
    <3>1. Dues' = [y \in Members \ {t} |-> Dues[y]]
      BY <1>0, <2>3 DEF Dues
    <3>2. Set!Disarm(t)
      BY <1>0, <2>1, <2>3, <3>1 DEF Set!Disarm, Set!Armed, Dues
    <3> QED BY <2>1, <3>2 DEF Set!Next
  <2> QED BY <2>1, <2>2, <2>3, StoppedKeeps
<1>3. CASE Intact /\ fire
  <2>1. PICK t \in Members :
           /\ t = heap.min /\ Kept'
           /\ \A y \in Members : mtime[t] <= mtime[y]
           /\ \A y \in Timers : y # t => due'[y] = due[y]
           /\ \/ Members' = Members \ {t} /\ odd' = odd
              \/ /\ Members' = Members
                 /\ repeat[t] \in Nat \ {0}
                 /\ due'[t] = clock' + repeat[t]
                 /\ ~odd' => ~odd
    BY <1>3, FireKeeps
  <2>2. ~odd /\ \A y \in Members : mtime[y] = due[y]
    BY <2>1 DEF Kept, OnTime
  <2>3. clock \in Nat /\ clock' \in Nat /\ clock' >= clock
    BY <1>3, TimerAssumption DEF fire, Kept, Typed
  <2>4. clock >= due[t]
    <3>1. iclock >= due[t]
      BY <1>3, <2>1, <2>2 DEF fire
    <3>2. due[t] \in Nat
      BY <1>0, <2>1 DEF Kept, Typed
    <3>3. clock >= clock % Width /\ clock % Width \in Nat
      BY <2>3, TimerAssumption
    <3> QED BY <2>3, <3>1, <3>2, <3>3 DEF iclock
  <2>5. \A y \in Members : due[t] <= due[y]
    BY <2>1, <2>2
  <2>6. \/ Members' = Members \ {t}
        \/ Members' = Members /\ due'[t] > clock
    <3>1. repeat[t] \in Nat \ {0} /\ due'[t] = clock' + repeat[t]
          => due'[t] > clock
      BY <2>3
    <3> QED BY <2>1, <3>1
  <2>7. Set!Fire(t)
    BY <1>0, <2>1, <2>3, <2>4, <2>5, <2>6
    DEF Set!Fire, Set!Armed, Dues
  <2> QED BY <1>0, <2>2, <2>7 DEF Set!Next
<1>4. CASE update \/ callbackReturns \/ updateBreaks \/ Tick \/ UNCHANGED vars
  <2>1. /\ Members' = Members /\ UNCHANGED <<heap, settings, odd>>
    BY <1>4, RestKeeps
  <2>2. Dues' = Dues
    BY <2>1 DEF Dues, settings
  <2>3. clock' = clock \/ (clock \in Nat /\ clock' = clock + 1)
    BY <1>4, TimerAssumption
    DEF update, callbackReturns, updateBreaks, Tick, vars, Kept, Typed
  <2>4. CASE clock' = clock
    BY <2>1, <2>2, <2>4 DEF Set!vars, Dues
  <2>5. CASE clock \in Nat /\ clock' = clock + 1
    <3>1. Set!Tick
      BY <2>2, <2>5 DEF Set!Tick, Dues
    <3> QED BY <2>1, <3>1 DEF Set!Next
  <2> QED BY <2>3, <2>4, <2>5
<1> QED BY <1>1, <1>2, <1>3, <1>4 DEF Next

(* The heap of timers implements the set of timers: one fires when its     *)
(* time has come and in its turn, a repeating one is armed again, and what *)
(* a callback starts, stops or destroys disturbs no other timer.           *)
THEOREM HeapIsSet == Spec => SetSpec
<1> QED BY SetInit, SetStep, HeapInvariant, PTL DEF Spec, SetSpec, Set!Spec
=============================================================================
