------------------------ MODULE ChannelStreamProofs ------------------------
(***************************************************************************)
(* The stream of one direction of a connection, for every ring capacity,   *)
(* any bodies and however TCP cuts the bytes: the handler hears the        *)
(* messages in order and whole as long as nothing was exceeded, nothing is *)
(* heard after on_closed, and the last bytes given to uv_write stay what   *)
(* they were.                                                              *)
(***************************************************************************)
EXTENDS ChannelStream, SequenceTheorems, TLAPS

LEMMA HeaderIs ==
  /\ Word \in Nat /\ Word >= 1 /\ Cap \in Nat
  /\ Header \in Nat /\ Header = Word + Word /\ Header < Cap
BY StreamAssumption DEF Header

(* What a byte is to the model: a message and a place in its packet.       *)
Mark == Nat \X Nat

-----------------------------------------------------------------------------
(* Sequences.                                                              *)

(* What is left of a sequence when k elements have been taken.             *)
LEMMA Rest ==
  ASSUME NEW S, NEW s \in Seq(S), NEW k \in 0..Len(s)
  PROVE  /\ SubSeq(s, k + 1, Len(s)) \in Seq(S)
         /\ Len(SubSeq(s, k + 1, Len(s))) = Len(s) - k
         /\ \A i \in 1..(Len(s) - k) : SubSeq(s, k + 1, Len(s))[i] = s[k + i]
<1>1. Len(s) \in Nat /\ k \in Nat
  BY LenProperties
<1>2. \A i \in (k + 1)..Len(s) : s[i] \in S
  BY <1>1, ElementOfSeq
<1>3. /\ SubSeq(s, k + 1, Len(s)) \in Seq(S)
      /\ Len(SubSeq(s, k + 1, Len(s))) =
           IF k + 1 <= Len(s) THEN Len(s) - (k + 1) + 1 ELSE 0
      /\ \A i \in 1..(Len(s) - (k + 1) + 1) :
           SubSeq(s, k + 1, Len(s))[i] = s[k + 1 + i - 1]
  BY <1>1, <1>2, SubSeqProperties
<1>4. ASSUME NEW i \in 1..(Len(s) - k)
      PROVE  SubSeq(s, k + 1, Len(s))[i] = s[k + i]
  <2>1. i \in 1..(Len(s) - (k + 1) + 1) /\ k + 1 + i - 1 = k + i
    BY <1>1
  <2> QED BY <1>3, <2>1
<1> QED BY <1>1, <1>3, <1>4

(* And those k elements.                                                   *)
LEMMA Front ==
  ASSUME NEW S, NEW s \in Seq(S), NEW k \in 0..Len(s)
  PROVE  /\ SubSeq(s, 1, k) \in Seq(S)
         /\ Len(SubSeq(s, 1, k)) = k
         /\ \A i \in 1..k : SubSeq(s, 1, k)[i] = s[i]
<1>1. Len(s) \in Nat /\ k \in Nat
  BY LenProperties
<1>2. \A i \in 1..k : s[i] \in S
  BY <1>1, ElementOfSeq
<1>3. /\ SubSeq(s, 1, k) \in Seq(S)
      /\ Len(SubSeq(s, 1, k)) = IF 1 <= k THEN k - 1 + 1 ELSE 0
      /\ \A i \in 1..(k - 1 + 1) : SubSeq(s, 1, k)[i] = s[1 + i - 1]
  BY <1>1, <1>2, SubSeqProperties
<1>4. ASSUME NEW i \in 1..k PROVE SubSeq(s, 1, k)[i] = s[i]
  <2>1. i \in 1..(k - 1 + 1) /\ 1 + i - 1 = i
    BY <1>1
  <2> QED BY <1>3, <2>1
<1> QED BY <1>1, <1>3, <1>4

(* One sequence behind another.                                            *)
LEMMA Joined ==
  ASSUME NEW S, NEW s \in Seq(S), NEW t \in Seq(S)
  PROVE  /\ s \o t \in Seq(S) /\ Len(s \o t) = Len(s) + Len(t)
         /\ \A i \in 1..Len(s) : (s \o t)[i] = s[i]
         /\ \A j \in 1..Len(t) : (s \o t)[Len(s) + j] = t[j]
<1>1. /\ s \o t \in Seq(S) /\ Len(s \o t) = Len(s) + Len(t)
      /\ \A i \in 1..(Len(s) + Len(t)) :
           (s \o t)[i] = IF i <= Len(s) THEN s[i] ELSE t[i - Len(s)]
  BY ConcatProperties
<1>2. Len(s) \in Nat /\ Len(t) \in Nat
  BY LenProperties
<1>3. ASSUME NEW i \in 1..Len(s) PROVE (s \o t)[i] = s[i]
  <2>1. i \in 1..(Len(s) + Len(t)) /\ i <= Len(s)
    BY <1>2
  <2> QED BY <1>1, <2>1
<1>4. ASSUME NEW j \in 1..Len(t) PROVE (s \o t)[Len(s) + j] = t[j]
  <2>1. /\ Len(s) + j \in 1..(Len(s) + Len(t)) /\ ~(Len(s) + j <= Len(s))
        /\ (Len(s) + j) - Len(s) = j
    BY <1>2
  <2> QED BY <1>1, <2>1
<1> QED BY <1>1, <1>3, <1>4

(* What is left of two when k elements of the first have been taken.       *)
LEMMA RestOfJoin ==
  ASSUME NEW S, NEW s \in Seq(S), NEW t \in Seq(S), NEW k \in 0..Len(s)
  PROVE  SubSeq(s, k + 1, Len(s)) \o t = SubSeq(s \o t, k + 1, Len(s \o t))
<1> DEFINE R == SubSeq(s, k + 1, Len(s))
           u == s \o t
           V == SubSeq(u, k + 1, Len(u))
<1>1. Len(s) \in Nat /\ Len(t) \in Nat /\ k \in Nat /\ k <= Len(s)
  BY LenProperties
<1>2. /\ R \in Seq(S) /\ Len(R) = Len(s) - k
      /\ \A i \in 1..(Len(s) - k) : R[i] = s[k + i]
  BY Rest
<1>3. /\ u \in Seq(S) /\ Len(u) = Len(s) + Len(t)
      /\ \A i \in 1..Len(s) : u[i] = s[i]
      /\ \A j \in 1..Len(t) : u[Len(s) + j] = t[j]
  BY Joined
<1> HIDE DEF u, R
<1>4. k \in 0..Len(u)
  BY <1>1, <1>3
<1>5. /\ V \in Seq(S) /\ Len(V) = Len(u) - k
      /\ \A i \in 1..(Len(u) - k) : V[i] = u[k + i]
  BY <1>3, <1>4, Rest
<1> HIDE DEF V
<1>6. /\ R \o t \in Seq(S) /\ Len(R \o t) = Len(R) + Len(t)
      /\ \A i \in 1..Len(R) : (R \o t)[i] = R[i]
      /\ \A j \in 1..Len(t) : (R \o t)[Len(R) + j] = t[j]
  <2>1. R \in Seq(S)
    BY <1>2
  <2> QED BY <2>1, Joined
<1>7. ASSUME NEW i \in 1..Len(R \o t) PROVE (R \o t)[i] = V[i]
  <2>1. i \in 1..(Len(u) - k)
    BY <1>1, <1>2, <1>3, <1>6
  <2>2. V[i] = u[k + i]
    BY <1>5, <2>1
  <2>3. CASE i \in 1..Len(R)
    <3>1. i \in 1..(Len(s) - k) /\ k + i \in 1..Len(s)
      BY <1>1, <1>2, <2>3
    <3> QED BY <1>2, <1>3, <1>6, <2>2, <2>3, <3>1
  <2>4. CASE i \in (Len(R) + 1)..(Len(R) + Len(t))
    <3> DEFINE j == i - Len(R)
    <3>1. j \in 1..Len(t) /\ i = Len(R) + j /\ k + i = Len(s) + j
      BY <1>1, <1>2, <2>4
    <3> QED BY <1>3, <1>6, <2>2, <3>1
  <2>5. i \in 1..Len(R) \/ i \in (Len(R) + 1)..(Len(R) + Len(t))
    BY <1>1, <1>2, <1>6
  <2> QED BY <2>3, <2>4, <2>5
<1>8. Len(R \o t) = Len(V)
  BY <1>1, <1>2, <1>3, <1>5, <1>6
<1>9. R \o t = V
  BY <1>5, <1>6, <1>7, <1>8, SeqEqual
<1> QED BY <1>9 DEF R, V, u

(* A function on 1..n is a sequence.                                       *)
LEMMA Tuple ==
  ASSUME NEW S, NEW n \in Nat, NEW f \in [1..n -> S]
  PROVE  f \in Seq(S) /\ Len(f) = n
<1>1. f \in Seq(S)
  BY SeqDef
<1>2. DOMAIN f = 1..n /\ Len(f) \in Nat /\ DOMAIN f = 1..Len(f)
  BY <1>1, LenProperties
<1> QED BY <1>1, <1>2

(* Bytes move from what is waiting to what is on the wire.                 *)
Line(x, w, p) == x \o w \o p

Handed(x, w, B, k) == Line(x, w \o SubSeq(B, 1, k), SubSeq(B, k + 1, Len(B)))

LEMMA Handover ==
  ASSUME NEW S, NEW x \in Seq(S), NEW w \in Seq(S), NEW B \in Seq(S),
         NEW k \in 0..Len(B)
  PROVE  Handed(x, w, B, k) = Line(x, w, B)
<1> DEFINE F == SubSeq(B, 1, k)
           R == SubSeq(B, k + 1, Len(B))
<1>1. F \in Seq(S) /\ R \in Seq(S)
  BY Front, Rest
<1>2. F \o R = B
  <2>1. Len(B) \in Nat /\ 1 \in 1..(Len(B) + 1) /\ k \in (1 - 1)..Len(B)
        /\ Len(B) \in k..Len(B)
    BY LenProperties
  <2>2. F \o R = SubSeq(B, 1, Len(B))
    BY <2>1, ConcatAdjacentSubSeq
  <2> QED BY <2>2, SubSeqFull
<1> HIDE DEF F, R
<1>3. x \o (w \o F) = (x \o w) \o F
  BY <1>1, ConcatAssociative, SMTT(30)
<1>4. x \o w \in Seq(S)
  BY ConcatProperties
<1>5. ASSUME NEW y \in Seq(S) PROVE (y \o F) \o R = y \o (F \o R)
  BY <1>1, ConcatAssociative, SMTT(30)
<1> QED BY <1>2, <1>3, <1>4, <1>5 DEF F, R, Handed, Line

-----------------------------------------------------------------------------
(* A run of packets.                                                       *)

LenOf(sizes, m) == Header + sizes[m]

LEMMA LenOfIs ==
  ASSUME NEW sizes \in Seq(Nat), NEW m \in 1..Len(sizes)
  PROVE  LenOf(sizes, m) \in Nat /\ LenOf(sizes, m) >= Header
<1>1. sizes[m] \in Nat
  BY ElementOfSeq
<1> QED BY <1>1, HeaderIs DEF LenOf

(* A byte of one of the messages.                                          *)
Of(x, sizes) == x[1] \in 1..Len(sizes) /\ x[2] \in 1..LenOf(sizes, x[1])

(* Byte y follows d places behind byte x, as far as x can tell: it is in   *)
(* the packet of x, or the first of the next one.                          *)
Behind(x, y, d, sizes) ==
  /\ x[2] + d <= LenOf(sizes, x[1]) => y = <<x[1], x[2] + d>>
  /\ x[2] + d = LenOf(sizes, x[1]) + 1 => y = <<x[1] + 1, 1>>

(* S is a piece of the packets of messages of those sizes, laid end to     *)
(* end.                                                                    *)
Runs(S, sizes) ==
  /\ \A i \in 1..Len(S) : Of(S[i], sizes)
  /\ \A i \in 1..Len(S) : \A j \in i..Len(S) :
       Behind(S[i], S[j], j - i, sizes)

(* It starts with the packet after the first r, and ends with the last.    *)
Starts(S, r) == S # <<>> => S[1] = <<r + 1, 1>>

Ends(S, sizes, r) ==
  IF S = <<>> THEN r = Len(sizes)
  ELSE S[Len(S)] = <<Len(sizes), LenOf(sizes, Len(sizes))>>

(* The packet of message m, as the sender frames it.                       *)
Whole(m, n) == [i \in 1..n |-> <<m, i>>]

LEMMA WholeIs ==
  ASSUME NEW m \in Nat, NEW n \in Nat
  PROVE  /\ Whole(m, n) \in Seq(Mark) /\ Len(Whole(m, n)) = n
         /\ \A i \in 1..n : Whole(m, n)[i] = <<m, i>>
<1>1. Whole(m, n) \in [1..n -> Mark]
  BY DEF Whole, Mark
<1> QED BY <1>1, Tuple DEF Whole

(* A message more leaves a run a run.                                      *)
LEMMA RunsGrow ==
  ASSUME NEW S \in Seq(Mark), NEW sizes \in Seq(Nat), NEW more \in Seq(Nat),
         Len(more) = Len(sizes) + 1,
         \A m \in 1..Len(sizes) : more[m] = sizes[m],
         Runs(S, sizes)
  PROVE  Runs(S, more)
<1>1. Len(sizes) \in Nat
  BY LenProperties
<1>2. ASSUME NEW x, Of(x, sizes)
      PROVE  /\ Of(x, more)
             /\ LenOf(more, x[1]) = LenOf(sizes, x[1])
  BY <1>1, <1>2 DEF LenOf, Of
<1>3. \A i \in 1..Len(S) : Of(S[i], sizes)
  BY DEF Runs
<1>4. ASSUME NEW i \in 1..Len(S), NEW j \in i..Len(S)
      PROVE  Behind(S[i], S[j], j - i, more)
  <2>1. i \in 1..Len(S) /\ Behind(S[i], S[j], j - i, sizes)
    BY DEF Runs
  <2>2. LenOf(more, S[i][1]) = LenOf(sizes, S[i][1])
    BY <1>2, <1>3
  <2> QED BY <2>1, <2>2 DEF Behind
<1> QED BY <1>2, <1>3, <1>4 DEF Runs

(* The first k bytes of a run are one.                                     *)
LEMMA RunsFront ==
  ASSUME NEW S \in Seq(Mark), NEW sizes \in Seq(Nat), NEW k \in 0..Len(S),
         NEW r \in Nat, Runs(S, sizes), Starts(S, r)
  PROVE  /\ Runs(SubSeq(S, 1, k), sizes)
         /\ Starts(SubSeq(S, 1, k), r)
<1> DEFINE F == SubSeq(S, 1, k)
<1>1. /\ F \in Seq(Mark) /\ Len(F) = k /\ \A i \in 1..k : F[i] = S[i]
      /\ Len(S) \in Nat
  BY Front, LenProperties
<1> HIDE DEF F
<1>2. Runs(F, sizes)
  <2>1. \A i \in 1..k : i \in 1..Len(S) /\ F[i] = S[i]
    BY <1>1
  <2>2. ASSUME NEW i \in 1..k, NEW j \in i..k
        PROVE  Behind(F[i], F[j], j - i, sizes)
    <3>1. j \in i..Len(S) /\ j \in 1..k
      BY <1>1
    <3> QED BY <2>1, <3>1 DEF Runs
  <2> QED BY <1>1, <2>1, <2>2 DEF Runs
<1>3. F # <<>> => F[1] = S[1] /\ S # <<>>
  BY <1>1, EmptySeq
<1> QED BY <1>2, <1>3 DEF Starts, F

(* What follows k bytes of a run is one.                                   *)
LEMMA RunsRest ==
  ASSUME NEW S \in Seq(Mark), NEW sizes \in Seq(Nat), NEW k \in 0..Len(S),
         Runs(S, sizes)
  PROVE  Runs(SubSeq(S, k + 1, Len(S)), sizes)
<1> DEFINE F == SubSeq(S, k + 1, Len(S))
<1>1. /\ F \in Seq(Mark) /\ Len(F) = Len(S) - k
      /\ \A i \in 1..(Len(S) - k) : F[i] = S[k + i]
      /\ Len(S) \in Nat
  BY Rest, LenProperties
<1> HIDE DEF F
<1>2. ASSUME NEW i \in 1..Len(F)
      PROVE  k + i \in 1..Len(S) /\ F[i] = S[k + i]
  <2>1. k \in Nat /\ i \in 1..(Len(S) - k)
    BY <1>1
  <2> QED BY <1>1, <2>1
<1>3. ASSUME NEW i \in 1..Len(F) PROVE Of(F[i], sizes)
  BY <1>2 DEF Runs
<1>4. ASSUME NEW i \in 1..Len(F), NEW j \in i..Len(F)
      PROVE  Behind(F[i], F[j], j - i, sizes)
  <2>1. /\ Len(S) \in Nat /\ k \in Nat /\ Len(F) = Len(S) - k
        /\ i \in Nat /\ j \in Nat /\ i >= 1 /\ j >= i /\ j <= Len(F)
    BY <1>1
  <2>3. j \in 1..Len(F) /\ k + j \in (k + i)..Len(S)
        /\ (k + j) - (k + i) = j - i
    BY <2>1
  <2>2. Behind(S[k + i], S[k + j], (k + j) - (k + i), sizes)
    BY <1>2, <2>3 DEF Runs
  <2> QED BY <1>2, <2>2, <2>3
<1> QED BY <1>3, <1>4 DEF Runs, F

(* The next message, appended whole to a run that ends with the last one,  *)
(* makes such a run.                                                       *)
LEMMA RunsMore ==
  ASSUME NEW S \in Seq(Mark), NEW sizes \in Seq(Nat), NEW b \in Nat,
         NEW r \in Nat, Runs(S, sizes), Starts(S, r), Ends(S, sizes, r),
         NEW more \in Seq(Nat), NEW T \in Seq(Mark), NEW N, N = Header + b,
         Len(more) = Len(sizes) + 1, more[Len(sizes) + 1] = b,
         \A m \in 1..Len(sizes) : more[m] = sizes[m],
         Len(T) = Len(S) + N,
         \A i \in 1..Len(S) : T[i] = S[i],
         \A i \in 1..N : T[Len(S) + i] = <<Len(sizes) + 1, i>>
  PROVE  Runs(T, more) /\ Starts(T, r) /\ Ends(T, more, r)
<1> DEFINE M == Len(sizes) + 1
           L == Len(S)
<1>1. /\ L \in Nat /\ M \in Nat /\ N \in Nat /\ N >= 1
      /\ Len(more) = M /\ more \in Seq(Nat)
      /\ LenOf(more, M) = N
      /\ L = Len(S) /\ M = Len(sizes) + 1
  <2>1. Len(sizes) \in Nat /\ L \in Nat
    BY LenProperties
  <2>2. N \in Nat /\ N >= 1
    BY HeaderIs
  <2>3. LenOf(more, M) = N
    BY DEF LenOf
  <2> QED BY <2>1, <2>2, <2>3
<1>4. Len(T) = L + N
  BY <1>1
<1>7. \A i \in 1..L : T[i] = S[i]
  OBVIOUS
<1>8. \A i \in (L + 1)..(L + N) : T[i] = <<M, i - L>>
  <2>1. ASSUME NEW i \in (L + 1)..(L + N) PROVE T[i] = <<M, i - L>>
    <3>1. i - L \in 1..N /\ L + (i - L) = i
      BY <1>1
    <3> QED BY <3>1
  <2> QED BY <2>1
<1> HIDE DEF M, L
<1>5. Runs(S, more)
  BY RunsGrow
<1>6. L > 0 => S # <<>> /\ S[L] = <<M - 1, LenOf(more, M - 1)>> /\ M - 1 >= 1
  <2>1. ASSUME L > 0
        PROVE  S # <<>> /\ S[L] = <<M - 1, LenOf(more, M - 1)>> /\ M - 1 >= 1
    <3>1. S # <<>>
      BY <1>1, <2>1, EmptySeq
    <3>2. S[L] = <<Len(sizes), LenOf(sizes, Len(sizes))>>
      BY <1>1, <3>1 DEF Ends
    <3>3. Of(S[L], sizes)
      <4>1. L \in 1..Len(S)
        BY <1>1, <2>1
      <4> QED BY <4>1 DEF Runs
    <3>4. Len(sizes) \in 1..Len(sizes)
      BY <3>2, <3>3 DEF Of
    <3>5. more[Len(sizes)] = sizes[Len(sizes)]
      BY <3>4
    <3> QED BY <1>1, <3>1, <3>2, <3>4, <3>5 DEF LenOf
  <2> QED BY <2>1
<1>9. Runs(T, more)
  <2>1. ASSUME NEW i \in 1..(L + N) PROVE Of(T[i], more)
    <3>1. CASE i \in 1..L
      BY <1>5, <1>7, <3>1 DEF Runs, L
    <3>2. CASE i \in (L + 1)..(L + N)
      <4>1. T[i] = <<M, i - L>>
        BY <1>8, <3>2
      <4>2. i - L \in 1..N /\ M \in 1..M
        BY <1>1, <3>2, SMTT(30)
      <4>3. M \in 1..Len(more) /\ i - L \in 1..LenOf(more, M)
        BY <1>1, <4>2
      <4>4. T[i][1] = M /\ T[i][2] = i - L
        BY <4>1
      <4> QED BY <4>3, <4>4 DEF Of
    <3> QED BY <1>1, <3>1, <3>2
  <2>2. ASSUME NEW i \in 1..(L + N), NEW j \in i..(L + N)
        PROVE  Behind(T[i], T[j], j - i, more)
    <3>0. j \in 1..(L + N) /\ i \in 1..(L + N) /\ j >= i
      BY <1>1
    <3>1. CASE j \in 1..L
      <4>1. i \in 1..L /\ j \in i..L
        BY <1>1, <3>1
      <4> QED BY <1>5, <1>7, <3>1, <4>1 DEF Runs, L
    <3>2. CASE i \in (L + 1)..(L + N)
      <4>1. /\ i - L \in Nat /\ j - L = (i - L) + (j - i)
            /\ j - L <= N /\ j \in (L + 1)..(L + N)
        BY <1>1, <3>2, SMTT(30)
      <4>2. T[i] = <<M, i - L>> /\ T[j] = <<M, (i - L) + (j - i)>>
        BY <1>8, <3>2, <4>1
      <4>3. (i - L) + (j - i) # LenOf(more, M) + 1
        BY <1>1, <3>2
      <4>4. T[i][1] = M /\ T[i][2] = i - L
        BY <4>2
      <4> QED BY <4>2, <4>3, <4>4 DEF Behind
    <3>3. CASE i \in 1..L /\ j \in (L + 1)..(L + N)
      <4> DEFINE x == S[i]
                 d == L - i
                 e == j - L
      <4>1. /\ d \in Nat /\ e \in Nat \ {0} /\ j - i = d + e
            /\ L \in 1..L /\ L \in i..L /\ L > 0
        BY <1>1, <3>3
      <4>2. T[i] = x /\ T[j] = <<M, e>>
        BY <1>7, <1>8, <3>3
      <4>3. Of(x, more) /\ Behind(x, S[L], d, more)
        BY <1>5, <3>3, <4>1 DEF Runs, L
      <4> HIDE DEF x, d, e
      <4>4. x[1] \in 1..M /\ x[2] \in 1..LenOf(more, x[1])
        BY <1>1, <4>3 DEF Of
      <4>5. LenOf(more, x[1]) \in Nat /\ x[2] \in Nat
        <5>1. x[1] \in 1..Len(more)
          BY <4>3 DEF Of
        <5>2. LenOf(more, x[1]) \in Nat
          BY <5>1, LenOfIs
        <5> QED BY <1>1, <4>4, <5>2, SMTT(30)
      <4>6. x[2] + d <= LenOf(more, x[1]) =>
              /\ x[1] = M - 1
              /\ x[2] + d = LenOf(more, x[1])
        BY <1>6, <4>1, <4>3 DEF Behind
      <4>7. /\ ~(x[2] + (d + e) <= LenOf(more, x[1]))
            /\ x[2] + (d + e) = LenOf(more, x[1]) + 1 =>
                 x[1] = M - 1 /\ e = 1
        <5> DEFINE l == LenOf(more, x[1])
                   at == x[2]
        <5>1. /\ l \in Nat /\ at \in Nat /\ d \in Nat /\ e \in Nat /\ e >= 1
              /\ at + d <= l => x[1] = M - 1 /\ at + d = l
          BY <4>1, <4>5, <4>6
        <5> HIDE DEF l, at
        <5>2. /\ ~(at + (d + e) <= l)
              /\ at + (d + e) = l + 1 => x[1] = M - 1 /\ e = 1
          BY <5>1
        <5> QED BY <5>2 DEF l, at
      <4>8. Behind(x, <<M, e>>, d + e, more)
        <5>1. x[1] = M - 1 => x[1] + 1 = M
          BY <1>1
        <5> QED BY <4>7, <5>1 DEF Behind
      <4> QED BY <4>1, <4>2, <4>8
    <3> QED BY <1>1, <3>0, <3>1, <3>2, <3>3, SMTT(30)
  <2> QED BY <1>4, <2>1, <2>2 DEF Runs
<1>10. T # <<>> /\ T[Len(T)] = <<M, N>>
  <2>1. L + N \in (L + 1)..(L + N) /\ (L + N) - L = N /\ Len(T) # 0
    BY <1>1, <1>4
  <2>2. T # <<>>
    BY <2>1, EmptySeq
  <2>3. T[L + N] = <<M, N>>
    BY <1>8, <2>1
  <2> QED BY <1>4, <2>2, <2>3
<1>11. Starts(T, r)
  <2>1. CASE L > 0
    BY <1>1, <1>6, <1>7, <2>1, SMTT(30) DEF Starts
  <2>2. CASE L = 0
    <3>1. S = <<>> /\ r = Len(sizes)
      BY <1>1, <2>2, EmptySeq DEF Ends
    <3>2. T[1] = <<M, 1>>
      <4>1. 1 \in (L + 1)..(L + N) /\ 1 - L = 1
        BY <1>1, <2>2
      <4> QED BY <1>8, <4>1
    <3> QED BY <1>1, <3>1, <3>2 DEF Starts
  <2> QED BY <1>1, <2>1, <2>2
<1>12. Ends(T, more, r)
  BY <1>1, <1>10 DEF Ends
<1> QED BY <1>9, <1>11, <1>12

(* The head of a run that starts with packet r + 1 and holds all of it is  *)
(* that packet; the rest of the run starts with the next.                  *)
LEMMA RunsNext ==
  ASSUME NEW S \in Seq(Mark), NEW sizes \in Seq(Nat), NEW r \in Nat,
         Runs(S, sizes), Starts(S, r), S # <<>>,
         NEW n \in Nat, n = LenOf(sizes, r + 1), n <= Len(S)
  PROVE  /\ r + 1 \in 1..Len(sizes) /\ n \in 1..Len(S)
         /\ \A i \in 1..n : S[i] = <<r + 1, i>>
         /\ Runs(SubSeq(S, n + 1, Len(S)), sizes)
         /\ Starts(SubSeq(S, n + 1, Len(S)), r + 1)
         /\ Ends(S, sizes, r) => Ends(SubSeq(S, n + 1, Len(S)), sizes, r + 1)
<1>1. /\ Len(S) \in Nat \ {0} /\ Len(sizes) \in Nat
      /\ S[1] = <<r + 1, 1>>
  BY EmptySeq, LenProperties DEF Starts
<1>0. 1 \in 1..Len(S)
  BY <1>1
<1>2. Of(S[1], sizes)
  BY <1>0 DEF Runs
<1>3. r + 1 \in 1..Len(sizes) /\ n \in 1..Len(S)
  <2>1. r + 1 \in 1..Len(sizes)
    BY <1>1, <1>2 DEF Of
  <2>2. n >= 1
    BY <2>1, LenOfIs, HeaderIs
  <2> QED BY <1>1, <2>1, <2>2
<1>4. ASSUME NEW j \in 1..Len(S)
      PROVE  /\ j <= n => S[j] = <<r + 1, j>>
             /\ j = n + 1 => S[j] = <<r + 2, 1>>
  <2>1. j \in 1..Len(S) /\ Behind(S[1], S[j], j - 1, sizes)
    BY <1>0 DEF Runs
  <2> QED BY <1>1, <1>3, <2>1 DEF Behind
<1> DEFINE R == SubSeq(S, n + 1, Len(S))
<1>5. /\ R \in Seq(Mark) /\ Len(R) = Len(S) - n
      /\ \A i \in 1..(Len(S) - n) : R[i] = S[n + i]
  BY <1>3, Rest, SMTT(30)
<1>6. Runs(R, sizes)
  BY <1>3, RunsRest
<1> HIDE DEF R
<1>7. Starts(R, r + 1)
  <2>1. R # <<>> => Len(R) # 0
    BY <1>5, EmptySeq
  <2>2. Len(R) # 0 => 1 \in 1..(Len(S) - n) /\ n + 1 \in 1..Len(S)
    BY <1>1, <1>3, <1>5
  <2>3. Len(R) # 0 => R[1] = <<r + 2, 1>>
    BY <1>3, <1>4, <1>5, <2>2
  <2> QED BY <2>1, <2>3 DEF Starts
<1>8. ASSUME Ends(S, sizes, r) PROVE Ends(R, sizes, r + 1)
  <2>1. S[Len(S)] = <<Len(sizes), LenOf(sizes, Len(sizes))>>
    BY <1>8 DEF Ends
  <2>2. CASE R = <<>>
    <3>1. Len(S) = n
      BY <1>1, <1>3, <1>5, <2>2, EmptySeq
    <3>2. S[n] = <<r + 1, n>>
      BY <1>3, <1>4, <3>1
    <3> QED BY <1>1, <2>1, <2>2, <3>1, <3>2 DEF Ends
  <2>3. CASE R # <<>>
    <3>1. Len(R) \in 1..(Len(S) - n)
      BY <1>1, <1>3, <1>5, <2>3, EmptySeq
    <3>2. R[Len(R)] = S[Len(S)]
      BY <1>1, <1>3, <1>5, <3>1, SMTT(30)
    <3> QED BY <2>1, <2>3, <3>2 DEF Ends
  <2> QED BY <2>2, <2>3
<1> QED BY <1>3, <1>4, <1>6, <1>7, <1>8 DEF R

-----------------------------------------------------------------------------
(* The inductive invariant.                                                *)

StreamType ==
  /\ mem \in [Slot -> Mark] /\ pos \in Slot
  /\ pending \in Seq(Slot) /\ promised \in Seq(Mark)
  /\ Len(promised) = Len(pending)
  /\ sopen \in BOOLEAN /\ closed \in BOOLEAN
  /\ wire \in Seq(Mark) /\ Len(wire) <= SockBuf
  /\ rring \in Seq(Mark) /\ Len(rring) < Cap
  /\ bodies \in Seq(Bodies) /\ received \in Seq(Seq(Mark))
  /\ phase \in {"poll", "drain"}
  /\ harm \subseteq {"cut", "brim", "clobber", "drop", "wipe"}

(* A byte that Send put into the ring.                                     *)
InRing(x, sizes) ==
  x[1] \in 1..Len(sizes) /\ x[2] \in 1..Framed(sizes[x[1]])

(* Nothing is on its way but such bytes.  Memory of the ring that was      *)
(* never written is never given to uv_write.                               *)
BytesSent ==
  /\ \A s \in Slot : mem[s] = <<0, 0>> \/ InRing(mem[s], bodies)
  /\ \A i \in 1..Len(pending) : InRing(mem[pending[i]], bodies)
  /\ \A i \in 1..Len(wire) : InRing(wire[i], bodies)
  /\ \A i \in 1..Len(rring) : InRing(rring[i], bodies)

(* libuv cancelled what waited when the handle was closed.                 *)
ClosedEmpty == ~sopen => pending = <<>>

(* The slots d places behind and ahead of p.                               *)
SlotBehind(p, d) == IF p >= d THEN p - d ELSE p - d + Cap
Ahead(p, d)      == IF p + d >= Cap THEN p + d - Cap ELSE p + d

(* The slots that wait end right behind pos.                               *)
PendingBehind ==
  \A i \in 1..Len(pending) :
    Len(pending) - i < Cap =>
      pending[i] = SlotBehind(pos, Len(pending) - i + 1)

(* As long as nothing that waited was overwritten it is what was given.    *)
RegionKept ==
  "clobber" \notin harm =>
    \A i \in 1..Len(pending) : mem[pending[i]] = promised[i]

(* As long as nothing was exceeded, what the receiver holds, the network   *)
(* holds and uv_write was given are the packets that were not handled yet, *)
(* from the first byte of the first of them and, while the sender is open, *)
(* to the last byte of the last message.                                   *)
Stream == Line(rring, wire, promised)

StreamRuns ==
  harm = {} =>
    /\ Runs(Stream, bodies) /\ Starts(Stream, Len(received))
    /\ sopen => Ends(Stream, bodies, Len(received))

-----------------------------------------------------------------------------
(* The ring of the sender.                                                 *)

LEMMA FramedIs ==
  ASSUME NEW b \in Nat
  PROVE  Framed(b) \in Nat /\ Framed(b) \in 1..Cap /\ Framed(b) <= Header + b
BY HeaderIs DEF Framed

LEMMA AheadIs ==
  ASSUME NEW p \in Slot, NEW d \in Nat, d <= Cap
  PROVE  Ahead(p, d) \in Slot /\ (p + d) % Cap = Ahead(p, d)
<1>1. /\ Cap \in Nat \ {0} /\ p \in 0..(Cap - 1)
  BY HeaderIs DEF Slot
<1>2. p + d < Cap => (p + d) % Cap = p + d
  BY <1>1
<1>3. p + d >= Cap => (p + d) % Cap = p + d - Cap
  BY <1>1
<1>4. Ahead(p, d) = IF p + d >= Cap THEN p + d - Cap ELSE p + d
  BY DEF Ahead
<1> QED BY <1>1, <1>2, <1>3, <1>4 DEF Slot

(* The slots from pos, and the bytes of the message, that uv_write gets.   *)
LEMMA SlotsFromIs ==
  ASSUME pos \in Slot, NEW n \in 0..Cap
  PROVE  /\ SlotsFrom(n) \in Seq(Slot) /\ Len(SlotsFrom(n)) = n
         /\ \A j \in 1..n : SlotsFrom(n)[j] = Ahead(pos, j - 1)
<1>1. n \in Nat
  BY HeaderIs
<1>2. ASSUME NEW j \in 1..n
      PROVE  /\ (pos + j - 1) % Cap = Ahead(pos, j - 1)
             /\ Ahead(pos, j - 1) \in Slot
  <2>1. j - 1 \in Nat /\ j - 1 <= Cap /\ pos + j - 1 = pos + (j - 1)
    BY HeaderIs DEF Slot
  <2> QED BY <2>1, AheadIs
<1>3. SlotsFrom(n) \in [1..n -> Slot]
  BY <1>2 DEF SlotsFrom
<1> QED BY <1>1, <1>2, <1>3, Tuple DEF SlotsFrom

(* What Written does to the memory.                                        *)
LEMMA WrittenIs ==
  ASSUME pos \in Slot, mem \in [Slot -> Mark], NEW m \in Nat, NEW n \in 0..Cap
  PROVE  /\ Written(m, n) \in [Slot -> Mark]
         /\ \A j \in 1..n : Written(m, n)[Ahead(pos, j - 1)] = <<m, j>>
         /\ \A s \in Slot : \/ Written(m, n)[s] = mem[s]
                            \/ \E j \in 1..n : Written(m, n)[s] = <<m, j>>
         /\ \A d \in 1..Cap :
              d + n <= Cap => Written(m, n)[SlotBehind(pos, d)]
                                = mem[SlotBehind(pos, d)]
<1> DEFINE At(s) == IF s >= pos THEN s - pos + 1 ELSE s + Cap - pos + 1
<1>1. /\ Cap \in Nat /\ n \in Nat /\ n <= Cap /\ pos \in Nat /\ pos < Cap
  BY HeaderIs DEF Slot
<1>2. \A s \in Slot : At(s) \in Nat /\ At(s) >= 1
  BY <1>1 DEF Slot
<1>3. \A s \in Slot :
        Written(m, n)[s] = IF At(s) <= n THEN <<m, At(s)>> ELSE mem[s]
  BY DEF Written
<1>4. ASSUME NEW j \in 1..n
      PROVE  Ahead(pos, j - 1) \in Slot /\ At(Ahead(pos, j - 1)) = j
  BY <1>1 DEF Ahead, Slot
<1>5. ASSUME NEW d \in 1..Cap, d + n <= Cap
      PROVE  SlotBehind(pos, d) \in Slot /\ ~(At(SlotBehind(pos, d)) <= n)
  BY <1>1, <1>5 DEF SlotBehind, Slot
<1>6. Written(m, n) \in [Slot -> Mark]
  <2>1. ASSUME NEW s \in Slot
        PROVE  (IF At(s) <= n THEN <<m, At(s)>> ELSE mem[s]) \in Mark
    BY <1>2 DEF Mark
  <2> QED BY <2>1 DEF Written
<1> HIDE DEF At
<1>7. ASSUME NEW s \in Slot
      PROVE  \/ Written(m, n)[s] = mem[s]
             \/ \E j \in 1..n : Written(m, n)[s] = <<m, j>>
  <2>1. At(s) <= n => At(s) \in 1..n
    BY <1>1, <1>2
  <2> QED BY <1>3, <2>1
<1>8. ASSUME NEW j \in 1..n
      PROVE  Written(m, n)[Ahead(pos, j - 1)] = <<m, j>>
  <2>1. At(Ahead(pos, j - 1)) <= n
    BY <1>1, <1>4
  <2> QED BY <1>3, <1>4, <2>1
<1>9. ASSUME NEW d \in 1..Cap, d + n <= Cap
      PROVE  Written(m, n)[SlotBehind(pos, d)] = mem[SlotBehind(pos, d)]
  BY <1>3, <1>5, <1>9
<1> QED BY <1>6, <1>7, <1>8, <1>9

(* What libuv writes leaves the front of the waiting list for the wire.    *)
Transmitted(k, M, P, B) ==
  /\ pending' \in Seq(Slot) /\ Len(pending') = Len(P) - k
  /\ \A i \in 1..(Len(P) - k) : pending'[i] = P[k + i]
  /\ promised' \in Seq(Mark) /\ Len(promised') = Len(P) - k
  /\ promised' = SubSeq(B, k + 1, Len(B))
  /\ \A i \in 1..(Len(P) - k) : promised'[i] = B[k + i]
  /\ wire' \in Seq(Mark) /\ Len(wire') = Len(wire) + k
  /\ \A i \in 1..Len(wire) : wire'[i] = wire[i]
  /\ \A i \in 1..k : wire'[Len(wire) + i] = M[P[i]]
  /\ (\A i \in 1..k : M[P[i]] = B[i]) => wire' = wire \o SubSeq(B, 1, k)

LEMMA TransmitDoes ==
  ASSUME wire \in Seq(Mark), NEW P \in Seq(Slot), NEW B \in Seq(Mark),
         Len(B) = Len(P), NEW k \in 0..Len(P), NEW M \in [Slot -> Mark],
         Transmit(k, M, P, B)
  PROVE  Transmitted(k, M, P, B)
<1> DEFINE F == [i \in 1..k |-> M[P[i]]]
<1>1. /\ wire' = wire \o F
      /\ pending' = SubSeq(P, k + 1, Len(P))
      /\ promised' = SubSeq(B, k + 1, Len(B))
  BY DEF Transmit
<1>2. k \in Nat /\ Len(P) \in Nat /\ Len(wire) \in Nat /\ k \in 0..Len(B)
  BY LenProperties
<1>3. F \in [1..k -> Mark]
  <2>1. \A i \in 1..k : i \in 1..Len(P)
    BY <1>2
  <2>2. \A i \in 1..k : P[i] \in Slot
    BY <2>1, ElementOfSeq
  <2> QED BY <2>2
<1>4. F \in Seq(Mark) /\ Len(F) = k /\ \A i \in 1..k : F[i] = M[P[i]]
  <2>1. F \in Seq(Mark) /\ Len(F) = k
    BY <1>2, <1>3, Tuple
  <2> QED BY <2>1
<1> HIDE DEF F
<1>5. /\ pending' \in Seq(Slot) /\ Len(pending') = Len(P) - k
      /\ \A i \in 1..(Len(P) - k) : pending'[i] = P[k + i]
  BY <1>1, Rest
<1>6. /\ promised' \in Seq(Mark) /\ Len(promised') = Len(P) - k
      /\ \A i \in 1..(Len(P) - k) : promised'[i] = B[k + i]
  BY <1>1, <1>2, Rest
<1>7. /\ wire' \in Seq(Mark) /\ Len(wire') = Len(wire) + k
      /\ \A i \in 1..(Len(wire) + k) :
           wire'[i] = IF i <= Len(wire) THEN wire[i] ELSE F[i - Len(wire)]
  <2>1. /\ wire \o F \in Seq(Mark) /\ Len(wire \o F) = Len(wire) + Len(F)
        /\ \A i \in 1..(Len(wire) + Len(F)) :
             (wire \o F)[i] = IF i <= Len(wire) THEN wire[i]
                             ELSE F[i - Len(wire)]
    BY <1>4, ConcatProperties
  <2> QED BY <1>1, <1>4, <2>1
<1>8. \A i \in 1..Len(wire) : wire'[i] = wire[i]
  <2>1. \A i \in 1..Len(wire) : i \in 1..(Len(wire) + k) /\ i <= Len(wire)
    BY <1>2
  <2> QED BY <1>7, <2>1
<1>9. ASSUME NEW i \in 1..k PROVE wire'[Len(wire) + i] = M[P[i]]
  <2>1. /\ Len(wire) + i \in 1..(Len(wire) + k)
        /\ ~(Len(wire) + i <= Len(wire)) /\ (Len(wire) + i) - Len(wire) = i
    BY <1>2
  <2> QED BY <1>4, <1>7, <2>1
<1>10. ASSUME \A i \in 1..k : M[P[i]] = B[i]
       PROVE  wire' = wire \o SubSeq(B, 1, k)
  <2>1. /\ SubSeq(B, 1, k) \in Seq(Mark) /\ Len(SubSeq(B, 1, k)) = k
        /\ \A i \in 1..k : SubSeq(B, 1, k)[i] = B[i]
    BY <1>2, Front
  <2>2. \A i \in 1..k : F[i] = SubSeq(B, 1, k)[i]
    BY <1>4, <1>10, <2>1
  <2>3. F = SubSeq(B, 1, k)
    BY <1>4, <2>1, <2>2, SeqEqual
  <2> QED BY <1>1, <2>3
<1> QED BY <1>1, <1>5, <1>6, <1>7, <1>8, <1>9, <1>10 DEF Transmitted

(* What a send does: g bytes of the message join what waits, and k of the  *)
(* waiting bytes go to the wire.                                           *)
Given(b) == IF Framed(b) = Cap \/ ~sopen THEN 0 ELSE Framed(b)

Sending(b, P, B, k) ==
  /\ P \in Seq(Slot) /\ Len(P) = Len(pending) + Given(b)
  /\ \A i \in 1..Len(pending) : P[i] = pending[i]
  /\ \A j \in 1..Given(b) : P[Len(pending) + j] = Ahead(pos, j - 1)
  /\ B \in Seq(Mark) /\ Len(B) = Len(P)
  /\ B = promised \o Whole(Len(bodies) + 1, Given(b))
  /\ \A i \in 1..Len(pending) : B[i] = promised[i]
  /\ \A j \in 1..Given(b) : B[Len(pending) + j] = <<Len(bodies) + 1, j>>
  /\ k \in 0..Len(P) /\ Len(wire) + k <= SockBuf
  /\ Transmitted(k, mem', P, B)

(* And what it leaves in the memory.                                       *)
Wrote(b) ==
  LET m == Len(bodies) + 1
      n == Framed(b)
  IN  /\ mem' \in [Slot -> Mark]
      /\ \A j \in 1..n : mem'[Ahead(pos, j - 1)] = <<m, j>>
      /\ \A s \in Slot : mem'[s] = mem[s] \/ \E j \in 1..n : mem'[s] = <<m, j>>
      /\ \A d \in 1..Cap :
           d + n <= Cap => mem'[SlotBehind(pos, d)] = mem[SlotBehind(pos, d)]
      /\ pos' \in Slot /\ pos' = Ahead(pos, n)

LEMMA SendWrote ==
  ASSUME StreamType, NEW b \in Bodies, Send(b)
  PROVE  Wrote(b)
<1>1. /\ Framed(b) \in Nat /\ Framed(b) \in 0..Cap /\ Framed(b) <= Cap
      /\ Len(bodies) + 1 \in Nat
  BY StreamAssumption, HeaderIs, FramedIs, LenProperties DEF StreamType
<1>2. mem' = Written(Len(bodies) + 1, Framed(b))
  BY DEF Send
<1>3. pos' = (pos + Framed(b)) % Cap
  BY DEF Send
<1>4. mem \in [Slot -> Mark] /\ pos \in Slot
  BY DEF StreamType
<1>5. pos' = Ahead(pos, Framed(b)) /\ pos' \in Slot
  BY <1>1, <1>3, <1>4, AheadIs
<1> DEFINE m == Len(bodies) + 1
           n == Framed(b)
<1>6. m \in Nat /\ n \in 0..Cap /\ mem' = Written(m, n)
  BY <1>1, <1>2
<1> HIDE DEF m, n
<1>7. /\ mem' \in [Slot -> Mark]
      /\ \A j \in 1..n : mem'[Ahead(pos, j - 1)] = <<m, j>>
      /\ \A s \in Slot : mem'[s] = mem[s] \/ \E j \in 1..n : mem'[s] = <<m, j>>
      /\ \A d \in 1..Cap :
           d + n <= Cap => mem'[SlotBehind(pos, d)] = mem[SlotBehind(pos, d)]
  BY <1>4, <1>6, WrittenIs
<1> QED BY <1>5, <1>7 DEF Wrote, m, n

LEMMA SendDoes ==
  ASSUME StreamType, NEW b \in Bodies, Send(b)
  PROVE  \E P, B, k : Sending(b, P, B, k)
<1> DEFINE m == Len(bodies) + 1
           n == Framed(b)
           g == Given(b)
           F == SubSeq(SlotsFrom(n), 1, g)
           P == pending \o F
           B == promised \o Whole(m, g)
           k == IF pending = <<>> THEN Min2(g, SockBuf - Len(wire)) ELSE 0
<1>1. /\ n \in Nat /\ n \in 0..Cap /\ g \in Nat /\ g \in 0..n /\ m \in Nat
      /\ Len(pending) \in Nat /\ Len(wire) \in Nat /\ Len(wire) <= SockBuf
      /\ SockBuf \in Nat
  <2>1. n \in Nat /\ n \in 0..Cap
    BY StreamAssumption, HeaderIs, FramedIs
  <2>2. Len(bodies) \in Nat /\ Len(pending) \in Nat /\ Len(wire) \in Nat
    BY LenProperties DEF StreamType
  <2> QED BY <2>1, <2>2, StreamAssumption DEF Given, StreamType
<1>2. Transmit(k, mem', P, B)
  BY DEF Send, Given, Whole
<1>3. /\ pending \in Seq(Slot) /\ promised \in Seq(Mark)
      /\ Len(promised) = Len(pending) /\ wire \in Seq(Mark) /\ pos \in Slot
  BY DEF StreamType
<1>4. F \in Seq(Slot) /\ Len(F) = g /\ \A j \in 1..g : F[j] = Ahead(pos, j - 1)
  <2>1. /\ SlotsFrom(n) \in Seq(Slot) /\ Len(SlotsFrom(n)) = n
        /\ \A j \in 1..n : SlotsFrom(n)[j] = Ahead(pos, j - 1)
    BY <1>1, <1>3, SlotsFromIs
  <2>2. F \in Seq(Slot) /\ Len(F) = g /\ \A j \in 1..g : F[j] = SlotsFrom(n)[j]
    BY <1>1, <2>1, Front
  <2>3. \A j \in 1..g : j \in 1..n
    BY <1>1
  <2> QED BY <2>1, <2>2, <2>3
<1>5. /\ Whole(m, g) \in Seq(Mark) /\ Len(Whole(m, g)) = g
      /\ \A j \in 1..g : Whole(m, g)[j] = <<m, j>>
  BY <1>1, WholeIs
<1>6. k \in Nat /\ k <= g /\ Len(wire) + k <= SockBuf
  BY <1>1 DEF Min2
<1> DEFINE W == Whole(m, g)
<1>7. B = promised \o W /\ P = pending \o F
  OBVIOUS
<1> HIDE DEF F, W, m, n, g, k
<1>8. /\ P \in Seq(Slot) /\ Len(P) = Len(pending) + g
      /\ \A i \in 1..Len(pending) : P[i] = pending[i]
      /\ \A j \in 1..g : P[Len(pending) + j] = F[j]
  <2>1. pending \in Seq(Slot) /\ F \in Seq(Slot)
    BY <1>3, <1>4
  <2>2. /\ pending \o F \in Seq(Slot)
        /\ Len(pending \o F) = Len(pending) + Len(F)
        /\ \A i \in 1..Len(pending) : (pending \o F)[i] = pending[i]
        /\ \A j \in 1..Len(F) : (pending \o F)[Len(pending) + j] = F[j]
    BY <2>1, Joined
  <2> QED BY <1>4, <2>2
<1>9. /\ B \in Seq(Mark) /\ Len(B) = Len(pending) + g
      /\ \A i \in 1..Len(pending) : B[i] = promised[i]
      /\ \A j \in 1..g : B[Len(pending) + j] = W[j]
  <2>1. W \in Seq(Mark) /\ promised \in Seq(Mark)
    BY <1>3, <1>5 DEF W
  <2>2. /\ promised \o W \in Seq(Mark)
        /\ Len(promised \o W) = Len(promised) + Len(W)
        /\ \A i \in 1..Len(promised) : (promised \o W)[i] = promised[i]
        /\ \A j \in 1..Len(W) : (promised \o W)[Len(promised) + j] = W[j]
    BY <2>1, Joined
  <2>3. B = promised \o W
    BY DEF W
  <2>4. Len(W) = g /\ Len(promised) = Len(pending)
    BY <1>3, <1>5 DEF W
  <2> QED BY <2>2, <2>3, <2>4
<1> HIDE DEF P, B
<1>10. mem' \in [Slot -> Mark]
  BY SendWrote DEF Wrote
<1>11. k \in 0..Len(P)
  BY <1>1, <1>6, <1>8
<1>12. Transmitted(k, mem', P, B)
  BY <1>2, <1>3, <1>8, <1>9, <1>10, <1>11, TransmitDoes
<1>13. Sending(b, P, B, k)
  BY <1>4, <1>5, <1>6, <1>7, <1>8, <1>9, <1>11, <1>12 DEF Sending, g, m, W
<1> QED BY <1>13

-----------------------------------------------------------------------------
(* What the other steps do.                                                *)

Flushing(k) ==
  /\ k \in 0..Len(pending) /\ Len(wire) + k <= SockBuf
  /\ Transmitted(k, mem, pending, promised)

LEMMA FlushDoes ==
  ASSUME StreamType, Flush
  PROVE  \E k : Flushing(k)
<1>1. /\ Len(pending) \in Nat /\ Len(wire) \in Nat /\ Len(wire) <= SockBuf
      /\ SockBuf \in Nat
  BY StreamAssumption, LenProperties DEF StreamType
<1>2. PICK k \in 1..Min2(Len(pending), SockBuf - Len(wire)) :
        Transmit(k, mem, pending, promised)
  BY DEF Flush
<1>3. k \in 0..Len(pending) /\ Len(wire) + k <= SockBuf
  BY <1>1, <1>2 DEF Min2
<1>4. Transmitted(k, mem, pending, promised)
  BY <1>2, <1>3, TransmitDoes DEF StreamType
<1> QED BY <1>3, <1>4 DEF Flushing

(* A chunk of n bytes leaves the wire; the ring keeps it whole if it fits  *)
(* with a byte to spare, and nothing has gone wrong only then.             *)
Reading(n) ==
  /\ n \in 1..Len(wire)
  /\ wire' = SubSeq(wire, n + 1, Len(wire))
  /\ wire' \in Seq(Mark) /\ Len(wire') = Len(wire) - n
  /\ \A i \in 1..(Len(wire) - n) : wire'[i] = wire[n + i]
  /\ \/ rring' = rring /\ "drop" \in harm'
     \/ rring' = <<>> /\ "wipe" \in harm'
     \/ /\ rring' = rring \o SubSeq(wire, 1, n)
        /\ rring' \in Seq(Mark) /\ Len(rring') = Len(rring) + n
        /\ Len(rring') < Cap
        /\ \A i \in 1..Len(rring) : rring'[i] = rring[i]
        /\ \A i \in 1..n : rring'[Len(rring) + i] = wire[i]
  /\ harm \subseteq harm' /\ harm' \subseteq harm \cup {"drop", "wipe"}

LEMMA ReadDoes ==
  ASSUME StreamType, ReadChunk
  PROVE  \E n : Reading(n)
<1>1. /\ Len(wire) \in Nat /\ MaxChunk \in Nat
      /\ Len(rring) \in Nat /\ Cap \in Nat
  BY StreamAssumption, LenProperties DEF StreamType
<1>2. PICK n \in 1..Min2(Len(wire), MaxChunk) :
        LET room == Cap - Len(rring)
        IN  /\ wire' = SubSeq(wire, n + 1, Len(wire))
            /\ rring' = IF n > room THEN rring
                        ELSE IF n = room THEN <<>>
                        ELSE rring \o SubSeq(wire, 1, n)
            /\ harm' = harm \cup (IF n > room THEN {"drop"} ELSE {})
                            \cup (IF n = room THEN {"wipe"} ELSE {})
  BY DEF ReadChunk
<1>3. n \in 1..Len(wire) /\ n \in 0..Len(wire)
  BY <1>1 DEF Min2
<1>4. wire \in Seq(Mark) /\ rring \in Seq(Mark)
  BY DEF StreamType
<1>5. /\ wire' = SubSeq(wire, n + 1, Len(wire))
      /\ wire' \in Seq(Mark) /\ Len(wire') = Len(wire) - n
      /\ \A i \in 1..(Len(wire) - n) : wire'[i] = wire[n + i]
  BY <1>2, <1>3, <1>4, Rest
<1>6. harm \subseteq harm' /\ harm' \subseteq harm \cup {"drop", "wipe"}
  BY <1>2
<1> DEFINE F == SubSeq(wire, 1, n)
<1>7. F \in Seq(Mark) /\ Len(F) = n /\ \A i \in 1..n : F[i] = wire[i]
  BY <1>3, <1>4, Front
<1>8. /\ n > Cap - Len(rring) => rring' = rring /\ "drop" \in harm'
      /\ n = Cap - Len(rring) => rring' = <<>> /\ "wipe" \in harm'
      /\ n < Cap - Len(rring) => rring' = rring \o F
  BY <1>1, <1>2, <1>3
<1> HIDE DEF F
<1>9. /\ rring \o F \in Seq(Mark) /\ Len(rring \o F) = Len(rring) + Len(F)
      /\ \A i \in 1..Len(rring) : (rring \o F)[i] = rring[i]
      /\ \A i \in 1..Len(F) : (rring \o F)[Len(rring) + i] = F[i]
  <2>1. rring \in Seq(Mark) /\ F \in Seq(Mark)
    BY <1>4, <1>7
  <2> QED BY <2>1, Joined
<1>10. \/ n > Cap - Len(rring) \/ n = Cap - Len(rring)
       \/ n < Cap - Len(rring) /\ Len(rring) + n < Cap
  BY <1>1, <1>3
<1>11. \/ rring' = rring /\ "drop" \in harm'
       \/ rring' = <<>> /\ "wipe" \in harm'
       \/ /\ rring' = rring \o F
          /\ rring' \in Seq(Mark) /\ Len(rring') = Len(rring) + n
          /\ Len(rring') < Cap
          /\ \A i \in 1..Len(rring) : rring'[i] = rring[i]
          /\ \A i \in 1..n : rring'[Len(rring) + i] = wire[i]
  <2>1. CASE n < Cap - Len(rring) /\ Len(rring) + n < Cap
    <3>1. rring' = rring \o F
      BY <1>8, <2>1
    <3>2. \A i \in 1..n : (rring \o F)[Len(rring) + i] = wire[i]
      BY <1>7, <1>9
    <3> QED BY <1>7, <1>9, <2>1, <3>1, <3>2
  <2> QED BY <1>8, <1>10, <2>1
<1>12. Reading(n)
  BY <1>3, <1>5, <1>6, <1>11 DEF Reading, F
<1> QED BY <1>12

(* The length at the head of the ring, whatever bytes it is read from.     *)
LEMMA HeadLenIs ==
  ASSUME StreamType, BytesSent, rring # <<>>
  PROVE  HeadLen \in Nat
<1>1. 1 \in 1..Len(rring)
  BY LenProperties, EmptySeq DEF StreamType
<1>2. InRing(rring[1], bodies)
  BY <1>1 DEF BytesSent
<1> DEFINE x == rring[1]
<1>3. x[1] \in 1..Len(bodies) /\ x[2] \in 1..Framed(bodies[x[1]])
  BY <1>2 DEF InRing
<1>4. bodies[x[1]] \in Nat
  BY <1>3, ElementOfSeq, StreamAssumption DEF StreamType
<1>5. x[2] \in 1..Cap
  <2>1. Framed(bodies[x[1]]) \in 1..Cap
    BY <1>4, FramedIs
  <2> QED BY <1>3, <2>1, HeaderIs
<1> HIDE DEF x
<1>6. JunkLen(x[2]) \in Nat /\ Word + bodies[x[1]] \in Nat
  BY <1>4, <1>5, StreamAssumption
<1>7. HeadLen = IF \A i \in 1..Word : rring[i] = <<x[1], i>>
                THEN Word + bodies[x[1]] ELSE JunkLen(x[2])
  BY DEF HeadLen, x
<1> QED BY <1>6, <1>7

(* A packet of n bytes leaves the head of the ring.                        *)
Taking(n) ==
  /\ n = HeadLen + Word /\ n \in 0..Len(rring) /\ n \in Nat
  /\ received' = Append(received, SubSeq(rring, 1, n))
  /\ SubSeq(rring, 1, n) \in Seq(Mark) /\ Len(SubSeq(rring, 1, n)) = n
  /\ \A i \in 1..n : SubSeq(rring, 1, n)[i] = rring[i]
  /\ rring' = SubSeq(rring, n + 1, Len(rring))
  /\ rring' \in Seq(Mark) /\ Len(rring') = Len(rring) - n
  /\ \A i \in 1..(Len(rring) - n) : rring'[i] = rring[n + i]

LEMMA TakeDoes ==
  ASSUME StreamType, BytesSent, GetPack
  PROVE  Taking(HeadLen + Word)
<1>1. Len(rring) \in Nat /\ rring \in Seq(Mark)
  BY LenProperties DEF StreamType
<1>2. Len(rring) >= Header /\ HeadLen <= Len(rring) - Word
  BY DEF GetPack, HasPacket
<1>3. rring # <<>>
  <2>1. Len(rring) # 0
    BY <1>1, <1>2, HeaderIs
  <2> QED BY <1>1, <2>1, EmptySeq
<1>4. HeadLen \in Nat
  BY <1>3, HeadLenIs
<1> DEFINE n == HeadLen + Word
<1>5. n \in 0..Len(rring) /\ n \in Nat /\ n = HeadLen + Word
  BY <1>1, <1>2, <1>4, HeaderIs
<1>6. /\ received' = Append(received, SubSeq(rring, 1, n))
      /\ rring' = SubSeq(rring, n + 1, Len(rring))
  BY DEF GetPack
<1> HIDE DEF n
<1>7. /\ SubSeq(rring, 1, n) \in Seq(Mark) /\ Len(SubSeq(rring, 1, n)) = n
      /\ \A i \in 1..n : SubSeq(rring, 1, n)[i] = rring[i]
  BY <1>1, <1>5, Front
<1>8. /\ rring' \in Seq(Mark) /\ Len(rring') = Len(rring) - n
      /\ \A i \in 1..(Len(rring) - n) : rring'[i] = rring[n + i]
  BY <1>1, <1>5, <1>6, Rest
<1> QED BY <1>5, <1>6, <1>7, <1>8 DEF Taking, n

-----------------------------------------------------------------------------
(* Types.                                                                  *)

LEMMA InitType == Init => StreamType
<1> SUFFICES ASSUME Init PROVE StreamType
  OBVIOUS
<1>1. mem \in [Slot -> Mark] /\ pos \in Slot
  BY HeaderIs DEF Init, Slot, Mark
<1>2. Len(wire) <= SockBuf /\ Len(rring) < Cap
  BY HeaderIs, StreamAssumption DEF Init
<1> QED BY <1>1, <1>2 DEF Init, StreamType

LEMMA BodiesGrow ==
  ASSUME StreamType, NEW b \in Bodies, bodies' = Append(bodies, b)
  PROVE  /\ bodies' \in Seq(Bodies) /\ bodies \in Seq(Nat)
         /\ bodies' \in Seq(Nat) /\ b \in Nat
         /\ Len(bodies) \in Nat /\ Len(bodies') = Len(bodies) + 1
         /\ \A m \in 1..Len(bodies) : bodies'[m] = bodies[m]
         /\ bodies'[Len(bodies) + 1] = b
<1>1. bodies \in Seq(Bodies) /\ Bodies \subseteq Nat
  BY StreamAssumption DEF StreamType
<1>2. /\ bodies' \in Seq(Bodies) /\ Len(bodies') = Len(bodies) + 1
      /\ \A m \in 1..Len(bodies) : bodies'[m] = bodies[m]
      /\ bodies'[Len(bodies) + 1] = b
  BY <1>1, AppendProperties
<1> QED BY <1>1, <1>2, SeqMonotonic, LenProperties

LEMMA SendType ==
  ASSUME StreamType, NEW b \in Bodies, Send(b)
  PROVE  StreamType'
<1>1. PICK P, B, k : Sending(b, P, B, k)
  BY SendDoes
<1>2. mem' \in [Slot -> Mark] /\ pos' \in Slot
  BY SendWrote DEF Wrote
<1>3. /\ pending' \in Seq(Slot) /\ promised' \in Seq(Mark)
      /\ Len(promised') = Len(pending')
      /\ wire' \in Seq(Mark) /\ Len(wire') <= SockBuf
  BY <1>1 DEF Sending, Transmitted
<1>4. bodies' \in Seq(Bodies)
  BY BodiesGrow DEF Send
<1>5. /\ sopen' \in BOOLEAN /\ closed' \in BOOLEAN
      /\ rring' \in Seq(Mark) /\ Len(rring') < Cap
      /\ received' \in Seq(Seq(Mark)) /\ phase' \in {"poll", "drain"}
  BY DEF StreamType, Send, receiver
<1>6. harm' \subseteq {"cut", "brim", "clobber", "drop", "wipe"}
  BY DEF StreamType, Send
<1> QED BY <1>2, <1>3, <1>4, <1>5, <1>6 DEF StreamType

LEMMA FlushType ==
  ASSUME StreamType, Flush
  PROVE  StreamType'
<1>1. PICK k : Flushing(k)
  BY FlushDoes
<1>2. /\ pending' \in Seq(Slot) /\ promised' \in Seq(Mark)
      /\ Len(promised') = Len(pending')
      /\ wire' \in Seq(Mark) /\ Len(wire') <= SockBuf
  BY <1>1 DEF Flushing, Transmitted, StreamType
<1>3. UNCHANGED <<mem, pos, sopen, bodies, rring, closed, phase, received, harm>>
  BY DEF Flush, receiver
<1> QED BY <1>2, <1>3 DEF StreamType

LEMMA ReadType ==
  ASSUME StreamType, ReadChunk
  PROVE  StreamType'
<1>1. PICK n : Reading(n)
  BY ReadDoes
<1>2. Len(wire) \in Nat /\ SockBuf \in Nat /\ Len(wire) <= SockBuf
  BY StreamAssumption, LenProperties DEF StreamType
<1>3. wire' \in Seq(Mark) /\ Len(wire') <= SockBuf
  BY <1>1, <1>2 DEF Reading
<1>4. rring' \in Seq(Mark) /\ Len(rring') < Cap
  <2>1. CASE rring' = rring
    BY <2>1 DEF StreamType
  <2>2. CASE rring' = <<>>
    BY <2>2, HeaderIs
  <2> QED BY <1>1, <2>1, <2>2 DEF Reading
<1>5. harm' \subseteq {"cut", "brim", "clobber", "drop", "wipe"}
  BY <1>1 DEF Reading, StreamType
<1>6. /\ UNCHANGED <<mem, pos, pending, promised, sopen, bodies>>
      /\ UNCHANGED <<closed, received>> /\ phase' = "drain"
  BY DEF ReadChunk, sender
<1> QED BY <1>3, <1>4, <1>5, <1>6 DEF StreamType

LEMMA TakeType ==
  ASSUME StreamType, BytesSent, GetPack
  PROVE  StreamType'
<1> DEFINE n == HeadLen + Word
<1>1. Taking(n)
  BY TakeDoes
<1> HIDE DEF n
<1>2. Len(rring) \in Nat /\ Len(rring) < Cap /\ Cap \in Nat
  BY HeaderIs, LenProperties DEF StreamType
<1>3. rring' \in Seq(Mark) /\ Len(rring') < Cap
  BY <1>1, <1>2 DEF Taking
<1>4. received' \in Seq(Seq(Mark))
  BY <1>1, AppendProperties DEF Taking, StreamType
<1>5. UNCHANGED <<mem, pos, pending, promised, sopen, bodies,
                  wire, closed, phase, harm>>
  BY DEF GetPack, sender
<1> QED BY <1>3, <1>4, <1>5 DEF StreamType

LEMMA TypeStep ==
  ASSUME StreamType, BytesSent, [Next]_vars
  PROVE  StreamType'
<1>1. ASSUME SenderCloses PROVE StreamType'
  <2>1. /\ UNCHANGED <<mem, pos, bodies, wire, rring, closed, phase,
                       received, harm>>
        /\ sopen' = FALSE /\ pending' = <<>> /\ promised' = <<>>
    BY <1>1 DEF SenderCloses, receiver
  <2>2. /\ pending' \in Seq(Slot) /\ promised' \in Seq(Mark)
        /\ Len(promised') = Len(pending') /\ sopen' \in BOOLEAN
    <3>1. <<>> \in Seq(Slot) /\ <<>> \in Seq(Mark)
      BY EmptySeq
    <3>2. Len(promised') = Len(pending')
      BY <2>1
    <3> QED BY <2>1, <3>1, <3>2
  <2> QED BY <2>1, <2>2 DEF StreamType
<1>2. ASSUME ReadEnd PROVE StreamType'
  <2>1. /\ UNCHANGED <<mem, pos, pending, promised, sopen, bodies,
                       wire, rring, received, harm>>
        /\ closed' = TRUE /\ phase' = "drain"
    BY <1>2 DEF ReadEnd, sender
  <2> QED BY <2>1 DEF StreamType
<1>3. ASSUME DrainDone PROVE StreamType'
  <2>1. /\ UNCHANGED <<mem, pos, pending, promised, sopen, bodies,
                       wire, rring, closed, received, harm>>
        /\ phase' = "poll"
    BY <1>3 DEF DrainDone, sender
  <2> QED BY <2>1 DEF StreamType
<1>4. ASSUME UNCHANGED vars PROVE StreamType'
  BY <1>4 DEF StreamType, vars, sender, receiver
<1> QED BY <1>1, <1>2, <1>3, <1>4, SendType, FlushType, ReadType, TakeType
        DEF Next

-----------------------------------------------------------------------------
(* Whose bytes they are.                                                   *)

LEMMA SendBytes ==
  ASSUME StreamType, BytesSent, NEW b \in Bodies, Send(b)
  PROVE  BytesSent'
<1> DEFINE m == Len(bodies) + 1
           n == Framed(b)
<1>1. PICK P, B, k : Sending(b, P, B, k)
  BY SendDoes
<1>2. /\ Len(bodies) \in Nat /\ b \in Nat /\ Len(bodies') = m
      /\ \A i \in 1..Len(bodies) : bodies'[i] = bodies[i]
      /\ bodies'[m] = b
  BY BodiesGrow DEF Send
<1>3. n \in Nat /\ Given(b) \in 0..n
  BY <1>2, FramedIs DEF Given
<1>4. ASSUME NEW x, InRing(x, bodies) PROVE InRing(x, bodies')
  BY <1>2, <1>4 DEF InRing
<1>5. ASSUME NEW j \in 1..n PROVE InRing(<<m, j>>, bodies')
  BY <1>2 DEF InRing
<1>6. /\ \A j \in 1..n : mem'[Ahead(pos, j - 1)] = <<m, j>>
      /\ \A s \in Slot : mem'[s] = mem[s] \/ \E j \in 1..n : mem'[s] = <<m, j>>
  BY SendWrote DEF Wrote
<1> HIDE DEF m, n
<1>7. \A s \in Slot : mem'[s] = <<0, 0>> \/ InRing(mem'[s], bodies')
  BY <1>4, <1>5, <1>6 DEF BytesSent
<1>8. ASSUME NEW i \in 1..Len(P) PROVE InRing(mem'[P[i]], bodies')
  <2>1. Len(pending) \in Nat /\ Len(P) = Len(pending) + Given(b)
    BY <1>1, LenProperties DEF Sending, StreamType
  <2>2. CASE i \in 1..Len(pending)
    <3>1. P[i] = pending[i] /\ pending[i] \in Slot
      BY <1>1, <2>2, ElementOfSeq DEF Sending, StreamType
    <3>2. InRing(mem[pending[i]], bodies)
      BY <2>2 DEF BytesSent
    <3> QED BY <1>4, <1>5, <1>6, <3>1, <3>2
  <2>3. CASE i \in (Len(pending) + 1)..Len(P)
    <3> DEFINE j == i - Len(pending)
    <3>1. j \in 1..Given(b) /\ j \in 1..n /\ i = Len(pending) + j
      BY <1>3, <2>1, <2>3
    <3>2. P[i] = Ahead(pos, j - 1)
      BY <1>1, <3>1 DEF Sending
    <3> QED BY <1>5, <1>6, <3>1, <3>2
  <2>4. i \in 1..Len(pending) \/ i \in (Len(pending) + 1)..Len(P)
    BY <1>3, <2>1
  <2> QED BY <2>2, <2>3, <2>4
<1>9. /\ k \in 0..Len(P) /\ Len(P) \in Nat /\ Len(wire) \in Nat
      /\ Transmitted(k, mem', P, B)
  BY <1>1, LenProperties DEF Sending, StreamType
<1>10. ASSUME NEW i \in 1..Len(pending')
       PROVE  InRing(mem'[pending'[i]], bodies')
  <2>1. i \in 1..(Len(P) - k) /\ k + i \in 1..Len(P)
    BY <1>9 DEF Transmitted
  <2>2. pending'[i] = P[k + i]
    BY <1>9, <2>1 DEF Transmitted
  <2> QED BY <1>8, <2>1, <2>2
<1>11. ASSUME NEW i \in 1..Len(wire') PROVE InRing(wire'[i], bodies')
  <2>1. CASE i \in 1..Len(wire)
    BY <1>4, <1>9, <2>1 DEF Transmitted, BytesSent
  <2>2. CASE i \in (Len(wire) + 1)..(Len(wire) + k)
    <3> DEFINE j == i - Len(wire)
    <3>1. j \in 1..k /\ j \in 1..Len(P) /\ i = Len(wire) + j
      BY <1>9, <2>2
    <3>2. wire'[i] = mem'[P[j]]
      BY <1>9, <3>1 DEF Transmitted
    <3> QED BY <1>8, <3>1, <3>2
  <2>3. i \in 1..Len(wire) \/ i \in (Len(wire) + 1)..(Len(wire) + k)
    BY <1>9 DEF Transmitted
  <2> QED BY <2>1, <2>2, <2>3
<1>12. \A i \in 1..Len(rring') : InRing(rring'[i], bodies')
  <2>1. rring' = rring
    BY DEF Send, receiver
  <2> QED BY <1>4, <2>1 DEF BytesSent
<1> QED BY <1>7, <1>10, <1>11, <1>12 DEF BytesSent

LEMMA FlushBytes ==
  ASSUME StreamType, BytesSent, Flush
  PROVE  BytesSent'
<1>1. PICK k : Flushing(k)
  BY FlushDoes
<1>2. /\ k \in 0..Len(pending) /\ Len(pending) \in Nat /\ Len(wire) \in Nat
      /\ Transmitted(k, mem, pending, promised)
  BY <1>1, LenProperties DEF Flushing, StreamType
<1>3. UNCHANGED <<mem, bodies, rring>>
  BY DEF Flush, receiver
<1>4. ASSUME NEW i \in 1..Len(pending')
      PROVE  InRing(mem[pending'[i]], bodies)
  <2>1. i \in 1..(Len(pending) - k) /\ k + i \in 1..Len(pending)
    BY <1>2 DEF Transmitted
  <2>2. pending'[i] = pending[k + i]
    BY <1>2, <2>1 DEF Transmitted
  <2> QED BY <2>1, <2>2 DEF BytesSent
<1>5. ASSUME NEW i \in 1..Len(wire') PROVE InRing(wire'[i], bodies)
  <2>1. CASE i \in 1..Len(wire)
    BY <1>2, <2>1 DEF Transmitted, BytesSent
  <2>2. CASE i \in (Len(wire) + 1)..(Len(wire) + k)
    <3> DEFINE j == i - Len(wire)
    <3>1. j \in 1..k /\ j \in 1..Len(pending) /\ i = Len(wire) + j
      BY <1>2, <2>2
    <3>2. wire'[i] = mem[pending[j]]
      BY <1>2, <3>1 DEF Transmitted
    <3> QED BY <3>1, <3>2 DEF BytesSent
  <2>3. i \in 1..Len(wire) \/ i \in (Len(wire) + 1)..(Len(wire) + k)
    BY <1>2 DEF Transmitted
  <2> QED BY <2>1, <2>2, <2>3
<1> QED BY <1>3, <1>4, <1>5 DEF BytesSent

LEMMA ReadBytes ==
  ASSUME StreamType, BytesSent, ReadChunk
  PROVE  BytesSent'
<1>1. PICK n : Reading(n)
  BY ReadDoes
<1>2. /\ n \in 1..Len(wire) /\ Len(wire) \in Nat /\ Len(rring) \in Nat
      /\ Len(wire') = Len(wire) - n
      /\ \A i \in 1..(Len(wire) - n) : wire'[i] = wire[n + i]
  BY <1>1, LenProperties DEF Reading, StreamType
<1>3. UNCHANGED <<mem, pending, bodies>>
  BY DEF ReadChunk, sender
<1>4. ASSUME NEW i \in 1..Len(wire') PROVE InRing(wire'[i], bodies)
  <2>1. i \in 1..(Len(wire) - n) /\ n + i \in 1..Len(wire)
    BY <1>2
  <2> QED BY <1>2, <2>1 DEF BytesSent
<1>5. ASSUME NEW i \in 1..Len(rring') PROVE InRing(rring'[i], bodies)
  <2>1. CASE rring' = rring
    BY <2>1 DEF BytesSent
  <2>2. CASE rring' = <<>>
    <3>1. Len(rring') = 0
      BY <2>2
    <3> QED BY <3>1
  <2>3. CASE /\ Len(rring') = Len(rring) + n
             /\ \A j \in 1..Len(rring) : rring'[j] = rring[j]
             /\ \A j \in 1..n : rring'[Len(rring) + j] = wire[j]
    <3>1. CASE i \in 1..Len(rring)
      BY <2>3, <3>1 DEF BytesSent
    <3>2. CASE i \in (Len(rring) + 1)..(Len(rring) + n)
      <4> DEFINE j == i - Len(rring)
      <4>1. j \in 1..n /\ j \in 1..Len(wire) /\ i = Len(rring) + j
        BY <1>2, <3>2
      <4>2. rring'[i] = wire[j]
        BY <2>3, <4>1
      <4> QED BY <4>1, <4>2 DEF BytesSent
    <3>3. i \in 1..Len(rring) \/ i \in (Len(rring) + 1)..(Len(rring) + n)
      BY <1>2, <2>3
    <3> QED BY <3>1, <3>2, <3>3
  <2> QED BY <1>1, <2>1, <2>2, <2>3 DEF Reading
<1> QED BY <1>3, <1>4, <1>5 DEF BytesSent

LEMMA TakeBytes ==
  ASSUME StreamType, BytesSent, GetPack
  PROVE  BytesSent'
<1> DEFINE n == HeadLen + Word
<1>1. Taking(n)
  BY TakeDoes
<1> HIDE DEF n
<1>2. /\ n \in 0..Len(rring) /\ n \in Nat /\ Len(rring) \in Nat
      /\ Len(rring') = Len(rring) - n
      /\ \A i \in 1..(Len(rring) - n) : rring'[i] = rring[n + i]
  BY <1>1, LenProperties DEF Taking, StreamType
<1>3. ASSUME NEW i \in 1..Len(rring') PROVE InRing(rring'[i], bodies)
  <2>1. i \in 1..(Len(rring) - n) /\ n + i \in 1..Len(rring)
    BY <1>2
  <2> QED BY <1>2, <2>1 DEF BytesSent
<1>4. UNCHANGED <<mem, pending, bodies, wire>>
  BY DEF GetPack, sender
<1> QED BY <1>3, <1>4 DEF BytesSent

LEMMA BytesStep ==
  ASSUME StreamType, BytesSent, [Next]_vars
  PROVE  BytesSent'
<1>1. ASSUME SenderCloses PROVE BytesSent'
  <2>1. UNCHANGED <<mem, bodies, wire, rring>> /\ Len(pending') = 0
    BY <1>1 DEF SenderCloses, receiver
  <2> QED BY <2>1 DEF BytesSent
<1>2. ASSUME UNCHANGED <<sender, wire, rring>> PROVE BytesSent'
  BY <1>2 DEF BytesSent, sender
<1>3. ReadEnd \/ DrainDone \/ UNCHANGED vars =>
        UNCHANGED <<sender, wire, rring>>
  BY DEF ReadEnd, DrainDone, vars, sender, receiver
<1> QED BY <1>1, <1>2, <1>3, SendBytes, FlushBytes, ReadBytes, TakeBytes
        DEF Next

-----------------------------------------------------------------------------
(* What waits in the sender's ring.                                        *)

(* The last Cap bytes given are what they were, unless a message too long  *)
(* was written over them.                                                  *)
RecentKept ==
  harm \cap {"cut", "brim"} = {} =>
    \A i \in 1..Len(pending) :
      Len(pending) - i < Cap => mem[pending[i]] = promised[i]

RingKept == ClosedEmpty /\ PendingBehind /\ RecentKept /\ RegionKept

LEMMA BehindMoves ==
  ASSUME NEW p \in Slot, NEW g \in 0..Cap
  PROVE  /\ \A d \in 1..Cap : d + g <= Cap =>
              SlotBehind(Ahead(p, g), d + g) = SlotBehind(p, d)
         /\ \A j \in 1..g : SlotBehind(Ahead(p, g), g - j + 1) = Ahead(p, j - 1)
<1>1. Cap \in Nat /\ p \in 0..(Cap - 1)
  BY HeaderIs DEF Slot
<1>2. ASSUME NEW d \in 1..Cap, d + g <= Cap
      PROVE  SlotBehind(Ahead(p, g), d + g) = SlotBehind(p, d)
  BY <1>1, <1>2 DEF SlotBehind, Ahead
<1>3. ASSUME NEW j \in 1..g
      PROVE  SlotBehind(Ahead(p, g), g - j + 1) = Ahead(p, j - 1)
  BY <1>1 DEF SlotBehind, Ahead
<1> QED BY <1>2, <1>3

(* What is cut from the front of the waiting list leaves the rest as it    *)
(* was counted, from the back.                                             *)
LEMMA CutKept ==
  ASSUME NEW P \in Seq(Slot), NEW B \in Seq(Mark), NEW k \in 0..Len(P),
         NEW M, Transmitted(k, M, P, B), NEW i \in 1..Len(pending')
  PROVE  /\ k + i \in 1..Len(P) /\ Len(pending') - i = Len(P) - (k + i)
         /\ pending'[i] = P[k + i] /\ promised'[i] = B[k + i]
<1>1. Len(P) \in Nat
  BY LenProperties
<1>2. Len(pending') = Len(P) - k /\ i \in 1..(Len(P) - k)
  BY DEF Transmitted
<1>3. k + i \in 1..Len(P) /\ Len(pending') - i = Len(P) - (k + i)
  BY <1>1, <1>2
<1>4. pending'[i] = P[k + i] /\ promised'[i] = B[k + i]
  BY <1>2 DEF Transmitted
<1> QED BY <1>3, <1>4

(* What waits is what was given, when nothing that waited was overwritten. *)
LEMMA AsGiven ==
  ASSUME StreamType, RegionKept, NEW b \in Bodies, Send(b),
         NEW P, NEW B, NEW k, Sending(b, P, B, k),
         NEW i \in 1..Len(P),
         i \in 1..Len(pending) => "clobber" \notin harm'
  PROVE  mem'[P[i]] = B[i]
<1>1. /\ Len(pending) \in Nat /\ Len(P) = Len(pending) + Given(b)
      /\ Framed(b) \in Nat /\ Given(b) \in 0..Framed(b)
  <2>1. Framed(b) \in Nat
    BY StreamAssumption, FramedIs
  <2> QED BY <2>1, LenProperties DEF Sending, StreamType, Given
<1>2. CASE i \in 1..Len(pending)
  <2>1. mem'[pending[i]] = mem[pending[i]] /\ "clobber" \notin harm
    <3>1. DOMAIN pending = 1..Len(pending)
      BY LenProperties DEF StreamType
    <3> QED BY <1>2, <3>1 DEF Send, StreamType
  <2>2. mem[pending[i]] = promised[i]
    BY <1>2, <2>1 DEF RegionKept
  <2> QED BY <1>2, <2>1, <2>2 DEF Sending
<1>3. CASE i \in (Len(pending) + 1)..Len(P)
  <2> DEFINE j == i - Len(pending)
  <2>1. j \in 1..Given(b) /\ j \in 1..Framed(b) /\ i = Len(pending) + j
    BY <1>1, <1>3
  <2>2. /\ P[i] = Ahead(pos, j - 1)
        /\ B[i] = <<Len(bodies) + 1, j>>
    BY <2>1 DEF Sending
  <2>3. mem'[Ahead(pos, j - 1)] = <<Len(bodies) + 1, j>>
    BY <2>1, SendWrote DEF Wrote
  <2> QED BY <2>2, <2>3
<1>4. i \in 1..Len(pending) \/ i \in (Len(pending) + 1)..Len(P)
  BY <1>1
<1> QED BY <1>2, <1>3, <1>4

LEMMA SendRing ==
  ASSUME StreamType, RingKept, NEW b \in Bodies, Send(b)
  PROVE  RingKept'
<1> DEFINE n == Framed(b)
           g == Given(b)
           L == Len(pending)
<1>1. PICK P, B, k : Sending(b, P, B, k)
  BY SendDoes
<1>2. /\ P \in Seq(Slot) /\ Len(P) = L + g /\ L \in Nat
      /\ B \in Seq(Mark) /\ k \in 0..Len(P)
      /\ Transmitted(k, mem', P, B)
  BY <1>1, LenProperties DEF Sending, StreamType
<1>3. b \in Nat /\ n \in Nat /\ n \in 0..Cap /\ Cap \in Nat
      /\ g = IF n = Cap \/ ~sopen THEN 0 ELSE n
  BY StreamAssumption, FramedIs, HeaderIs DEF Given
<1>4. g \in Nat /\ g \in 0..Cap
  BY <1>3
<1>5. /\ \A i \in 1..L : P[i] = pending[i] /\ B[i] = promised[i]
      /\ \A j \in 1..g : /\ P[L + j] = Ahead(pos, j - 1)
                         /\ B[L + j] = <<Len(bodies) + 1, j>>
  BY <1>1 DEF Sending
<1>6. /\ \A j \in 1..n : mem'[Ahead(pos, j - 1)] = <<Len(bodies) + 1, j>>
      /\ \A d \in 1..Cap :
           d + n <= Cap => mem'[SlotBehind(pos, d)] = mem[SlotBehind(pos, d)]
      /\ pos' = Ahead(pos, n)
  BY SendWrote DEF Wrote
<1>7. /\ sopen' = sopen /\ pos \in Slot
      /\ harm \subseteq harm'
      /\ n = Cap => "brim" \in harm'
      /\ "clobber" \notin harm' =>
           \A i \in 1..L : mem'[pending[i]] = mem[pending[i]]
  <2>1. DOMAIN pending = 1..Len(pending)
    BY LenProperties DEF StreamType
  <2> QED BY <2>1 DEF Send, StreamType
<1> HIDE DEF n, g
<1>8. ~sopen => L = 0 /\ g = 0 /\ Len(P) = 0
  BY <1>2, <1>3 DEF RingKept, ClosedEmpty
<1>9. sopen => pos' = Ahead(pos, g)
  <2>1. Ahead(pos, Cap) = pos /\ Ahead(pos, 0) = pos
    BY <1>3, <1>7 DEF Ahead, Slot
  <2> QED BY <1>3, <1>6, <2>1
<1>10. ASSUME NEW i \in 1..Len(P)
       PROVE  \/ i \in 1..L
              \/ \E j \in 1..g : i = L + j /\ Len(P) - i + 1 = g - j + 1
  <2>1. i > L => i - L \in 1..g /\ i = L + (i - L)
                 /\ Len(P) - i + 1 = g - (i - L) + 1
    BY <1>2, <1>4
  <2> QED BY <1>2, <2>1
<1> HIDE DEF L
<1>11. ASSUME NEW i \in 1..L, Len(P) - i < Cap, sopen
       PROVE  LET d == L - i + 1
              IN  /\ d \in 1..Cap /\ d + g <= Cap /\ Len(P) - i + 1 = d + g
                  /\ pending[i] = SlotBehind(pos, d)
  <2>1. /\ L - i + 1 \in 1..Cap /\ (L - i + 1) + g <= Cap
        /\ Len(P) - i + 1 = (L - i + 1) + g /\ L - i < Cap
    BY <1>2, <1>3, <1>4, <1>11
  <2>2. pending[i] = SlotBehind(pos, L - i + 1)
    BY <2>1 DEF L, RingKept, PendingBehind
  <2> QED BY <2>1, <2>2
<1>12. ASSUME NEW i \in 1..Len(P), Len(P) - i < Cap
       PROVE  P[i] = SlotBehind(pos', Len(P) - i + 1)
  <2>1. sopen
    BY <1>8, <1>12
  <2>2. CASE i \in 1..L
    BY <1>4, <1>5, <1>7, <1>9, <1>11, <1>12, <2>1, <2>2, BehindMoves
  <2>3. CASE \E j \in 1..g : i = L + j /\ Len(P) - i + 1 = g - j + 1
    BY <1>4, <1>5, <1>7, <1>9, <2>1, <2>3, BehindMoves
  <2> QED BY <1>10, <2>2, <2>3
<1>13. ASSUME NEW i \in 1..Len(P), i \in 1..L => "clobber" \notin harm'
       PROVE  mem'[P[i]] = B[i]
  BY <1>1, <1>13, AsGiven DEF L, RingKept
<1>14. ASSUME NEW i \in 1..Len(P), Len(P) - i < Cap,
              harm' \cap {"cut", "brim"} = {}
       PROVE  mem'[P[i]] = B[i]
  <2>1. sopen /\ n # Cap /\ g = n /\ harm \cap {"cut", "brim"} = {}
    BY <1>3, <1>7, <1>8, <1>14
  <2>2. CASE i \in 1..L
    <3>1. /\ L - i + 1 \in 1..Cap /\ (L - i + 1) + n <= Cap
          /\ pending[i] = SlotBehind(pos, L - i + 1)
      BY <1>11, <1>14, <2>1, <2>2
    <3>2. mem'[pending[i]] = mem[pending[i]]
      BY <1>6, <3>1
    <3>3. L - i < Cap
      BY <1>2, <1>3, <2>2, <3>1
    <3>4. mem[pending[i]] = promised[i]
      BY <2>1, <2>2, <3>3 DEF L, RingKept, RecentKept
    <3> QED BY <1>5, <2>2, <3>2, <3>4
  <2> QED BY <1>13, <2>2
<1>16. ASSUME NEW i \in 1..Len(pending')
       PROVE  /\ k + i \in 1..Len(P) /\ Len(pending') - i = Len(P) - (k + i)
              /\ pending'[i] = P[k + i] /\ promised'[i] = B[k + i]
  BY <1>2, CutKept
<1>17. ClosedEmpty'
  <2>1. ASSUME ~sopen PROVE pending' = <<>>
    <3>1. Len(P) = 0
      BY <1>8, <2>1
    <3>2. pending' \in Seq(Slot) /\ Len(pending') = 0
      BY <1>2, <3>1 DEF Transmitted
    <3> QED BY <3>2, EmptySeq
  <2> QED BY <1>7, <2>1 DEF ClosedEmpty
<1>18. PendingBehind'
  BY <1>12, <1>16 DEF PendingBehind
<1>19. RecentKept'
  BY <1>14, <1>16 DEF RecentKept
<1>20. RegionKept'
  BY <1>13, <1>16 DEF RegionKept
<1> QED BY <1>17, <1>18, <1>19, <1>20 DEF RingKept

LEMMA FlushRing ==
  ASSUME StreamType, RingKept, Flush
  PROVE  RingKept'
<1>1. PICK k : Flushing(k)
  BY FlushDoes
<1>2. /\ pending \in Seq(Slot) /\ promised \in Seq(Mark)
      /\ k \in 0..Len(pending)
      /\ Transmitted(k, mem, pending, promised)
  BY <1>1 DEF Flushing, StreamType
<1>3. UNCHANGED <<mem, pos, sopen, harm>> /\ sopen
  BY DEF Flush
<1>4. ASSUME NEW i \in 1..Len(pending')
      PROVE  /\ k + i \in 1..Len(pending)
             /\ Len(pending') - i = Len(pending) - (k + i)
             /\ pending'[i] = pending[k + i] /\ promised'[i] = promised[k + i]
  BY <1>2, CutKept
<1>5. ClosedEmpty'
  BY <1>3 DEF ClosedEmpty
<1>6. PendingBehind'
  BY <1>3, <1>4 DEF PendingBehind, RingKept
<1>7. RecentKept'
  BY <1>3, <1>4 DEF RecentKept, RingKept
<1>8. RegionKept'
  BY <1>3, <1>4 DEF RegionKept, RingKept
<1> QED BY <1>5, <1>6, <1>7, <1>8 DEF RingKept

LEMMA RingStep ==
  ASSUME StreamType, RingKept, [Next]_vars
  PROVE  RingKept'
<1>1. ASSUME SenderCloses PROVE RingKept'
  <2>1. pending' = <<>> /\ Len(pending') = 0
    BY <1>1 DEF SenderCloses
  <2> QED BY <2>1 DEF RingKept, ClosedEmpty, PendingBehind, RecentKept,
                      RegionKept
<1>2. ASSUME ReadChunk PROVE RingKept'
  <2>1. UNCHANGED <<mem, pos, pending, promised, sopen>>
    BY <1>2 DEF ReadChunk, sender
  <2>2. PICK n : Reading(n)
    BY <1>2, ReadDoes
  <2>3. harm \subseteq harm'
    BY <2>2 DEF Reading
  <2>4. /\ harm' \cap {"cut", "brim"} = {} => harm \cap {"cut", "brim"} = {}
        /\ "clobber" \notin harm' => "clobber" \notin harm
    BY <2>3
  <2> QED BY <2>1, <2>4 DEF RingKept, ClosedEmpty, PendingBehind, RecentKept,
                            RegionKept
<1>3. ASSUME UNCHANGED <<sender, harm>> PROVE RingKept'
  BY <1>3 DEF sender, RingKept, ClosedEmpty, PendingBehind, RecentKept,
              RegionKept
<1>4. ReadEnd \/ GetPack \/ DrainDone \/ UNCHANGED vars =>
        UNCHANGED <<sender, harm>>
  BY DEF ReadEnd, GetPack, DrainDone, vars
<1> QED BY <1>1, <1>2, <1>3, <1>4, SendRing, FlushRing DEF Next

-----------------------------------------------------------------------------
(* What the ring of the receiver holds when the loop is idle.              *)

Drained == (phase = "poll" => ~HasPacket) /\ (closed => ~HasPacket)

(* A send changes nothing the receiver sees.                               *)
LEMMA SendUnseen ==
  ASSUME StreamType, BytesSent, NEW b \in Bodies, Send(b), HasPacket'
  PROVE  HasPacket
<1>1. rring' = rring /\ Len(rring) >= Header /\ Len(rring) \in Nat
  BY LenProperties DEF Send, receiver, HasPacket, StreamType
<1>2. 1 \in 1..Len(rring)
  BY <1>1, HeaderIs
<1>3. rring[1][1] \in 1..Len(bodies)
  BY <1>2 DEF BytesSent, InRing
<1>4. bodies'[rring[1][1]] = bodies[rring[1][1]]
  BY <1>3, BodiesGrow DEF Send
<1>5. HeadLen' = HeadLen
  BY <1>1, <1>4 DEF HeadLen
<1> QED BY <1>1, <1>5 DEF HasPacket

LEMMA DrainedStep ==
  ASSUME StreamType, BytesSent, Drained, [Next]_vars
  PROVE  Drained'
<1>1. ASSUME NEW b \in Bodies, Send(b) PROVE Drained'
  <2>1. UNCHANGED <<phase, closed>>
    BY <1>1 DEF Send, receiver
  <2> QED BY <1>1, <2>1, SendUnseen DEF Drained
<1>2. ASSUME UNCHANGED <<rring, bodies, phase, closed>> PROVE Drained'
  BY <1>2 DEF Drained, HasPacket, HeadLen
<1>3. Flush \/ SenderCloses \/ UNCHANGED vars =>
        UNCHANGED <<rring, bodies, phase, closed>>
  BY DEF Flush, SenderCloses, vars, sender, receiver
<1>4. ASSUME ReadChunk PROVE Drained'
  <2>1. closed' = FALSE /\ phase' = "drain"
    BY <1>4 DEF ReadChunk, StreamType
  <2> QED BY <2>1 DEF Drained
<1>5. ASSUME ReadEnd PROVE Drained'
  <2>1. phase = "poll" /\ phase' = "drain" /\ UNCHANGED <<rring, bodies>>
    BY <1>5 DEF ReadEnd, sender
  <2> QED BY <2>1 DEF Drained, HasPacket, HeadLen
<1>6. ASSUME GetPack PROVE Drained'
  <2>1. HasPacket /\ phase = "drain" /\ UNCHANGED <<phase, closed>>
    BY <1>6 DEF GetPack
  <2> QED BY <2>1 DEF Drained
<1>7. ASSUME DrainDone PROVE Drained'
  <2>1. ~HasPacket /\ UNCHANGED <<rring, bodies>>
    BY <1>7 DEF DrainDone, sender
  <2> QED BY <2>1 DEF Drained, HasPacket, HeadLen
<1> QED BY <1>1, <1>2, <1>3, <1>4, <1>5, <1>6, <1>7 DEF Next

-----------------------------------------------------------------------------
(* The stream.                                                             *)

(* The packets that were handled are those of the first messages.          *)
InOrder ==
  harm = {} =>
    /\ Len(received) <= Len(bodies)
    /\ \A k \in 1..Len(received) : received[k] = Whole(k, LenOf(bodies, k))

LEMMA StreamIs ==
  ASSUME StreamType
  PROVE  /\ Stream \in Seq(Mark) /\ bodies \in Seq(Nat)
         /\ Len(received) \in Nat /\ Len(bodies) \in Nat
         /\ Len(rring) \in Nat /\ Len(Stream) \in Nat
         /\ Len(rring) <= Len(Stream)
         /\ \A i \in 1..Len(rring) : Stream[i] = rring[i]
<1>1. /\ rring \in Seq(Mark) /\ wire \in Seq(Mark) /\ promised \in Seq(Mark)
      /\ bodies \in Seq(Bodies) /\ Bodies \subseteq Nat
      /\ received \in Seq(Seq(Mark))
  BY StreamAssumption DEF StreamType
<1> DEFINE u == rring \o wire
<1>2. /\ u \in Seq(Mark) /\ Len(u) = Len(rring) + Len(wire)
      /\ \A i \in 1..Len(rring) : u[i] = rring[i]
  <2>1. rring \in Seq(Mark) /\ wire \in Seq(Mark)
    BY <1>1
  <2> QED BY <2>1, Joined
<1>3. Stream = u \o promised
  BY DEF Stream, Line
<1> HIDE DEF u
<1>4. /\ u \o promised \in Seq(Mark)
      /\ Len(u \o promised) = Len(u) + Len(promised)
      /\ \A i \in 1..Len(u) : (u \o promised)[i] = u[i]
  <2>1. u \in Seq(Mark) /\ promised \in Seq(Mark)
    BY <1>1, <1>2
  <2> QED BY <2>1, Joined
<1>5. /\ Len(rring) \in Nat /\ Len(wire) \in Nat /\ Len(promised) \in Nat
      /\ Len(received) \in Nat /\ Len(bodies) \in Nat
  BY <1>1, LenProperties
<1>6. \A i \in 1..Len(rring) : i \in 1..Len(u)
  BY <1>2, <1>5
<1>7. bodies \in Seq(Nat)
  BY <1>1, SeqMonotonic
<1>8. Stream \in Seq(Mark) /\ Len(Stream) = Len(rring) + Len(wire) + Len(promised)
  BY <1>2, <1>3, <1>4
<1>9. \A i \in 1..Len(rring) : Stream[i] = rring[i]
  BY <1>2, <1>3, <1>4, <1>6
<1>10. Len(Stream) \in Nat /\ Len(rring) <= Len(Stream)
  BY <1>5, <1>8
<1> QED BY <1>5, <1>7, <1>8, <1>9, <1>10

(* A send lengthens the stream by what was given.                          *)
LEMMA SendLengthens ==
  ASSUME StreamType, RegionKept, NEW b \in Bodies, Send(b), harm' = {}
  PROVE  Stream' = Stream \o Whole(Len(bodies) + 1, Given(b))
<1> DEFINE W == Whole(Len(bodies) + 1, Given(b))
<1>1. PICK P, B, k : Sending(b, P, B, k)
  BY SendDoes
<1>2. /\ B \in Seq(Mark) /\ Len(B) = Len(P) /\ k \in 0..Len(P)
      /\ B = promised \o W
      /\ Transmitted(k, mem', P, B)
  BY <1>1 DEF Sending
<1>3. Len(P) \in Nat
  BY <1>1, LenProperties DEF Sending
<1>4. \A i \in 1..k : mem'[P[i]] = B[i]
  <2>1. \A i \in 1..k : i \in 1..Len(P)
    BY <1>2, <1>3
  <2> QED BY <1>1, <2>1, AsGiven
<1>5. rring' = rring /\ k \in 0..Len(B)
  BY <1>2 DEF Send, receiver
<1>6. wire' = wire \o SubSeq(B, 1, k) /\ promised' = SubSeq(B, k + 1, Len(B))
  BY <1>2, <1>4 DEF Transmitted
<1>7. /\ rring \in Seq(Mark) /\ wire \in Seq(Mark) /\ promised \in Seq(Mark)
  BY DEF StreamType
<1>8. W \in Seq(Mark)
  <2>1. b \in Nat
    BY StreamAssumption
  <2>2. Given(b) \in Nat /\ Len(bodies) + 1 \in Nat
    BY <2>1, StreamIs, FramedIs DEF Given
  <2> QED BY <2>2, WholeIs
<1> HIDE DEF W
<1>9. Handed(rring, wire, B, k) = Line(rring, wire, B)
  <2>1. /\ B \in Seq(Mark) /\ rring \in Seq(Mark) /\ wire \in Seq(Mark)
        /\ k \in 0..Len(B)
    BY <1>2, <1>5, <1>7
  <2> QED BY <2>1, Handover
<1>10. rring \o wire \in Seq(Mark)
  BY <1>7, ConcatProperties
<1>11. ASSUME NEW u \in Seq(Mark), NEW v \in Seq(Mark), NEW w \in Seq(Mark)
       PROVE  u \o (v \o w) = (u \o v) \o w
  BY ConcatAssociative
<1>12. (rring \o wire) \o (promised \o W) = ((rring \o wire) \o promised) \o W
  BY <1>7, <1>8, <1>10, <1>11
<1>13. Stream' = Handed(rring, wire, B, k)
  BY <1>5, <1>6 DEF Stream, Line, Handed
<1>14. Line(rring, wire, B) = Stream \o W
  BY <1>2, <1>12 DEF Stream, Line
<1> QED BY <1>9, <1>13, <1>14 DEF W

LEMMA FlushKeeps ==
  ASSUME StreamType, RegionKept, Flush, harm = {}
  PROVE  Stream' = Stream
<1>1. PICK k : Flushing(k)
  BY FlushDoes
<1>2. /\ k \in 0..Len(pending) /\ k \in 0..Len(promised)
      /\ Transmitted(k, mem, pending, promised)
  BY <1>1 DEF Flushing, StreamType
<1>3. Len(pending) \in Nat
  BY LenProperties DEF StreamType
<1>4. \A i \in 1..k : mem[pending[i]] = promised[i]
  <2>1. \A i \in 1..k : i \in 1..Len(pending)
    BY <1>2, <1>3
  <2> QED BY <2>1 DEF RegionKept
<1>5. /\ wire' = wire \o SubSeq(promised, 1, k)
      /\ promised' = SubSeq(promised, k + 1, Len(promised))
  BY <1>2, <1>4 DEF Transmitted
<1>6. rring' = rring
  BY DEF Flush, receiver
<1>7. rring \in Seq(Mark) /\ wire \in Seq(Mark) /\ promised \in Seq(Mark)
  BY DEF StreamType
<1>8. Handed(rring, wire, promised, k) = Line(rring, wire, promised)
  BY <1>2, <1>7, Handover
<1> QED BY <1>5, <1>6, <1>8 DEF Stream, Handed, Line

LEMMA ReadKeeps ==
  ASSUME StreamType, ReadChunk, harm' = {}
  PROVE  Stream' = Stream
<1>1. PICK n : Reading(n)
  BY ReadDoes
<1>2. /\ n \in 1..Len(wire) /\ n \in 0..Len(wire) /\ Len(wire) \in Nat
      /\ rring \in Seq(Mark) /\ wire \in Seq(Mark) /\ promised \in Seq(Mark)
  BY <1>1, LenProperties DEF Reading, StreamType
<1>3. /\ wire' = SubSeq(wire, n + 1, Len(wire))
      /\ rring' = rring \o SubSeq(wire, 1, n)
      /\ promised' = promised
  BY <1>1 DEF Reading, ReadChunk, sender
<1>4. <<>> \in Seq(Mark)
  BY EmptySeq
<1>5. Handed(<<>>, rring, wire, n) = Line(<<>>, rring, wire)
  BY <1>2, <1>4, Handover
<1> DEFINE F == SubSeq(wire, 1, n)
           R == SubSeq(wire, n + 1, Len(wire))
<1>6. F \in Seq(Mark) /\ R \in Seq(Mark)
  BY <1>2, Front, Rest
<1> HIDE DEF F, R
<1>7. rring \o F \in Seq(Mark)
  BY <1>2, <1>6, ConcatProperties
<1>8. ASSUME NEW x \in Seq(Mark) PROVE <<>> \o x = x
  BY ConcatEmptySeq
<1>9. (rring \o F) \o R = rring \o wire
  <2>1. (<<>> \o (rring \o F)) \o R = (<<>> \o rring) \o wire
    BY <1>5 DEF Handed, Line, F, R
  <2>2. <<>> \o (rring \o F) = rring \o F
    BY <1>7, <1>8
  <2>3. <<>> \o rring = rring
    BY <1>2, <1>8
  <2> QED BY <2>1, <2>2, <2>3
<1> QED BY <1>3, <1>9 DEF Stream, Line, F, R

(* A close cuts the stream short.                                          *)
LEMMA CloseCuts ==
  ASSUME StreamType, SenderCloses
  PROVE  \E k \in 0..Len(Stream) : Stream' = SubSeq(Stream, 1, k)
<1> DEFINE u == rring \o wire
           k == Len(u)
<1>1. rring \in Seq(Mark) /\ wire \in Seq(Mark) /\ promised \in Seq(Mark)
  BY DEF StreamType
<1>2. u \in Seq(Mark)
  BY <1>1, ConcatProperties
<1>3. Stream = u \o promised
  BY DEF Stream, Line
<1>4. Stream' = u \o <<>>
  BY DEF SenderCloses, Stream, Line, receiver
<1> HIDE DEF u
<1>5. Stream' = u
  BY <1>2, <1>4, ConcatEmptySeq
<1>6. /\ u \o promised \in Seq(Mark)
      /\ Len(u \o promised) = Len(u) + Len(promised)
      /\ \A i \in 1..Len(u) : (u \o promised)[i] = u[i]
  BY <1>1, <1>2, Joined
<1>7. Len(u) \in Nat /\ Len(promised) \in Nat
  BY <1>1, <1>2, LenProperties
<1>8. /\ Stream \in Seq(Mark) /\ k \in 0..Len(Stream)
      /\ \A i \in 1..k : Stream[i] = u[i]
  BY <1>3, <1>6, <1>7
<1> DEFINE F == SubSeq(Stream, 1, k)
<1>9. F \in Seq(Mark) /\ Len(F) = Len(u) /\ \A i \in 1..k : F[i] = Stream[i]
  BY <1>8, Front
<1> HIDE DEF F
<1>10. F = u
  BY <1>2, <1>8, <1>9, SeqEqual
<1> QED BY <1>5, <1>8, <1>10 DEF F

(* getPack takes the first packet of the stream, whole.                    *)
LEMMA TakeNext ==
  ASSUME StreamType, BytesSent, GetPack, harm = {},
         Runs(Stream, bodies), Starts(Stream, Len(received))
  PROVE  LET r == Len(received)
             n == LenOf(bodies, r + 1)
         IN  /\ Stream # <<>> /\ n \in Nat /\ n <= Len(Stream)
             /\ n \in 0..Len(Stream)
             /\ received' = Append(received, Whole(r + 1, n))
             /\ Stream' = SubSeq(Stream, n + 1, Len(Stream))
<1> DEFINE r == Len(received)
           n == LenOf(bodies, r + 1)
           h == HeadLen + Word
<1>1. Taking(h)
  BY TakeDoes
<1>2. /\ Stream \in Seq(Mark) /\ bodies \in Seq(Nat)
      /\ r \in Nat /\ Len(rring) \in Nat /\ Len(Stream) \in Nat
      /\ Len(rring) <= Len(Stream)
      /\ \A i \in 1..Len(rring) : Stream[i] = rring[i]
  BY StreamIs
<1>3. Len(rring) >= Header
  BY DEF GetPack, HasPacket
<1>4. Stream # <<>> /\ 1 \in 1..Len(rring) /\ 1 \in 1..Len(Stream)
  BY <1>2, <1>3, HeaderIs, EmptySeq
<1>5. Stream[1] = <<r + 1, 1>> /\ rring[1] = <<r + 1, 1>>
  BY <1>2, <1>4 DEF Starts
<1>6. r + 1 \in 1..Len(bodies)
  <2>1. Of(Stream[1], bodies)
    BY <1>4 DEF Runs
  <2>2. Stream[1][1] = r + 1
    BY <1>5
  <2> QED BY <2>1, <2>2 DEF Of
<1>7. n \in Nat /\ n >= Header /\ bodies[r + 1] \in Nat
  BY <1>2, <1>6, LenOfIs, ElementOfSeq
<1>8. ASSUME NEW i \in 1..Len(rring), i <= n PROVE rring[i] = <<r + 1, i>>
  <2>1. i \in 1..Len(Stream) /\ i - 1 \in Nat /\ 1 + (i - 1) = i
    BY <1>2
  <2>2. Behind(Stream[1], Stream[i], i - 1, bodies)
    BY <1>4, <2>1 DEF Runs
  <2>3. Stream[1][1] = r + 1 /\ Stream[1][2] = 1
    BY <1>5
  <2>4. Stream[i] = <<r + 1, 1 + (i - 1)>>
    BY <1>8, <2>1, <2>2, <2>3 DEF Behind
  <2> QED BY <1>2, <2>1, <2>4
<1>9. \A i \in 1..Word : rring[i] = <<r + 1, i>>
  <2>1. \A i \in 1..Word : i \in 1..Len(rring) /\ i <= n
    BY <1>2, <1>3, <1>7, HeaderIs
  <2> QED BY <1>8, <2>1
<1>10. HeadLen = Word + bodies[r + 1]
  <2>1. rring[1][1] = r + 1
    BY <1>5
  <2> QED BY <1>9, <2>1 DEF HeadLen
<1>11. h = n
  BY <1>7, <1>10, HeaderIs DEF LenOf
<1> HIDE DEF h, n, r
<1>12. /\ n \in 0..Len(rring)
       /\ received' = Append(received, SubSeq(rring, 1, n))
       /\ SubSeq(rring, 1, n) \in Seq(Mark) /\ Len(SubSeq(rring, 1, n)) = n
       /\ \A i \in 1..n : SubSeq(rring, 1, n)[i] = rring[i]
       /\ rring' = SubSeq(rring, n + 1, Len(rring))
  BY <1>1, <1>11 DEF Taking
<1>13. n <= Len(Stream) /\ n \in 0..Len(Stream)
  BY <1>2, <1>7, <1>12
<1>14. SubSeq(rring, 1, n) = Whole(r + 1, n)
  <2>1. /\ Whole(r + 1, n) \in Seq(Mark) /\ Len(Whole(r + 1, n)) = n
        /\ \A i \in 1..n : Whole(r + 1, n)[i] = <<r + 1, i>>
    <3>1. r + 1 \in Nat /\ n \in Nat
      BY <1>2, <1>7
    <3> QED BY <3>1, WholeIs
  <2>2. \A i \in 1..n : i \in 1..Len(rring) /\ i <= n
    BY <1>2, <1>7, <1>12
  <2>3. \A i \in 1..n : SubSeq(rring, 1, n)[i] = Whole(r + 1, n)[i]
    BY <1>8, <1>12, <2>1, <2>2
  <2> QED BY <1>12, <2>1, <2>3, SeqEqual
<1>15. Stream' = SubSeq(Stream, n + 1, Len(Stream))
  <2>1. rring \in Seq(Mark) /\ wire \in Seq(Mark) /\ promised \in Seq(Mark)
    BY DEF StreamType
  <2>2. wire' = wire /\ promised' = promised
    BY DEF GetPack, sender
  <2> DEFINE u == rring \o wire
  <2>3. SubSeq(rring, n + 1, Len(rring)) \o wire = SubSeq(u, n + 1, Len(u))
    BY <1>12, <2>1, RestOfJoin
  <2>4. u \in Seq(Mark) /\ Len(u) = Len(rring) + Len(wire)
    BY <2>1, ConcatProperties
  <2>5. n \in 0..Len(u)
    <3>1. Len(wire) \in Nat
      BY <2>1, LenProperties
    <3> QED BY <1>2, <1>7, <1>12, <2>4, <3>1
  <2>6. Stream = u \o promised
    BY DEF Stream, Line
  <2>7. Stream' = SubSeq(u, n + 1, Len(u)) \o promised
    BY <1>12, <2>2, <2>3 DEF Stream, Line
  <2> HIDE DEF u
  <2>8. SubSeq(u, n + 1, Len(u)) \o promised
          = SubSeq(u \o promised, n + 1, Len(u \o promised))
    BY <2>1, <2>4, <2>5, RestOfJoin
  <2> QED BY <2>6, <2>7, <2>8
<1> QED BY <1>4, <1>7, <1>12, <1>13, <1>14, <1>15 DEF n, r

Flow == StreamRuns /\ InOrder

LEMMA SendFlow ==
  ASSUME StreamType, RegionKept, Flow, NEW b \in Bodies, Send(b)
  PROVE  Flow'
<1> SUFFICES ASSUME harm' = {}
             PROVE  /\ Runs(Stream', bodies')
                    /\ Starts(Stream', Len(received'))
                    /\ sopen' => Ends(Stream', bodies', Len(received'))
                    /\ Len(received') <= Len(bodies')
                    /\ \A k \in 1..Len(received') :
                         received'[k] = Whole(k, LenOf(bodies', k))
  BY DEF Flow, StreamRuns, InOrder
<1> DEFINE S == Stream
           T == Stream'
           r == Len(received)
           m == Len(bodies) + 1
           N == Header + b
           more == bodies'
<1>1. /\ S \in Seq(Mark) /\ bodies \in Seq(Nat) /\ r \in Nat
      /\ Len(bodies) \in Nat /\ Len(S) \in Nat
  BY StreamIs
<1>2. /\ more \in Seq(Nat) /\ b \in Nat /\ Len(more) = Len(bodies) + 1
      /\ \A i \in 1..Len(bodies) : more[i] = bodies[i]
      /\ more[Len(bodies) + 1] = b
  BY BodiesGrow DEF Send
<1>3. harm = {} /\ N = Framed(b) /\ N # Cap /\ N \in Nat
  <2>1. harm = {} /\ Framed(b) = Header + b /\ Framed(b) # Cap
    BY DEF Send
  <2> QED BY <1>2, <2>1, HeaderIs
<1>4. /\ Runs(S, bodies) /\ Starts(S, r) /\ (sopen => Ends(S, bodies, r))
      /\ Len(received) <= Len(bodies)
      /\ \A k \in 1..Len(received) : received[k] = Whole(k, LenOf(bodies, k))
  BY <1>3 DEF Flow, StreamRuns, InOrder
<1>5. received' = received /\ sopen' = sopen
  BY DEF Send, receiver
<1>6. T = S \o Whole(m, Given(b))
  BY SendLengthens
<1>7. Runs(T, more) /\ Starts(T, r) /\ (sopen => Ends(T, more, r))
  <2>1. CASE sopen
    <3>1. T = S \o Whole(m, N)
      BY <1>3, <1>6, <2>1 DEF Given
    <3>2. /\ Whole(m, N) \in Seq(Mark) /\ Len(Whole(m, N)) = N
          /\ \A i \in 1..N : Whole(m, N)[i] = <<m, i>>
      <4>1. m \in Nat
        BY <1>1
      <4> HIDE DEF m, N
      <4> QED BY <1>3, <4>1, WholeIs
    <3> DEFINE W == Whole(m, N)
    <3>3. W \in Seq(Mark) /\ S \in Seq(Mark)
      BY <1>1, <3>2
    <3> HIDE DEF W, S, T
    <3>4. /\ S \o W \in Seq(Mark) /\ Len(S \o W) = Len(S) + Len(W)
          /\ \A i \in 1..Len(S) : (S \o W)[i] = S[i]
          /\ \A i \in 1..Len(W) : (S \o W)[Len(S) + i] = W[i]
      BY <3>3, Joined
    <3>5. /\ T \in Seq(Mark) /\ Len(T) = Len(S) + N
          /\ \A i \in 1..Len(S) : T[i] = S[i]
          /\ \A i \in 1..N : T[Len(S) + i] = <<Len(bodies) + 1, i>>
      BY <3>1, <3>2, <3>4 DEF W
    <3> HIDE DEF more, r
    <3>6. Runs(T, more) /\ Starts(T, r) /\ Ends(T, more, r)
      <4>1. /\ S \in Seq(Mark) /\ bodies \in Seq(Nat) /\ b \in Nat /\ r \in Nat
            /\ Runs(S, bodies) /\ Starts(S, r) /\ Ends(S, bodies, r)
            /\ more \in Seq(Nat) /\ T \in Seq(Mark) /\ N = Header + b
            /\ Len(more) = Len(bodies) + 1 /\ more[Len(bodies) + 1] = b
            /\ \A i \in 1..Len(bodies) : more[i] = bodies[i]
            /\ Len(T) = Len(S) + N
            /\ \A i \in 1..Len(S) : T[i] = S[i]
            /\ \A i \in 1..N : T[Len(S) + i] = <<Len(bodies) + 1, i>>
        BY <1>1, <1>2, <1>4, <2>1, <3>5
      <4> HIDE DEF N
      <4> QED BY <4>1, RunsMore
    <3> QED BY <3>6
  <2>2. CASE ~sopen
    <3>1. T = S \o Whole(m, 0)
      BY <1>6, <2>2 DEF Given
    <3>2. Whole(m, 0) = <<>>
      BY <1>1, WholeIs, EmptySeq
    <3> HIDE DEF S, T
    <3>3. T = S
      BY <1>1, <3>1, <3>2, ConcatEmptySeq
    <3> HIDE DEF more
    <3>4. Runs(S, more)
      <4>1. /\ S \in Seq(Mark) /\ bodies \in Seq(Nat) /\ more \in Seq(Nat)
            /\ Len(more) = Len(bodies) + 1
            /\ \A i \in 1..Len(bodies) : more[i] = bodies[i]
            /\ Runs(S, bodies)
        BY <1>1, <1>2, <1>4
      <4> QED BY <4>1, RunsGrow
    <3> QED BY <1>4, <2>2, <3>3, <3>4
  <2> QED BY <2>1, <2>2
<1>8. /\ Len(received') <= Len(bodies')
      /\ \A k \in 1..Len(received') : received'[k] = Whole(k, LenOf(bodies', k))
  <2>1. Len(received) <= Len(bodies') /\ 1..Len(received) \subseteq 1..Len(bodies)
    BY <1>1, <1>2, <1>4
  <2>2. \A k \in 1..Len(received) : LenOf(bodies', k) = LenOf(bodies, k)
    BY <1>2, <2>1 DEF LenOf
  <2> QED BY <1>4, <1>5, <2>1, <2>2
<1> QED BY <1>5, <1>7, <1>8

LEMMA TakeFlow ==
  ASSUME StreamType, BytesSent, Flow, GetPack
  PROVE  Flow'
<1> SUFFICES ASSUME harm' = {}
             PROVE  /\ Runs(Stream', bodies')
                    /\ Starts(Stream', Len(received'))
                    /\ sopen' => Ends(Stream', bodies', Len(received'))
                    /\ Len(received') <= Len(bodies')
                    /\ \A k \in 1..Len(received') :
                         received'[k] = Whole(k, LenOf(bodies', k))
  BY DEF Flow, StreamRuns, InOrder
<1> DEFINE r == Len(received)
           n == LenOf(bodies, r + 1)
           S == Stream
<1>1. harm = {} /\ bodies' = bodies /\ sopen' = sopen
  BY DEF GetPack, sender
<1>2. /\ Runs(S, bodies) /\ Starts(S, r) /\ (sopen => Ends(S, bodies, r))
      /\ \A k \in 1..r : received[k] = Whole(k, LenOf(bodies, k))
  BY <1>1 DEF Flow, StreamRuns, InOrder
<1>3. /\ S # <<>> /\ n \in Nat /\ n <= Len(S) /\ n \in 0..Len(S)
      /\ received' = Append(received, Whole(r + 1, n))
      /\ Stream' = SubSeq(S, n + 1, Len(S))
  <2>1. Runs(Stream, bodies) /\ Starts(Stream, Len(received)) /\ harm = {}
    BY <1>1, <1>2
  <2> QED BY <2>1, TakeNext
<1>4. S \in Seq(Mark) /\ bodies \in Seq(Nat) /\ r \in Nat /\ Len(bodies) \in Nat
  BY StreamIs
<1> DEFINE R == SubSeq(S, n + 1, Len(S))
<1> HIDE DEF S, R
<1>5. /\ r + 1 \in 1..Len(bodies)
      /\ Runs(R, bodies) /\ Starts(R, r + 1)
      /\ Ends(S, bodies, r) => Ends(R, bodies, r + 1)
  <2>1. /\ S \in Seq(Mark) /\ bodies \in Seq(Nat) /\ r \in Nat
        /\ Runs(S, bodies) /\ Starts(S, r) /\ S # <<>>
        /\ n \in Nat /\ n = LenOf(bodies, r + 1) /\ n <= Len(S)
    BY <1>2, <1>3, <1>4
  <2> HIDE DEF n, r
  <2> QED BY <2>1, RunsNext DEF R
<1>6. /\ Len(received') = r + 1
      /\ \A k \in 1..r : received'[k] = received[k]
      /\ received'[r + 1] = Whole(r + 1, n)
  <2>1. received \in Seq(Seq(Mark)) /\ Whole(r + 1, n) \in Seq(Mark)
    <3>1. r + 1 \in Nat /\ n \in Nat
      BY <1>3, <1>4
    <3> QED BY <3>1, WholeIs DEF StreamType
  <2> QED BY <1>3, <2>1, AppendProperties
<1>7. \A k \in 1..Len(received') : received'[k] = Whole(k, LenOf(bodies, k))
  <2>1. \A k \in 1..(r + 1) : k \in 1..r \/ k = r + 1
    BY <1>4
  <2> HIDE DEF r
  <2> QED BY <1>2, <1>6, <2>1
<1>8. Len(received') <= Len(bodies)
  BY <1>4, <1>5, <1>6
<1>9. Stream' = R
  BY <1>3 DEF R
<1> QED BY <1>1, <1>2, <1>5, <1>6, <1>7, <1>8, <1>9

LEMMA FlowStep ==
  ASSUME StreamType, BytesSent, RegionKept, Flow, [Next]_vars
  PROVE  Flow'
<1>1. ASSUME UNCHANGED <<bodies, received, sopen>>, harm \subseteq harm',
             harm' = {} => Stream' = Stream
      PROVE  Flow'
  BY <1>1 DEF Flow, StreamRuns, InOrder
<1>2. ASSUME Flush PROVE Flow'
  BY <1>1, <1>2, FlushKeeps DEF Flush, receiver
<1>3. ASSUME ReadChunk PROVE Flow'
  <2>1. UNCHANGED <<bodies, received, sopen>>
    BY <1>3 DEF ReadChunk, sender
  <2>2. harm \subseteq harm'
    BY <1>3, ReadDoes DEF Reading
  <2> QED BY <1>1, <1>3, <2>1, <2>2, ReadKeeps
<1>4. ASSUME SenderCloses PROVE Flow'
  <2>1. UNCHANGED <<bodies, received, harm>> /\ sopen' = FALSE
    BY <1>4 DEF SenderCloses, receiver
  <2>2. ASSUME harm = {}
        PROVE  Runs(Stream', bodies) /\ Starts(Stream', Len(received))
    <3>1. PICK k \in 0..Len(Stream) : Stream' = SubSeq(Stream, 1, k)
      BY <1>4, CloseCuts
    <3>2. /\ Stream \in Seq(Mark) /\ bodies \in Seq(Nat)
          /\ Len(received) \in Nat
      BY StreamIs
    <3>3. Runs(Stream, bodies) /\ Starts(Stream, Len(received))
      BY <2>2 DEF Flow, StreamRuns
    <3> QED BY <3>1, <3>2, <3>3, RunsFront
  <2> QED BY <2>1, <2>2 DEF Flow, StreamRuns, InOrder
<1>5. ReadEnd \/ DrainDone \/ UNCHANGED vars =>
        UNCHANGED <<bodies, received, sopen, harm, rring, wire, promised>>
  BY DEF ReadEnd, DrainDone, vars, sender, receiver
<1>6. ASSUME UNCHANGED <<bodies, received, sopen, harm, rring, wire, promised>>
      PROVE  Flow'
  BY <1>1, <1>6 DEF Stream
<1> QED BY <1>2, <1>3, <1>4, <1>5, <1>6, SendFlow, TakeFlow DEF Next

-----------------------------------------------------------------------------
(* The inductive invariant, and the properties.                            *)

IInv == StreamType /\ BytesSent /\ RingKept /\ Drained /\ Flow

LEMMA InvInit == Init => IInv
<1> SUFFICES ASSUME Init PROVE IInv
  OBVIOUS
<1>1. StreamType
  BY InitType
<1>2. /\ \A s \in Slot : mem[s] = <<0, 0>>
      /\ pending = <<>> /\ promised = <<>> /\ wire = <<>> /\ rring = <<>>
      /\ bodies = <<>> /\ received = <<>> /\ closed = FALSE
      /\ Len(pending) = 0 /\ Len(wire) = 0 /\ Len(rring) = 0
      /\ Len(bodies) = 0 /\ Len(received) = 0
  BY DEF Init
<1>3. BytesSent
  BY <1>2 DEF BytesSent
<1>4. RingKept
  BY <1>2 DEF RingKept, ClosedEmpty, PendingBehind, RecentKept, RegionKept
<1>5. Drained
  <2>1. ~HasPacket
    BY <1>2, HeaderIs DEF HasPacket
  <2> QED BY <2>1 DEF Drained
<1>6. Stream = <<>> /\ Len(Stream) = 0
  BY <1>2 DEF Stream, Line
<1>7. Flow
  BY <1>2, <1>6 DEF Flow, StreamRuns, InOrder, Runs, Starts, Ends
<1> QED BY <1>1, <1>3, <1>4, <1>5, <1>7 DEF IInv

LEMMA InvStep == IInv /\ [Next]_vars => IInv'
<1> SUFFICES ASSUME IInv, [Next]_vars PROVE IInv'
  OBVIOUS
<1>1. StreamType /\ BytesSent /\ RingKept /\ Drained /\ Flow /\ RegionKept
  BY DEF IInv, RingKept
<1> QED BY <1>1, TypeStep, BytesStep, RingStep, DrainedStep, FlowStep DEF IInv

(* Every execution of the connection keeps the invariant                   *)
(* (Channel.cpp:10-18, 35-70; Channel.h:75-81; EventLoop.cpp:47-60).       *)
THEOREM StreamInvariant == Spec => []IInv
BY InvInit, InvStep, PTL DEF Spec

LEMMA SentIsByte ==
  ASSUME StreamType, NEW x \in Mark, InRing(x, bodies)
  PROVE  x \in Byte
<1>1. bodies \in Seq(Nat)
  BY StreamIs
<1>2. x[1] \in 1..Len(bodies) /\ x[2] \in 1..Framed(bodies[x[1]])
  BY DEF InRing
<1>3. bodies[x[1]] \in Nat
  BY <1>1, <1>2, ElementOfSeq
<1>4. /\ Framed(bodies[x[1]]) \in Nat
      /\ Framed(bodies[x[1]]) <= PacketLen(x[1])
  BY <1>3, FramedIs DEF PacketLen
<1>5. PacketLen(x[1]) \in Nat
  BY <1>3, HeaderIs DEF PacketLen
<1>6. x[2] \in 1..PacketLen(x[1])
  BY <1>2, <1>4, <1>5
<1>7. x = <<x[1], x[2]>> /\ x[1] \in DOMAIN bodies
  BY <1>1, <1>2 DEF Mark
<1> QED BY <1>6, <1>7 DEF Byte

(* The ring, its memory, the network and the slots uv_write waits for hold *)
(* only bytes that were framed, and none of them is ever over its bound    *)
(* (Channel.cpp:10-18, 35-70; RingByteBuf.cpp:59-123).                     *)
THEOREM StreamTypes == Spec => []TypeOK
<1>1. ASSUME IInv PROVE TypeOK
  <2>1. StreamType /\ BytesSent
    BY <1>1 DEF IInv
  <2>2. \A s \in Slot : mem[s] \in Byte
    <3>1. ASSUME NEW s \in Slot, mem[s] = <<0, 0>> PROVE mem[s] \in Byte
      BY <3>1 DEF Byte
    <3>2. \A s \in Slot : mem[s] \in Mark
      BY <2>1 DEF StreamType
    <3> QED BY <2>1, <3>1, <3>2, SentIsByte DEF BytesSent
  <2>3. /\ DOMAIN pending = 1..Len(pending)
        /\ \A i \in 1..Len(pending) : pending[i] \in Slot
    BY <2>1, ElementOfSeq, LenProperties DEF StreamType
  <2>4. /\ DOMAIN wire = 1..Len(wire)
        /\ \A i \in 1..Len(wire) : wire[i] \in Mark
    BY <2>1, ElementOfSeq, LenProperties DEF StreamType
  <2>5. /\ DOMAIN rring = 1..Len(rring)
        /\ \A i \in 1..Len(rring) : rring[i] \in Mark
    BY <2>1, ElementOfSeq, LenProperties DEF StreamType
  <2>6. \A i \in DOMAIN wire : wire[i] \in Byte
    BY <2>1, <2>4, SentIsByte DEF BytesSent
  <2>7. \A i \in DOMAIN rring : rring[i] \in Byte
    BY <2>1, <2>5, SentIsByte DEF BytesSent
  <2> QED BY <2>1, <2>2, <2>3, <2>6, <2>7 DEF TypeOK, StreamType
<1> QED BY <1>1, StreamInvariant, PTL

(* However TCP cuts the bytes and wherever the ring wraps, the handler is  *)
(* given the messages that were sent, in order, each whole and each once,  *)
(* as long as no length was exceeded and no waiting write was overwritten  *)
(* (EventLoop.cpp:47-60, Channel.h:75-81).                                 *)
THEOREM PacketsArriveInOrder == Spec => []PacketsInOrder
<1>1. ASSUME IInv PROVE PacketsInOrder
  <2>1. StreamType /\ InOrder
    BY <1>1 DEF IInv, Flow
  <2>2. DOMAIN received = 1..Len(received)
    BY <2>1, LenProperties DEF StreamType
  <2>3. \A k : Packet(k) = Whole(k, LenOf(bodies, k))
    BY DEF Packet, PacketLen, Whole, LenOf
  <2> QED BY <2>1, <2>2, <2>3 DEF InOrder, PacketsInOrder
<1> QED BY <1>1, StreamInvariant, PTL

(* The last Cap bytes given to uv_write are still what they were, unless a *)
(* body was cut or the ring was filled to the brim: the ring's early       *)
(* consume leaves that much slack (Channel.cpp:35-70).                     *)
THEOREM RecentWritesKept == Spec => []RecentWritesIntact
<1>1. ASSUME IInv PROVE RecentWritesIntact
  <2>1. StreamType /\ RecentKept
    BY <1>1 DEF IInv, RingKept
  <2>2. DOMAIN pending = 1..Len(pending)
    BY <2>1, LenProperties DEF StreamType
  <2> QED BY <2>1, <2>2 DEF RecentKept, RecentWritesIntact
<1> QED BY <1>1, StreamInvariant, PTL

(* Once on_closed has been called the handler is given nothing more,       *)
(* although uv_read_cb goes on to getPack: the callback that closes finds  *)
(* the ring as the last drain left it (Channel.cpp:10-18, EventLoop.cpp    *)
(* 47-60).                                                                 *)
THEOREM SilenceAfterClose == Spec => SilentAfterClose
<1>1. IInv /\ [Next]_vars => [closed => received' = received]_vars
  <2> SUFFICES ASSUME IInv, [Next]_vars, closed
               PROVE  received' = received
    OBVIOUS
  <2>1. ~HasPacket
    BY DEF IInv, Drained
  <2> QED BY <2>1 DEF Next, Send, Flush, SenderCloses, ReadChunk, ReadEnd,
                      GetPack, DrainDone, vars, sender, receiver
<1> QED BY <1>1, StreamInvariant, PTL DEF Spec, SilentAfterClose
=============================================================================
