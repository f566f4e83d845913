------------------------ MODULE MbufLifecycleProofs ------------------------
(***************************************************************************)
(* Proofs about MbufLifecycle for any number of pools and mbufs: how often *)
(* a pointer occurs in a batch, what mbuf_free_bulk puts back, and how the *)
(* number of owners of an mbuf changes with every library call.            *)
(***************************************************************************)
EXTENDS MbufLifecycle, QueueLemmas

-----------------------------------------------------------------------------
(* Occurrences in a batch. *)

\* Where m occurs in s.
Hits(s, m) == {i \in DOMAIN s : s[i] = m}

\* w is s followed by t.
Joined(w, s, t) ==
  /\ w \in Seq(Mbuf) /\ s \in Seq(Mbuf) /\ t \in Seq(Mbuf)
  /\ Len(w) = Len(s) + Len(t)
  /\ \A i \in 1 .. Len(s) : w[i] = s[i]
  /\ \A i \in 1 .. Len(t) : w[Len(s) + i] = t[i]

\* A pointer occurs in a batch if and only if its count is not 0.
LEMMA CountIs ==
  ASSUME NEW s \in Seq(Mbuf), NEW m
  PROVE  /\ IsFiniteSet(Hits(s, m))
         /\ Count(s, m) \in Nat
         /\ Count(s, m) = 0 <=> \A i \in 1 .. Len(s) : s[i] # m
<1> DEFINE A == {i \in DOMAIN s : s[i] = m}
<1>1. Len(s) \in Nat /\ DOMAIN s = 1 .. Len(s)
  BY LenProperties
<1>2. IsFiniteSet(1 .. Len(s))
  BY <1>1, FS_Interval
<1>3. IsFiniteSet(A)
  BY <1>1, <1>2, FS_Subset
<1>4. Cardinality(A) \in Nat /\ (Cardinality(A) = 0 <=> A = {})
  BY <1>3, FS_CardinalityType, FS_EmptySet
<1> QED
  BY <1>1, <1>3, <1>4 DEF Count, Hits

\* A batch made of two parts has the occurrences of both.
LEMMA CountParts ==
  ASSUME NEW w, NEW s, NEW t, NEW m, Joined(w, s, t)
  PROVE  Count(w, m) = Count(s, m) + Count(t, m)
<1> USE DEF Joined
<1> DEFINE A == {i \in DOMAIN s : s[i] = m}
           B == {i \in DOMAIN t : t[i] = m}
           C == {i \in Len(s) + 1 .. Len(s) + Len(t) : w[i] = m}
           f == [i \in B |-> Len(s) + i]
<1>1. /\ Len(s) \in Nat /\ DOMAIN s = 1 .. Len(s)
      /\ Len(t) \in Nat /\ DOMAIN t = 1 .. Len(t)
      /\ DOMAIN w = 1 .. Len(s) + Len(t)
  BY LenProperties
<1>2. {i \in DOMAIN w : w[i] = m} = A \cup C /\ A \cap C = {}
  BY <1>1
<1>3. f \in Bijection(B, C)
  <2>1. f \in [B -> C]
    BY <1>1
  <2>2. \A i, j \in B : f[i] = f[j] => i = j
    BY <1>1
  <2>3. ASSUME NEW c \in C PROVE \E i \in B : f[i] = c
    <3>1. c - Len(s) \in 1 .. Len(t) /\ Len(s) + (c - Len(s)) = c
      BY <1>1
    <3>2. t[c - Len(s)] = m
      BY <3>1
    <3>3. c - Len(s) \in B
      BY <1>1, <3>1, <3>2
    <3> QED
      BY <3>1, <3>3
  <2> QED
    BY <2>1, <2>2, <2>3 DEF Bijection, Injection, Surjection, IsInjective
<1> HIDE DEF f
<1>4. /\ IsFiniteSet(A) /\ IsFiniteSet(B) /\ Cardinality(A) \in Nat /\ Cardinality(B) \in Nat
      /\ Count(s, m) = Cardinality(A) /\ Count(t, m) = Cardinality(B)
  <2>1. Count(s, m) = Cardinality(A) /\ Count(t, m) = Cardinality(B)
    BY DEF Count
  <2>2. IsFiniteSet(A) /\ IsFiniteSet(B)
    <3>1. IsFiniteSet(Hits(s, m)) /\ IsFiniteSet(Hits(t, m))
      BY CountIs
    <3>2. A = Hits(s, m) /\ B = Hits(t, m)
      BY DEF Hits
    <3> QED
      BY <3>1, <3>2
  <2> QED
    BY <2>1, <2>2, FS_CardinalityType
<1> HIDE DEF A, B, C
<1>5. ExistsBijection(B, C)
  BY <1>3 DEF ExistsBijection
<1>6. IsFiniteSet(C) /\ Cardinality(C) = Cardinality(B)
  BY <1>4, <1>5, FS_Bijection
<1>7. Cardinality(A \cup C) = Cardinality(A) + Cardinality(C) - Cardinality({})
  BY <1>2, <1>4, <1>6, FS_Union
<1>8. Cardinality({}) = 0
  BY FS_EmptySet
<1>9. Count(w, m) = Cardinality(A \cup C)
  BY <1>2 DEF Count
<1> QED
  BY <1>4, <1>6, <1>7, <1>8, <1>9

\* One mbuf.
LEMMA CountOne ==
  ASSUME NEW x \in Mbuf, NEW m
  PROVE  <<x>> \in Seq(Mbuf) /\ Count(<<x>>, m) = IF m = x THEN 1 ELSE 0
<1>1. {i \in DOMAIN <<x>> : <<x>>[i] = m} = IF m = x THEN {1} ELSE {}
  OBVIOUS
<1> QED
  BY <1>1, FS_EmptySet, FS_Singleton DEF Count

\* A batch that was cut in two.
LEMMA CountSplit ==
  ASSUME NEW s \in Seq(Mbuf), NEW k \in 0 .. Len(s), NEW m
  PROVE  /\ SubSeq(s, 1, k) \in Seq(Mbuf) /\ SubSeq(s, k + 1, Len(s)) \in Seq(Mbuf)
         /\ Len(SubSeq(s, 1, k)) = k /\ Len(SubSeq(s, k + 1, Len(s))) = Len(s) - k
         /\ Count(s, m) = Count(SubSeq(s, 1, k), m) + Count(SubSeq(s, k + 1, Len(s)), m)
<1> DEFINE a == SubSeq(s, 1, k)
           b == SubSeq(s, k + 1, Len(s))
<1>1. Len(s) \in Nat /\ \A i \in 1 .. Len(s) : s[i] \in Mbuf
  BY LenProperties
<1>2. a \in Seq(Mbuf) /\ Len(a) = k /\ \A i \in 1 .. k : a[i] = s[i]
  <2>1. \A i \in 1 .. k : s[i] \in Mbuf
    BY <1>1
  <2> QED
    BY <1>1, <2>1, SubSeqProperties
<1>3. b \in Seq(Mbuf) /\ Len(b) = Len(s) - k /\ \A i \in 1 .. Len(s) - k : b[i] = s[k + i]
  <2>1. \A i \in k + 1 .. Len(s) : s[i] \in Mbuf
    BY <1>1
  <2> QED
    BY <1>1, <2>1, SubSeqProperties
<1> HIDE DEF a, b
<1>4. Joined(s, a, b)
  BY <1>1, <1>2, <1>3 DEF Joined
<1>5. Count(s, m) = Count(a, m) + Count(b, m)
  BY <1>4, CountParts
<1> QED
  BY <1>2, <1>3, <1>5 DEF a, b

-----------------------------------------------------------------------------
(* mbuf_free_bulk puts back exactly the batch it was given. *)

\* The state of its loop after k mbufs, as a recursive function.
LoopStart == [put |-> <<>>, toFree |-> <<>>]
LoopOf(s, k, g) ==
  g = [i \in 0 .. k |-> IF i = 0 THEN LoopStart ELSE Collect(PoolOf[s[1]], g[i - 1], s[i])]

\* A set of numbers that is closed under successor has them all.
LEMMA Reaches ==
  ASSUME NEW n \in Nat, NEW G, 0 \in G, \A k \in 0 .. n : k \in G /\ k < n => k + 1 \in G
  PROVE  0 .. n \subseteq G
<1> DEFINE B == {k \in 0 .. n : k \notin G}
<1> SUFFICES ASSUME B # {} PROVE FALSE
  OBVIOUS
<1>1. Min(B) \in B /\ \A k \in B : Min(B) <= k
  BY MinOfNats
<1>2. PICK x \in 0 .. n : x \notin G /\ \A k \in B : x <= k
  BY <1>1
<1>3. x - 1 \in 0 .. n /\ x - 1 < n /\ (x - 1) + 1 = x
  BY <1>2
<1>4. x - 1 \notin B
  BY <1>2, <1>3
<1> QED
  BY <1>2, <1>3, <1>4

\* The function exists for every batch.
LEMMA LoopExists ==
  ASSUME NEW s \in Seq(Mbuf)
  PROVE  \E g : LoopOf(s, Len(s), g)
<1> DEFINE G == {k \in 0 .. Len(s) : \E g : LoopOf(s, k, g)}
<1>1. Len(s) \in Nat
  BY LenProperties
<1>2. 0 \in G
  <2> DEFINE g == [i \in 0 .. 0 |-> LoopStart]
  <2>1. LoopOf(s, 0, g)
    BY DEF LoopOf
  <2> QED
    BY <1>1, <2>1
<1>3. ASSUME NEW k \in 0 .. Len(s), k \in G, k < Len(s) PROVE k + 1 \in G
  <2>1. PICK g : LoopOf(s, k, g)
    BY <1>3
  <2> DEFINE last == Collect(PoolOf[s[1]], g[k], s[k + 1])
             h == [i \in 0 .. k + 1 |-> IF i = k + 1 THEN last ELSE g[i]]
  <2>2. \A i \in 0 .. k : g[i] = IF i = 0 THEN LoopStart ELSE Collect(PoolOf[s[1]], g[i - 1], s[i])
    BY <2>1 DEF LoopOf
  <2>3. \A i \in 0 .. k + 1 : h[i] = IF i = 0 THEN LoopStart ELSE Collect(PoolOf[s[1]], h[i - 1], s[i])
    <3> TAKE i \in 0 .. k + 1
    <3>1. CASE i = 0
      BY <1>1, <2>2, <3>1
    <3>2. CASE i \in 1 .. k
      <4>1. h[i] = g[i] /\ h[i - 1] = g[i - 1] /\ i # 0
        BY <1>1, <3>2
      <4> HIDE DEF h
      <4> QED
        BY <1>1, <2>2, <3>2, <4>1
    <3>3. CASE i = k + 1
      <4>1. h[i] = last /\ h[i - 1] = g[k] /\ i # 0 /\ s[i] = s[k + 1]
        BY <1>1, <3>3
      <4> HIDE DEF h
      <4> QED
        BY <4>1
    <3> QED
      BY <1>1, <3>1, <3>2, <3>3
  <2>4. LoopOf(s, k + 1, h)
    <3>1. h = [i \in 0 .. k + 1 |-> h[i]]
      OBVIOUS
    <3> HIDE DEF h
    <3> QED
      BY <2>3, <3>1 DEF LoopOf
  <2> HIDE DEF h
  <2>5. k + 1 \in 0 .. Len(s)
    BY <1>1, <1>3
  <2> QED
    BY <2>4, <2>5
<1> HIDE DEF G
<1>4. 0 .. Len(s) \subseteq G
  BY <1>1, <1>2, <1>3, Reaches
<1> QED
  BY <1>1, <1>4 DEF G

LoopState == [put : Seq(Mbuf), toFree : Seq(Mbuf)]

\* One iteration adds the mbuf to what was put or collected, at its end.
LEMMA CollectAdds ==
  ASSUME NEW st \in LoopState, NEW x \in Mbuf, NEW pool
  PROVE  /\ Collect(pool, st, x) \in LoopState
         /\ Collect(pool, st, x).put \o Collect(pool, st, x).toFree = (st.put \o st.toFree) \o <<x>>
<1>1. PICK put \in Seq(Mbuf), toFree \in Seq(Mbuf) : st = [put |-> put, toFree |-> toFree]
  BY DEF LoopState
<1>2. PICK one \in Seq(Mbuf) : one = <<x>>
  BY CountOne
<1>3. /\ put \o toFree \in Seq(Mbuf) /\ toFree \o one \in Seq(Mbuf)
      /\ (put \o toFree) \o one = put \o (toFree \o one)
      /\ Append(toFree, x) = toFree \o one
  BY <1>2, ConcatProperties, ConcatAssociative, AppendIsConcat
<1>4. ASSUME NEW a \in Seq(Mbuf), NEW b \in Seq(Mbuf),
             Collect(pool, st, x) = [put |-> a, toFree |-> b],
             a \o b = (put \o toFree) \o one
      PROVE  /\ Collect(pool, st, x) \in LoopState
             /\ Collect(pool, st, x).put \o Collect(pool, st, x).toFree
                  = (st.put \o st.toFree) \o <<x>>
  <2>1. Collect(pool, st, x).put = a /\ Collect(pool, st, x).toFree = b
    BY <1>4
  <2>2. st.put = put /\ st.toFree = toFree
    BY <1>1
  <2>3. Collect(pool, st, x) \in LoopState
    BY <1>4 DEF LoopState
  <2> QED
    BY <1>2, <1>4, <2>1, <2>2, <2>3
<1>5. CASE PoolOf[x] = pool
  <2>1. Collect(pool, st, x) = [put |-> put, toFree |-> Append(toFree, x)]
    BY <1>1, <1>5 DEF Collect
  <2> QED
    BY <1>3, <1>4, <2>1
<1>6. CASE PoolOf[x] # pool
  <2>1. Collect(pool, st, x) = [put |-> put \o toFree, toFree |-> one]
    BY <1>1, <1>2, <1>6 DEF Collect
  <2> QED
    BY <1>3, <1>4, <2>1
<1> QED
  BY <1>5, <1>6

\* What was put and collected are the first k mbufs.
Kept(st, s, k) == st \in LoopState /\ st.put \o st.toFree = SubSeq(s, 1, k)

\* Whatever pools the mbufs belong to, all of them are put, once, in order.
LEMMA PutAll ==
  ASSUME NEW s \in Seq(Mbuf)
  PROVE  PutByBulk(s) = s
<1> DEFINE loop == CHOOSE g : LoopOf(s, Len(s), g)
           G == {k \in 0 .. Len(s) : Kept(loop[k], s, k)}
<1>1. PutByBulk(s) = loop[Len(s)].put \o loop[Len(s)].toFree
  BY Zenon DEF PutByBulk, LoopOf, LoopStart
<1>2. LoopOf(s, Len(s), loop)
  BY LoopExists, Zenon
<1>3. Len(s) \in Nat /\ \A i \in 1 .. Len(s) : s[i] \in Mbuf
  BY LenProperties
<1> HIDE DEF loop
<1>4. loop[0] = LoopStart /\ \A i \in 1 .. Len(s) : loop[i] = Collect(PoolOf[s[1]], loop[i - 1], s[i])
  BY <1>2, <1>3 DEF LoopOf
<1>5. 0 \in G
  <2>1. <<>> \in Seq(Mbuf) /\ <<>> \o <<>> = <<>> /\ SubSeq(s, 1, 0) = <<>>
    BY EmptySeq, ConcatEmptySeq, SubSeqEmpty
  <2>2. Kept(LoopStart, s, 0)
    BY <2>1 DEF LoopStart, LoopState, Kept
  <2> QED
    BY <1>3, <1>4, <2>2
<1>6. ASSUME NEW k \in 0 .. Len(s), k \in G, k < Len(s) PROVE k + 1 \in G
  <2>1. loop[k] \in LoopState /\ loop[k].put \o loop[k].toFree = SubSeq(s, 1, k)
    BY <1>6 DEF Kept
  <2>2. 1 \in 1 .. Len(s) /\ k + 1 \in 1 .. Len(s) /\ (k + 1) - 1 = k /\ k + 1 \in 0 .. Len(s)
    BY <1>3, <1>6
  <2>3. s[k + 1] \in Mbuf /\ loop[k + 1] = Collect(PoolOf[s[1]], loop[k], s[k + 1])
    BY <1>3, <1>4, <2>2
  <2>4. SubSeq(s, 1, k + 1) = SubSeq(s, 1, k) \o <<s[k + 1]>>
    <3>1. SubSeq(s, 1, k + 1) = SubSeq(s, 1, (k + 1) - 1) \o <<s[k + 1]>>
      BY <2>2, SubSeqRecursiveSecond
    <3> QED
      BY <2>2, <3>1
  <2>5. Kept(loop[k + 1], s, k + 1)
    BY <2>1, <2>3, <2>4, CollectAdds DEF Kept
  <2> QED
    BY <2>2, <2>5
<1>7. 0 .. Len(s) \subseteq G
  <2> HIDE DEF G
  <2> QED
    BY <1>3, <1>5, <1>6, Reaches
<1>8. Kept(loop[Len(s)], s, Len(s))
  BY <1>3, <1>7
<1> QED
  BY <1>1, <1>8, SubSeqFull DEF Kept

-----------------------------------------------------------------------------
(* Occurrences in the pools. *)

\* One slot for each occurrence in the pools of P, h[p] in pool p.
Slots(P, h) == UNION {{p} \X (1 .. h[p]) : p \in P}

\* The occurrences in one pool are finitely many.
LEMMA SlotsOfOne ==
  ASSUME NEW p, NEW n \in Nat
  PROVE  IsFiniteSet({p} \X (1 .. n)) /\ Cardinality({p} \X (1 .. n)) = n
<1>1. IsFiniteSet(1 .. n) /\ Cardinality(1 .. n) = n
  BY FS_Interval
<1>2. IsFiniteSet({p}) /\ Cardinality({p}) = 1
  BY FS_Singleton
<1>3. /\ IsFiniteSet({p} \X (1 .. n))
      /\ Cardinality({p} \X (1 .. n)) = Cardinality({p}) * Cardinality(1 .. n)
  BY <1>1, <1>2, FS_Product
<1> QED
  BY <1>1, <1>2, <1>3

\* So are those in all of them.
LEMMA SlotsFinite ==
  ASSUME NEW P \in SUBSET Pool, NEW h \in [Pool -> Nat]
  PROVE  IsFiniteSet(Slots(P, h))
<1> DEFINE T == {{p} \X (1 .. h[p]) : p \in P}
           f == [p \in P |-> {p} \X (1 .. h[p])]
<1>1. IsFiniteSet(P)
  BY LifecycleAssumption, FS_Subset
<1>2. f \in Surjection(P, T)
  BY DEF Surjection
<1>3. \A t \in T : IsFiniteSet(t)
  <2> SUFFICES ASSUME NEW p \in P PROVE IsFiniteSet({p} \X (1 .. h[p]))
    OBVIOUS
  <2>1. h[p] \in Nat
    OBVIOUS
  <2> QED
    BY <2>1, SlotsOfOne
<1> HIDE DEF T, f
<1>4. IsFiniteSet(T)
  BY <1>1, <1>2, FS_Surjection
<1>5. IsFiniteSet(UNION T)
  BY <1>3, <1>4, FS_UNION
<1> QED
  BY <1>5 DEF Slots, T

\* Those of pool q, and the others.
LEMMA SlotsSplit ==
  ASSUME NEW h \in [Pool -> Nat], NEW q \in Pool
  PROVE  /\ Cardinality(Slots(Pool \ {q}, h)) \in Nat
         /\ Cardinality(Slots(Pool, h)) = Cardinality(Slots(Pool \ {q}, h)) + h[q]
<1> DEFINE R == Slots(Pool \ {q}, h)
           Q == {q} \X (1 .. h[q])
<1>1. IsFiniteSet(R) /\ Cardinality(R) \in Nat
  BY SlotsFinite, FS_CardinalityType
<1>2. h[q] \in Nat
  OBVIOUS
<1>4. IsFiniteSet(Q) /\ Cardinality(Q) = h[q]
  BY <1>2, SlotsOfOne
<1>5. Slots(Pool, h) = R \cup Q /\ R \cap Q = {}
  BY DEF Slots
<1> HIDE DEF R, Q
<1>6. Cardinality(R \cup Q) = Cardinality(R) + Cardinality(Q) - Cardinality({})
  BY <1>1, <1>4, <1>5, FS_Union
<1>7. Cardinality({}) = 0
  BY FS_EmptySet
<1>8. Cardinality(Slots(Pool, h)) = Cardinality(R) + h[q]
  BY <1>1, <1>2, <1>4, <1>5, <1>6, <1>7
<1> QED
  BY <1>1, <1>8 DEF R

\* An operation on one pool changes the number of occurrences in all pools by
\* what it changes there; and all pools have at least what one of them has.
LEMMA InPoolsChange ==
  ASSUME NEW f \in [Pool -> Copies], NEW g \in [Pool -> Copies], NEW m \in Mbuf, NEW q \in Pool,
         \A p \in Pool \ {q} : g[p][m] = f[p][m]
  PROVE  /\ InPools(f, m) \in Nat /\ InPools(g, m) \in Nat
         /\ InPools(g, m) + f[q][m] = InPools(f, m) + g[q][m]
         /\ InPools(f, m) >= f[q][m]
<1>1. PICK h \in [Pool -> Nat] : h = [p \in Pool |-> f[p][m]]
  BY DEF Copies
<1>2. PICK k \in [Pool -> Nat] : k = [p \in Pool |-> g[p][m]]
  BY DEF Copies
<1>3. InPools(f, m) = Cardinality(Slots(Pool, h)) /\ InPools(g, m) = Cardinality(Slots(Pool, k))
  <2>1. \A p \in Pool : h[p] = f[p][m] /\ k[p] = g[p][m]
    BY <1>1, <1>2
  <2>2. /\ Slots(Pool, h) = UNION {{p} \X (1 .. f[p][m]) : p \in Pool}
        /\ Slots(Pool, k) = UNION {{p} \X (1 .. g[p][m]) : p \in Pool}
    BY <2>1 DEF Slots
  <2> QED
    BY <2>2 DEF InPools
<1>4. Slots(Pool \ {q}, h) = Slots(Pool \ {q}, k)
  <2>1. \A p \in Pool \ {q} : h[p] = k[p]
    BY <1>1, <1>2
  <2> QED
    BY <2>1 DEF Slots
<1>5. h[q] = f[q][m] /\ k[q] = g[q][m] /\ h[q] \in Nat /\ k[q] \in Nat
  BY <1>1, <1>2
<1>6. /\ Cardinality(Slots(Pool \ {q}, h)) \in Nat
      /\ Cardinality(Slots(Pool, h)) = Cardinality(Slots(Pool \ {q}, h)) + h[q]
      /\ Cardinality(Slots(Pool, k)) = Cardinality(Slots(Pool \ {q}, k)) + k[q]
  BY SlotsSplit
<1> QED
  BY <1>3, <1>4, <1>5, <1>6

-----------------------------------------------------------------------------
(* What the operations on the pools and on the program's mbufs add up to.   *)

\* A batch that can be taken.
LEMMA BatchIs ==
  ASSUME NEW c, NEW n \in Nat, NEW s \in Batches(c, n)
  PROVE  /\ s \in Seq(Mbuf) /\ Len(s) \in Nat /\ Len(s) > 0 /\ s[1] \in Mbuf
         /\ \A m \in Mbuf : Count(s, m) \in Nat /\ Count(s, m) <= c[m]
<1>1. PICK k \in 1 .. n : s \in [1 .. k -> Mbuf]
  BY DEF Batches
<1>2. s \in Seq(Mbuf) /\ Len(s) = k /\ s[1] \in Mbuf
  BY <1>1
<1>3. \A m \in Mbuf : Count(s, m) \in Nat
  BY <1>2, CountIs
<1> QED
  BY <1>1, <1>2, <1>3 DEF Batches

\* Adding a batch to some copies, or taking it from them.
LEMMA PlusMinus ==
  ASSUME NEW c \in Copies, NEW s \in Seq(Mbuf)
  PROVE  /\ Plus(c, s) \in Copies
         /\ \A m \in Mbuf : Plus(c, s)[m] = c[m] + Count(s, m)
         /\ (\A m \in Mbuf : Count(s, m) <= c[m]) =>
              /\ Minus(c, s) \in Copies
              /\ \A m \in Mbuf : Minus(c, s)[m] = c[m] - Count(s, m)
<1>1. \A m \in Mbuf : Count(s, m) \in Nat /\ c[m] \in Nat
  BY CountIs DEF Copies
<1> QED
  BY <1>1 DEF Plus, Minus, Copies

\* rte_pktmbuf_free of a batch, one mbuf after the other.
LEMMA FreedAdds ==
  ASSUME NEW f \in [Pool -> Copies], NEW s \in Seq(Mbuf)
  PROVE  /\ Freed(f, s) \in [Pool -> Copies]
         /\ \A p \in Pool, m \in Mbuf :
              Freed(f, s)[p][m] = f[p][m] + IF PoolOf[m] = p THEN Count(s, m) ELSE 0
         /\ \A m \in Mbuf : /\ InPools(f, m) \in Nat
                             /\ InPools(Freed(f, s), m) = InPools(f, m) + Count(s, m)
<1>1. \A m \in Mbuf : Count(s, m) \in Nat
  BY CountIs
<1>2. \A p \in Pool, m \in Mbuf : f[p][m] \in Nat
  BY DEF Copies
<1>3. Freed(f, s) \in [Pool -> Copies]
  BY <1>1, <1>2 DEF Freed, Copies
<1>4. \A p \in Pool, m \in Mbuf :
        Freed(f, s)[p][m] = f[p][m] + IF PoolOf[m] = p THEN Count(s, m) ELSE 0
  BY DEF Freed
<1>5. ASSUME NEW m \in Mbuf
      PROVE  InPools(f, m) \in Nat /\ InPools(Freed(f, s), m) = InPools(f, m) + Count(s, m)
  <2>1. PICK q \in Pool : q = PoolOf[m]
    BY LifecycleAssumption
  <2>2. \A p \in Pool \ {q} : Freed(f, s)[p][m] = f[p][m]
    BY <1>2, <1>4, <2>1
  <2>3. Freed(f, s)[q][m] = f[q][m] + Count(s, m)
    BY <1>4, <2>1
  <2>4. /\ InPools(f, m) \in Nat /\ InPools(Freed(f, s), m) \in Nat
        /\ InPools(Freed(f, s), m) + f[q][m] = InPools(f, m) + Freed(f, s)[q][m]
    BY <1>3, <2>2, InPoolsChange
  <2>5. f[q][m] \in Nat /\ Count(s, m) \in Nat
    BY <1>1, <1>2
  <2> QED
    BY <2>3, <2>4, <2>5, SMTT(60)
<1> QED
  BY <1>3, <1>4, <1>5

\* Batch s is put into pool q.
PutInto(f, q, s) == [f EXCEPT ![q] = Plus(@, s)]

\* It adds its mbufs there and nowhere else.
LEMMA PutAdds ==
  ASSUME NEW f \in [Pool -> Copies], NEW q \in Pool, NEW s \in Seq(Mbuf)
  PROVE  /\ PutInto(f, q, s) \in [Pool -> Copies]
         /\ \A p \in Pool, m \in Mbuf :
              PutInto(f, q, s)[p][m] = f[p][m] + IF p = q THEN Count(s, m) ELSE 0
         /\ \A m \in Mbuf : /\ InPools(f, m) \in Nat
                             /\ InPools(PutInto(f, q, s), m) = InPools(f, m) + Count(s, m)
<1>1. PICK g : g = PutInto(f, q, s)
  OBVIOUS
<1>2. Plus(f[q], s) \in Copies /\ \A m \in Mbuf : Plus(f[q], s)[m] = f[q][m] + Count(s, m)
  BY PlusMinus
<1>3. g \in [Pool -> Copies] /\ g[q] = Plus(f[q], s) /\ \A p \in Pool \ {q} : g[p] = f[p]
  BY <1>1, <1>2 DEF PutInto
<1>4. ASSUME NEW m \in Mbuf
      PROVE  InPools(f, m) \in Nat /\ InPools(g, m) = InPools(f, m) + Count(s, m)
  <2>1. Count(s, m) \in Nat /\ f[q][m] \in Nat
    BY CountIs DEF Copies
  <2>2. g[q][m] = f[q][m] + Count(s, m) /\ \A p \in Pool \ {q} : g[p][m] = f[p][m]
    BY <1>2, <1>3
  <2>3. /\ InPools(f, m) \in Nat /\ InPools(g, m) \in Nat
        /\ InPools(g, m) + f[q][m] = InPools(f, m) + g[q][m]
    BY <1>3, <2>2, InPoolsChange
  <2> QED
    BY <2>1, <2>2, <2>3, SMTT(60)
<1>5. \A p \in Pool, m \in Mbuf : g[p][m] = f[p][m] + IF p = q THEN Count(s, m) ELSE 0
  BY <1>2, <1>3 DEF Copies
<1> QED
  BY <1>1, <1>3, <1>4, <1>5

\* Batch s is taken from pool q.
TakeFrom(f, q, s) == [f EXCEPT ![q] = Minus(@, s)]

\* The pools lose exactly the batch.
LEMMA TakenFrom ==
  ASSUME NEW f \in [Pool -> Copies], NEW q \in Pool, NEW s \in Seq(Mbuf),
         \A m \in Mbuf : Count(s, m) <= f[q][m]
  PROVE  /\ TakeFrom(f, q, s) \in [Pool -> Copies]
         /\ \A p \in Pool, m \in Mbuf : TakeFrom(f, q, s)[p][m] <= f[p][m]
         /\ \A m \in Mbuf : /\ InPools(f, m) \in Nat /\ InPools(TakeFrom(f, q, s), m) \in Nat
                             /\ InPools(TakeFrom(f, q, s), m) + Count(s, m) = InPools(f, m)
<1>1. PICK g : g = TakeFrom(f, q, s)
  OBVIOUS
<1>2. Minus(f[q], s) \in Copies /\ \A m \in Mbuf : Minus(f[q], s)[m] = f[q][m] - Count(s, m)
  BY PlusMinus
<1>3. g \in [Pool -> Copies] /\ g[q] = Minus(f[q], s) /\ \A p \in Pool \ {q} : g[p] = f[p]
  BY <1>1, <1>2 DEF TakeFrom
<1>4. ASSUME NEW m \in Mbuf
      PROVE  /\ InPools(f, m) \in Nat /\ InPools(g, m) \in Nat
             /\ InPools(g, m) + Count(s, m) = InPools(f, m)
  <2>1. Count(s, m) \in Nat /\ f[q][m] \in Nat
    BY CountIs DEF Copies
  <2>2. g[q][m] = f[q][m] - Count(s, m) /\ \A p \in Pool \ {q} : g[p][m] = f[p][m]
    BY <1>2, <1>3
  <2>3. /\ InPools(f, m) \in Nat /\ InPools(g, m) \in Nat
        /\ InPools(g, m) + f[q][m] = InPools(f, m) + g[q][m]
    BY <1>3, <2>2, InPoolsChange
  <2> QED
    BY <2>1, <2>2, <2>3, SMTT(60)
<1>5. \A p \in Pool, m \in Mbuf : g[p][m] <= f[p][m]
  <2>1. \A p \in Pool, m \in Mbuf : f[p][m] \in Nat /\ Count(s, m) \in Nat
    BY CountIs DEF Copies
  <2> TAKE p \in Pool, m \in Mbuf
  <2>2. CASE p = q
    <3>1. g[q][m] = f[q][m] - Count(s, m)
      BY <1>2, <1>3
    <3> QED
      BY <2>1, <2>2, <3>1
  <2>3. CASE p # q
    BY <1>3, <2>1, <2>3
  <2> QED
    BY <2>2, <2>3
<1> QED
  BY <1>1, <1>3, <1>4, <1>5

\* mbuf_free_bulk of a batch puts all of it into the pool of the first mbuf.
LEMMA BulkFreedIs ==
  ASSUME NEW f, NEW s \in Seq(Mbuf)
  PROVE  BulkFreed(f, s) = PutInto(f, PoolOf[s[1]], s)
BY PutAll DEF BulkFreed, PutInto

\* The driver's release of what it has transmitted.
LEMMA ReclaimedAdds ==
  ASSUME NEW f \in [Pool -> Copies], NEW s \in Seq(Mbuf)
  PROVE  /\ Reclaimed(f, s) \in [Pool -> Copies]
         /\ \A m \in Mbuf : /\ InPools(f, m) \in Nat
                             /\ InPools(Reclaimed(f, s), m) = InPools(f, m) + Count(s, m)
<1>1. CASE fast /\ s # <<>>
  <2>1. s[1] \in Mbuf
    BY <1>1, EmptySeq, ElementOfSeq
  <2>2. PoolOf[s[1]] \in Pool
    BY <2>1, LifecycleAssumption
  <2>3. Reclaimed(f, s) = PutInto(f, PoolOf[s[1]], s)
    BY <1>1 DEF Reclaimed, PutInto
  <2> QED
    BY <2>2, <2>3, PutAdds
<1>2. CASE ~(fast /\ s # <<>>)
  BY <1>2, FreedAdds DEF Reclaimed
<1> QED
  BY <1>1, <1>2

-----------------------------------------------------------------------------
(* The library's calls. *)

\* A step that leaves every mbuf as many owners as it had.
Balanced ==
  \A m \in Mbuf : /\ InPools(free, m) \in Nat /\ InPools(free', m) \in Nat
                  /\ InPools(free', m) + app'[m] = InPools(free, m) + app[m]

\* The types, and the NIC has no more packets than descriptors: without this the
\* number of packets that tx_burst accepts could be negative.
Types == TypeOK /\ Len(tx) <= TxDesc

\* Before the first call every mbuf is in its pool.
LEMMA LifecycleInit == Init => Types /\ \A m \in Mbuf : Owners(m) = 1
<1> SUFFICES ASSUME Init PROVE Types /\ \A m \in Mbuf : Owners(m) = 1
  OBVIOUS
<1>1. <<>> \in Seq([mbuf : Mbuf, data : Data]) /\ Len(<<>>) = 0 /\ <<>> \in Seq(Mbuf)
  BY EmptySeq
<1>2. Types
  <2>1. free \in [Pool -> Copies] /\ app \in Copies
    BY DEF Init, Copies
  <2>2. tx \in Seq([mbuf : Mbuf, data : Data]) /\ Len(tx) <= TxDesc
    BY <1>1, LifecycleAssumption DEF Init
  <2>3. sends \in 0 .. MaxSends
    BY LifecycleAssumption DEF Init
  <2> QED
    BY <2>1, <2>2, <2>3 DEF Init, TypeOK, Types
<1>3. ASSUME NEW m \in Mbuf PROVE Owners(m) = 1
  <2>1. PICK q \in Pool : q = PoolOf[m]
    BY LifecycleAssumption
  <2>2. \A p \in Pool : free[p][m] = IF p = q THEN 1 ELSE 0
    BY <2>1 DEF Init
  <2>3. UNION {{p} \X (1 .. free[p][m]) : p \in Pool} = {<<q, 1>>}
    <3>1. \A p \in Pool : {p} \X (1 .. free[p][m]) = IF p = q THEN {<<q, 1>>} ELSE {}
      BY <2>2
    <3> QED
      BY <3>1
  <2>4. InPools(free, m) = 1
    BY <2>3, FS_Singleton DEF InPools
  <2>5. TxMbufs = <<>> /\ app[m] = 0
    BY DEF Init, TxMbufs
  <2>6. Count(<<>>, m) = 0
    <3>1. {i \in DOMAIN <<>> : <<>>[i] = m} = {}
      OBVIOUS
    <3> QED
      BY <3>1, FS_EmptySet, Zenon DEF Count
  <2> QED
    BY <2>4, <2>5, <2>6 DEF Owners
<1> QED
  BY <1>2, <1>3

\* Mbuf::new, Mbuf::alloc_bulk and Port::receive move mbufs from one pool to
\* the program.
LEMMA TakeStep ==
  ASSUME Types, NEW q \in Pool, NEW s \in Seq(Mbuf),
         \A m \in Mbuf : Count(s, m) <= free[q][m],
         free' = TakeFrom(free, q, s), app' = Plus(app, s)
  PROVE  free' \in [Pool -> Copies] /\ app' \in Copies /\ Balanced
<1>1. free \in [Pool -> Copies] /\ app \in Copies
  BY DEF TypeOK, Types
<1>2. /\ free' \in [Pool -> Copies]
      /\ \A m \in Mbuf : /\ InPools(free, m) \in Nat /\ InPools(free', m) \in Nat
                          /\ InPools(free', m) + Count(s, m) = InPools(free, m)
  BY <1>1, TakenFrom
<1>3. app' \in Copies /\ \A m \in Mbuf : app'[m] = app[m] + Count(s, m)
  BY <1>1, PlusMinus
<1>4. ASSUME NEW m \in Mbuf
      PROVE  InPools(free', m) + app'[m] = InPools(free, m) + app[m]
  <2>1. Count(s, m) \in Nat /\ app[m] \in Nat /\ InPools(free', m) \in Nat
    BY <1>1, <1>2, CountIs DEF Copies
  <2>2. app'[m] = app[m] + Count(s, m) /\ InPools(free', m) + Count(s, m) = InPools(free, m)
    BY <1>2, <1>3
  <2> QED
    BY <2>1, <2>2
<1> QED
  BY <1>2, <1>3, <1>4 DEF Balanced

\* Mbuf::drop and Mbuf::free_bulk move mbufs from the program to pools.
LEMMA GiveStep ==
  ASSUME Types, NEW s \in Seq(Mbuf), NEW g \in [Pool -> Copies],
         \A m \in Mbuf : Count(s, m) <= app[m],
         \A m \in Mbuf : InPools(free, m) \in Nat /\ InPools(g, m) = InPools(free, m) + Count(s, m),
         free' = g, app' = Minus(app, s)
  PROVE  app' \in Copies /\ Balanced
<1>1. app \in Copies
  BY DEF TypeOK, Types
<1>2. app' \in Copies /\ \A m \in Mbuf : app'[m] = app[m] - Count(s, m)
  BY <1>1, PlusMinus
<1>3. ASSUME NEW m \in Mbuf
      PROVE  /\ InPools(free, m) \in Nat /\ InPools(free', m) \in Nat
             /\ InPools(free', m) + app'[m] = InPools(free, m) + app[m]
  <2>1. /\ Count(s, m) \in Nat /\ app[m] \in Nat /\ Count(s, m) <= app[m]
        /\ InPools(free, m) \in Nat
    BY <1>1, CountIs DEF Copies
  <2>2. app'[m] = app[m] - Count(s, m) /\ InPools(free', m) = InPools(free, m) + Count(s, m)
    BY <1>2
  <2> QED
    BY <2>1, <2>2
<1> QED
  BY <1>2, <1>3 DEF Balanced

\* Every call but Port::send.
LEMMA LibraryStep ==
  ASSUME Types,
         \/ AllocBulk \/ FreeBulk \/ \E m \in Mbuf : Drop(m)
         \/ \E m \in Mbuf, d \in Data : Write(m, d) \/ Receive(m, d)
  PROVE  Types' /\ Balanced /\ UNCHANGED <<tx, refused>>
<1>1. /\ free \in [Pool -> Copies] /\ app \in Copies /\ data \in [Mbuf -> Data]
      /\ BatchMax \in Nat /\ RxPool \in Pool
  BY LifecycleAssumption DEF TypeOK, Types
<1>2. CASE AllocBulk
  <2>1. PICK p \in Pool : \E s \in Batches(free[p], BatchMax) :
          free' = [free EXCEPT ![p] = Minus(@, s)] /\ app' = Plus(app, s)
    BY <1>2 DEF AllocBulk
  <2>2. PICK s \in Batches(free[p], BatchMax) :
          free' = [free EXCEPT ![p] = Minus(@, s)] /\ app' = Plus(app, s)
    BY <2>1
  <2>3. s \in Seq(Mbuf) /\ \A m \in Mbuf : Count(s, m) <= free[p][m]
    BY <1>1, BatchIs
  <2>4. free' \in [Pool -> Copies] /\ app' \in Copies /\ Balanced
    BY <2>2, <2>3, TakeStep DEF TakeFrom
  <2> QED
    BY <1>2, <2>4 DEF AllocBulk, TypeOK, Types
<1>3. CASE FreeBulk
  <2>1. PICK s \in Batches(app, BatchMax) : app' = Minus(app, s) /\ free' = BulkFreed(free, s)
    BY <1>3 DEF FreeBulk
  <2>2. s \in Seq(Mbuf) /\ s[1] \in Mbuf /\ \A m \in Mbuf : Count(s, m) <= app[m]
    BY <1>1, BatchIs
  <2>3. PoolOf[s[1]] \in Pool
    BY <2>2, LifecycleAssumption
  <2>4. /\ free' \in [Pool -> Copies]
        /\ \A m \in Mbuf : InPools(free, m) \in Nat /\ InPools(free', m) = InPools(free, m) + Count(s, m)
    BY <1>1, <2>1, <2>2, <2>3, BulkFreedIs, PutAdds
  <2>5. app' \in Copies /\ Balanced
    BY <2>1, <2>2, <2>4, GiveStep
  <2>6. mixed' \in BOOLEAN
    BY <1>3 DEF FreeBulk, TypeOK, Types, Mixed
  <2> QED
    BY <1>3, <2>4, <2>5, <2>6 DEF FreeBulk, TypeOK, Types
<1>4. ASSUME NEW m \in Mbuf, Drop(m) PROVE Types' /\ Balanced /\ UNCHANGED <<tx, refused>>
  <2>1. PICK s \in Seq(Mbuf) : s = <<m>> /\ \A x : Count(s, x) = IF x = m THEN 1 ELSE 0
    BY CountOne
  <2>2. \A x \in Mbuf : Count(s, x) <= app[x]
    BY <1>1, <1>4, <2>1 DEF Drop, Copies
  <2>3. app' = Minus(app, s) /\ free' = Freed(free, s)
    BY <1>4, <2>1 DEF Drop
  <2>4. /\ free' \in [Pool -> Copies]
        /\ \A x \in Mbuf : InPools(free, x) \in Nat /\ InPools(free', x) = InPools(free, x) + Count(s, x)
    BY <1>1, <2>3, FreedAdds
  <2>5. app' \in Copies /\ Balanced
    BY <2>2, <2>3, <2>4, GiveStep
  <2> QED
    BY <1>4, <2>4, <2>5 DEF Drop, TypeOK, Types
<1>5. ASSUME NEW m \in Mbuf, NEW d \in Data, Write(m, d)
      PROVE  Types' /\ Balanced /\ UNCHANGED <<tx, refused>>
  <2>1. \A x \in Mbuf : InPools(free, x) \in Nat
    BY <1>1, InPoolsChange
  <2>2. Balanced
    BY <1>5, <2>1 DEF Write, Balanced
  <2> QED
    BY <1>1, <1>5, <2>2 DEF Write, TypeOK, Types
<1>6. ASSUME NEW m \in Mbuf, NEW d \in Data, Receive(m, d)
      PROVE  Types' /\ Balanced /\ UNCHANGED <<tx, refused>>
  <2>1. PICK s \in Seq(Mbuf) : s = <<m>> /\ \A x : Count(s, x) = IF x = m THEN 1 ELSE 0
    BY CountOne
  <2>2. \A x \in Mbuf : Count(s, x) <= free[RxPool][x]
    BY <1>1, <1>6, <2>1 DEF Receive, Copies
  <2>3. app' = Plus(app, s) /\ free' = TakeFrom(free, RxPool, s)
    BY <1>6, <2>1 DEF Receive, TakeFrom
  <2>4. free' \in [Pool -> Copies] /\ app' \in Copies /\ Balanced
    BY <1>1, <2>2, <2>3, TakeStep
  <2>5. data' \in [Mbuf -> Data]
    BY <1>1, <1>6 DEF Receive
  <2> QED
    BY <1>6, <2>4, <2>5 DEF Receive, TypeOK, Types
<1> QED
  BY <1>2, <1>3, <1>4, <1>5, <1>6

-----------------------------------------------------------------------------
(* Port::send. *)

Entry == [mbuf : Mbuf, data : Data]

\* Port::send of batch s: the NIC had transmitted the first `done` packets,
\* whose mbufs are `old`, and accepted the first n mbufs of the batch.
Sent(s, done, n, old) ==
  /\ s \in Seq(Mbuf) /\ Len(s) \in Nat /\ s[1] \in Mbuf
  /\ \A m \in Mbuf : Count(s, m) \in Nat /\ Count(s, m) <= app[m]
  /\ Len(tx) \in Nat /\ done \in 0 .. Len(tx)
  /\ n \in 0 .. Len(s) /\ n \in 0 .. TxDesc - (Len(tx) - done)
  /\ old \in Seq(Mbuf) /\ Len(old) = done /\ \A i \in 1 .. done : old[i] = tx[i].mbuf
  /\ tx' \in Seq(Entry) /\ Len(tx') = (Len(tx) - done) + n
  /\ \A i \in 1 .. Len(tx) - done : tx'[i] = tx[done + i]
  /\ \A i \in 1 .. n : tx'[(Len(tx) - done) + i] = [mbuf |-> s[i], data |-> data[s[i]]]
  /\ sends' \in 0 .. MaxSends
  /\ app' = Minus(app, s)
  /\ free' = Returned(Reclaimed(free, old), s, n)
  /\ refused' = (refused \/ n < Len(s))
  /\ mixed' = (mixed \/ (n < Len(s) /\ Mixed(s)) \/ (fast /\ Mixed(old)))
  /\ UNCHANGED <<fast, data>>

\* Every call of Port::send is one.
LEMMA SendIs ==
  ASSUME Types, Send
  PROVE  \E s, done, n, old : Sent(s, done, n, old)
<1>1. /\ tx \in Seq(Entry) /\ Len(tx) <= TxDesc /\ data \in [Mbuf -> Data] /\ sends \in 0 .. MaxSends
      /\ BatchMax \in Nat /\ TxDesc \in Nat /\ MaxSends \in Nat
  BY LifecycleAssumption DEF TypeOK, Types, Entry
<1>2. PICK s \in Batches(app, BatchMax), done \in 0 .. Len(tx) :
        LET left == SubSeq(tx, done + 1, Len(tx))
            old == [i \in 1 .. done |-> tx[i].mbuf]
            n == Accepted(s, left)
        IN  /\ sends < MaxSends
            /\ sends' = sends + 1
            /\ app' = Minus(app, s)
            /\ tx' = left \o [i \in 1 .. n |-> [mbuf |-> s[i], data |-> data[s[i]]]]
            /\ free' = Returned(Reclaimed(free, old), s, n)
            /\ refused' = (refused \/ n < Len(s))
            /\ mixed' = (mixed \/ (n < Len(s) /\ Mixed(s)) \/ (fast /\ Mixed(old)))
            /\ UNCHANGED <<fast, data>>
  BY DEF Send
<1>3. PICK left : left = SubSeq(tx, done + 1, Len(tx))
  OBVIOUS
<1>4. PICK old : old = [i \in 1 .. done |-> tx[i].mbuf]
  OBVIOUS
<1>5. PICK n : n = Accepted(s, left)
  OBVIOUS
<1>6. PICK new : new = [i \in 1 .. n |-> [mbuf |-> s[i], data |-> data[s[i]]]]
  OBVIOUS
<1>7. /\ sends < MaxSends
      /\ sends' = sends + 1
      /\ app' = Minus(app, s)
      /\ tx' = left \o new
      /\ free' = Returned(Reclaimed(free, old), s, n)
      /\ refused' = (refused \/ n < Len(s))
      /\ mixed' = (mixed \/ (n < Len(s) /\ Mixed(s)) \/ (fast /\ Mixed(old)))
      /\ UNCHANGED <<fast, data>>
  BY <1>2, <1>3, <1>4, <1>5, <1>6, Zenon
<1>8. /\ s \in Seq(Mbuf) /\ Len(s) \in Nat /\ s[1] \in Mbuf
      /\ \A m \in Mbuf : Count(s, m) \in Nat /\ Count(s, m) <= app[m]
  BY <1>1, BatchIs
<1>9. Len(tx) \in Nat /\ \A i \in 1 .. Len(tx) : tx[i] \in Entry
  BY <1>1, LenProperties
<1>10. \A i \in 1 .. Len(s) : s[i] \in Mbuf
  BY <1>8, LenProperties
<1>11. /\ left \in Seq(Entry) /\ Len(left) = Len(tx) - done
       /\ \A i \in 1 .. Len(tx) - done : left[i] = tx[done + i]
  <2>1. \A i \in done + 1 .. Len(tx) : tx[i] \in Entry
    BY <1>9
  <2> QED
    BY <1>3, <1>9, <2>1, SubSeqProperties
<1>12. n \in 0 .. Len(s) /\ n \in 0 .. TxDesc - (Len(tx) - done)
  <2>1. TxDesc - Len(left) \in Nat
    BY <1>1, <1>9, <1>11
  <2>2. n = Min({Len(s), TxDesc - Len(left)})
    BY <1>5 DEF Accepted
  <2> QED
    BY <1>8, <1>11, <2>1, <2>2, LesserOf
<1>13. old \in Seq(Mbuf) /\ Len(old) = done /\ \A i \in 1 .. done : old[i] = tx[i].mbuf
  <2>1. \A i \in 1 .. done : tx[i].mbuf \in Mbuf
    BY <1>9 DEF Entry
  <2>2. old \in [1 .. done -> Mbuf] /\ done \in Nat
    BY <1>4, <1>9, <2>1
  <2> QED
    BY <1>4, <2>2
<1>14. /\ new \in Seq(Entry) /\ Len(new) = n
       /\ \A i \in 1 .. n : new[i] = [mbuf |-> s[i], data |-> data[s[i]]]
  <2>1. \A i \in 1 .. n : [mbuf |-> s[i], data |-> data[s[i]]] \in Entry
    BY <1>1, <1>8, <1>10, <1>12 DEF Entry
  <2>2. new \in [1 .. n -> Entry] /\ n \in Nat
    BY <1>6, <1>12, <2>1
  <2> QED
    BY <1>6, <2>2
<1>15. /\ tx' \in Seq(Entry) /\ Len(tx') = (Len(tx) - done) + n
       /\ \A i \in 1 .. Len(tx) - done : tx'[i] = tx[done + i]
       /\ \A i \in 1 .. n : tx'[(Len(tx) - done) + i] = [mbuf |-> s[i], data |-> data[s[i]]]
  <2>1. PICK both : both = left \o new
    OBVIOUS
  <2>2. /\ both \in Seq(Entry) /\ Len(both) = Len(left) + Len(new)
        /\ \A i \in 1 .. Len(left) + Len(new) :
             both[i] = IF i <= Len(left) THEN left[i] ELSE new[i - Len(left)]
    BY <1>11, <1>14, <2>1, ConcatProperties
  <2>3. Len(tx) - done \in Nat /\ n \in Nat
    BY <1>8, <1>9, <1>12
  <2>4. \A i \in 1 .. Len(tx) - done : both[i] = tx[done + i]
    BY <1>11, <1>14, <2>2, <2>3
  <2>5. ASSUME NEW i \in 1 .. n
        PROVE  both[(Len(tx) - done) + i] = [mbuf |-> s[i], data |-> data[s[i]]]
    <3>1. PICK k : k = (Len(tx) - done) + i
      OBVIOUS
    <3>2. k \in 1 .. Len(left) + Len(new) /\ ~(k <= Len(left)) /\ k - Len(left) = i
      BY <1>11, <1>14, <2>3, <3>1
    <3>3. both[k] = new[i]
      BY <2>2, <3>2
    <3> QED
      BY <1>14, <3>1, <3>3
  <2> QED
    BY <1>7, <1>11, <1>14, <2>1, <2>2, <2>4, <2>5
<1>16. sends' \in 0 .. MaxSends
  BY <1>1, <1>7
<1>17. Sent(s, done, n, old)
  BY <1>7, <1>8, <1>9, <1>12, <1>13, <1>15, <1>16 DEF Sent
<1> QED
  BY <1>17

\* tx_burst frees what was transmitted and takes what it accepts: in the NIC
\* there are then as many occurrences as before, less the ones and plus the
\* others.
LEMMA SentCounts ==
  ASSUME Types, NEW s, NEW done, NEW n, NEW old, Sent(s, done, n, old), NEW m
  PROVE  /\ Count(TxMbufs, m) \in Nat /\ Count(old, m) \in Nat /\ Count(TxMbufs', m) \in Nat
         /\ Count(SubSeq(s, 1, n), m) \in Nat /\ Count(SubSeq(s, n + 1, Len(s)), m) \in Nat
         /\ Count(s, m) = Count(SubSeq(s, 1, n), m) + Count(SubSeq(s, n + 1, Len(s)), m)
         /\ Count(TxMbufs', m) + Count(old, m) = Count(TxMbufs, m) + Count(SubSeq(s, 1, n), m)
         /\ n = Len(s) => Count(SubSeq(s, 1, n), m) = Count(s, m)
<1>0. PICK k \in Nat : k = Len(tx) - done
  BY DEF Sent
<1>1. PICK t : t = TxMbufs
  OBVIOUS
<1>2. PICK u : u = TxMbufs'
  OBVIOUS
<1>3. PICK left : left = [i \in 1 .. k |-> tx[done + i].mbuf]
  OBVIOUS
<1>4. PICK a : a = SubSeq(s, 1, n)
  OBVIOUS
<1>5. PICK b : b = SubSeq(s, n + 1, Len(s))
  OBVIOUS
<1>6. /\ s \in Seq(Mbuf) /\ Len(s) \in Nat /\ Len(tx) \in Nat /\ done \in 0 .. Len(tx)
      /\ n \in 0 .. Len(s) /\ n \in Nat /\ k \in Nat /\ Len(tx) = done + k
      /\ \A i \in 1 .. Len(s) : s[i] \in Mbuf
  BY <1>0, LenProperties DEF Sent
<1>7. /\ old \in Seq(Mbuf) /\ Len(old) = done /\ \A i \in 1 .. done : old[i] = tx[i].mbuf
  BY DEF Sent
<1>8. \A i \in 1 .. Len(tx) : tx[i].mbuf \in Mbuf
  <2>1. tx \in Seq(Entry)
    BY DEF TypeOK, Types, Entry
  <2>2. \A i \in 1 .. Len(tx) : tx[i] \in Entry
    BY <2>1, LenProperties
  <2> QED
    BY <2>2 DEF Entry
<1>9. /\ Len(tx') = k + n /\ DOMAIN tx' = 1 .. k + n /\ DOMAIN tx = 1 .. Len(tx)
      /\ \A i \in 1 .. k : tx'[i].mbuf = tx[done + i].mbuf
      /\ \A i \in 1 .. n : tx'[k + i].mbuf = s[i]
  <2>1. tx' \in Seq(Entry) /\ tx \in Seq(Entry)
    BY DEF Sent, TypeOK, Types, Entry
  <2>2. DOMAIN tx' = 1 .. Len(tx') /\ DOMAIN tx = 1 .. Len(tx)
    BY <2>1, LenProperties
  <2>3. /\ Len(tx') = k + n
        /\ \A i \in 1 .. k : tx'[i] = tx[done + i]
        /\ \A i \in 1 .. n : tx'[k + i] = [mbuf |-> s[i], data |-> data[s[i]]]
    BY <1>0 DEF Sent
  <2>4. ASSUME NEW i \in 1 .. n PROVE tx'[k + i].mbuf = s[i]
    <3>1. PICK e : e = tx'[k + i]
      OBVIOUS
    <3>2. e = [mbuf |-> s[i], data |-> data[s[i]]]
      BY <2>3, <3>1
    <3>3. e.mbuf = s[i]
      BY <3>2
    <3> QED
      BY <3>1, <3>3
  <2> QED
    BY <2>2, <2>3, <2>4
<1>10. t \in Seq(Mbuf) /\ Len(t) = done + k /\ \A i \in 1 .. done + k : t[i] = tx[i].mbuf
  <2>1. t = [i \in 1 .. done + k |-> tx[i].mbuf]
    BY <1>1, <1>6, <1>9 DEF TxMbufs
  <2>2. t \in [1 .. done + k -> Mbuf] /\ done + k \in Nat
    BY <1>6, <1>8, <2>1
  <2> QED
    BY <2>1, <2>2
<1>11. left \in Seq(Mbuf) /\ Len(left) = k /\ \A i \in 1 .. k : left[i] = tx[done + i].mbuf
  <2>1. \A i \in 1 .. k : tx[done + i].mbuf \in Mbuf
    BY <1>6, <1>8
  <2>2. left \in [1 .. k -> Mbuf]
    BY <1>3, <2>1
  <2>3. left \in Seq(Mbuf) /\ Len(left) = k
    BY <1>0, <2>2
  <2> QED
    BY <1>3, <2>3
<1>12. /\ a \in Seq(Mbuf) /\ b \in Seq(Mbuf) /\ Len(a) = n
       /\ Count(s, m) = Count(a, m) + Count(b, m)
  BY <1>4, <1>5, <1>6, CountSplit
<1>13. \A i \in 1 .. n : a[i] = s[i]
  <2>1. \A i \in 1 .. n : s[i] \in Mbuf
    BY <1>6
  <2> QED
    BY <1>4, <1>6, <2>1, SubSeqProperties
<1>14. u \in Seq(Mbuf) /\ Len(u) = k + n /\ \A i \in 1 .. k + n : u[i] = tx'[i].mbuf
  <2>1. u = [i \in 1 .. k + n |-> tx'[i].mbuf]
    BY <1>2, <1>9 DEF TxMbufs
  <2>2. ASSUME NEW i \in 1 .. k + n PROVE tx'[i].mbuf \in Mbuf
    <3>1. CASE i \in 1 .. k
      <4>1. done + i \in 1 .. Len(tx)
        BY <1>6, <3>1
      <4> QED
        BY <1>8, <1>9, <3>1, <4>1
    <3>2. CASE i \notin 1 .. k
      <4>1. PICK j \in 1 .. n : i = k + j
        <5>1. i - k \in 1 .. n /\ i = k + (i - k)
          BY <1>6, <3>2
        <5> QED
          BY <5>1
      <4>2. j \in 1 .. Len(s)
        BY <1>6
      <4> QED
        BY <1>6, <1>9, <4>1, <4>2
    <3> QED
      BY <3>1, <3>2
  <2>3. u \in [1 .. k + n -> Mbuf] /\ k + n \in Nat
    BY <1>6, <2>1, <2>2
  <2> QED
    BY <2>1, <2>3
<1>15. Joined(t, old, left)
  <2>1. \A i \in 1 .. done : t[i] = old[i]
    BY <1>6, <1>7, <1>10
  <2>2. \A i \in 1 .. k : t[done + i] = left[i]
    BY <1>6, <1>10, <1>11
  <2> QED
    BY <1>7, <1>10, <1>11, <2>1, <2>2 DEF Joined
<1>16. Joined(u, left, a)
  <2>1. \A i \in 1 .. k : u[i] = left[i]
    BY <1>6, <1>9, <1>11, <1>14
  <2>2. \A i \in 1 .. n : u[k + i] = a[i]
    BY <1>6, <1>9, <1>13, <1>14
  <2> QED
    BY <1>11, <1>12, <1>14, <2>1, <2>2 DEF Joined
<1>17. /\ Count(t, m) = Count(old, m) + Count(left, m)
       /\ Count(u, m) = Count(left, m) + Count(a, m)
  BY <1>15, <1>16, CountParts
<1>18. /\ Count(t, m) \in Nat /\ Count(u, m) \in Nat /\ Count(old, m) \in Nat
       /\ Count(left, m) \in Nat /\ Count(a, m) \in Nat /\ Count(b, m) \in Nat
  BY <1>7, <1>10, <1>11, <1>12, <1>14, CountIs
<1>19. n = Len(s) => a = s
  BY <1>4, <1>6, SubSeqFull
<1>20. Count(u, m) + Count(old, m) = Count(t, m) + Count(a, m)
  BY <1>17, <1>18
<1> QED
  BY <1>1, <1>2, <1>4, <1>5, <1>12, <1>18, <1>19, <1>20

\* Port::send takes the batch from the program, and the pools get what was
\* transmitted and, if not all of the batch was accepted, the batch as well.
LEMMA SendStep ==
  ASSUME Types, NEW s, NEW done, NEW n, NEW old, Sent(s, done, n, old)
  PROVE  /\ Types'
         /\ \A m \in Mbuf :
              /\ InPools(free, m) \in Nat /\ app[m] \in Nat /\ app'[m] = app[m] - Count(s, m)
              /\ InPools(free', m) = (InPools(free, m) + Count(old, m)) +
                                      IF n < Len(s) THEN Count(s, m) ELSE 0
<1>1. /\ free \in [Pool -> Copies] /\ app \in Copies /\ s \in Seq(Mbuf) /\ old \in Seq(Mbuf)
      /\ s[1] \in Mbuf /\ n \in 0 .. Len(s) /\ Len(s) \in Nat
      /\ \A m \in Mbuf : Count(s, m) \in Nat /\ Count(s, m) <= app[m]
  BY DEF TypeOK, Types, Sent
<1>2. PICK r : r = Reclaimed(free, old)
  OBVIOUS
<1>3. /\ r \in [Pool -> Copies]
      /\ \A m \in Mbuf : InPools(free, m) \in Nat /\ InPools(r, m) = InPools(free, m) + Count(old, m)
  BY <1>1, <1>2, ReclaimedAdds
<1>4. app' \in Copies /\ \A m \in Mbuf : app[m] \in Nat /\ app'[m] = app[m] - Count(s, m)
  <2>1. app' = Minus(app, s)
    BY DEF Sent
  <2>2. app' \in Copies /\ \A m \in Mbuf : app'[m] = app[m] - Count(s, m)
    BY <1>1, <2>1, PlusMinus
  <2> QED
    BY <1>1, <2>2 DEF Copies
<1>5. /\ tx' \in Seq([mbuf : Mbuf, data : Data]) /\ Len(tx') <= TxDesc
      /\ fast' \in FastFree /\ data' \in [Mbuf -> Data] /\ sends' \in 0 .. MaxSends
      /\ refused' \in BOOLEAN /\ mixed' \in BOOLEAN
  <2>1. tx' \in Seq([mbuf : Mbuf, data : Data]) /\ sends' \in 0 .. MaxSends
    BY DEF Sent, Entry
  <2>2. fast' \in FastFree /\ data' \in [Mbuf -> Data]
    BY DEF Sent, TypeOK, Types
  <2>3. refused' \in BOOLEAN /\ mixed' \in BOOLEAN
    BY Zenon DEF Sent, TypeOK, Types
  <2>4. Len(tx') <= TxDesc
    <3>1. /\ Len(tx) \in Nat /\ done \in 0 .. Len(tx) /\ n \in 0 .. TxDesc - (Len(tx) - done)
          /\ Len(tx') = (Len(tx) - done) + n /\ TxDesc \in Nat
      BY LifecycleAssumption DEF Sent
    <3> QED
      BY <3>1
  <2> QED
    BY <2>1, <2>2, <2>3, <2>4
<1>6. CASE n < Len(s)
  <2>1. free' = BulkFreed(r, s)
    BY <1>2, <1>6 DEF Sent, Returned
  <2>2. PoolOf[s[1]] \in Pool
    BY <1>1, LifecycleAssumption
  <2>3. free' = PutInto(r, PoolOf[s[1]], s)
    BY <1>1, <2>1, BulkFreedIs
  <2>4. free' \in [Pool -> Copies] /\ \A m \in Mbuf : InPools(free', m) = InPools(r, m) + Count(s, m)
    BY <1>1, <1>3, <2>2, <2>3, PutAdds, SMTT(60)
  <2>5. Types'
    BY <1>4, <1>5, <2>4 DEF TypeOK, Types
  <2> QED
    BY <1>3, <1>4, <1>6, <2>4, <2>5
<1>7. CASE n = Len(s)
  <2>1. free' = r
    BY <1>1, <1>2, <1>7 DEF Sent, Returned
  <2>2. Types'
    BY <1>3, <1>4, <1>5, <2>1 DEF TypeOK, Types
  <2>3. \A m \in Mbuf : InPools(free', m) = (InPools(free, m) + Count(old, m)) + 0
    <3>1. \A m \in Mbuf : Count(old, m) \in Nat
      BY <1>1, CountIs
    <3> QED
      BY <1>3, <2>1, <3>1
  <2> QED
    BY <1>1, <1>4, <1>3, <1>7, <2>2, <2>3
<1> QED
  BY <1>1, <1>6, <1>7

\* So it never leaves an mbuf fewer owners, and as many as before if the whole
\* batch was accepted.
LEMMA SendOwners ==
  ASSUME Types, NEW s, NEW done, NEW n, NEW old, Sent(s, done, n, old), NEW m \in Mbuf
  PROVE  /\ Owners(m) \in Nat /\ Owners(m)' \in Nat /\ Owners(m)' >= Owners(m)
         /\ n = Len(s) => Owners(m)' = Owners(m)
<1>1. /\ Count(TxMbufs, m) \in Nat /\ Count(old, m) \in Nat /\ Count(TxMbufs', m) \in Nat
      /\ Count(SubSeq(s, 1, n), m) \in Nat
      /\ Count(TxMbufs', m) + Count(old, m) = Count(TxMbufs, m) + Count(SubSeq(s, 1, n), m)
      /\ n = Len(s) => Count(SubSeq(s, 1, n), m) = Count(s, m)
  BY SentCounts
<1>2. /\ InPools(free, m) \in Nat /\ app[m] \in Nat /\ app'[m] = app[m] - Count(s, m)
      /\ InPools(free', m) = (InPools(free, m) + Count(old, m)) +
                              IF n < Len(s) THEN Count(s, m) ELSE 0
  BY SendStep
<1>3. Count(s, m) \in Nat /\ Count(s, m) <= app[m] /\ Len(s) \in Nat /\ n \in 0 .. Len(s)
  BY DEF Sent
<1>4. PICK p \in Nat, a \in Nat, t \in Nat, o \in Nat, c \in Nat, x \in Nat, u \in Nat :
        /\ p = InPools(free, m) /\ a = app[m] /\ t = Count(TxMbufs, m) /\ o = Count(old, m)
        /\ c = Count(s, m) /\ x = Count(SubSeq(s, 1, n), m) /\ u = Count(TxMbufs', m)
  BY <1>1, <1>2, <1>3
<1>5. /\ Owners(m) = (p + a) + t
      /\ Owners(m)' = (((p + o) + IF n < Len(s) THEN c ELSE 0) + (a - c)) + u
      /\ u + o = t + x /\ c <= a /\ (n = Len(s) => x = c)
  BY <1>1, <1>2, <1>3, <1>4 DEF Owners
<1>6. CASE n < Len(s)
  <2>1. Owners(m)' = (((p + o) + c) + (a - c)) + u /\ n # Len(s)
    BY <1>3, <1>5, <1>6
  <2> QED
    BY <1>5, <2>1
<1>7. CASE n = Len(s)
  <2>1. Owners(m)' = (((p + o) + 0) + (a - c)) + u /\ x = c
    BY <1>3, <1>5, <1>7
  <2> QED
    BY <1>5, <2>1
<1> QED
  BY <1>3, <1>6, <1>7

-----------------------------------------------------------------------------
(* The theorems. *)

\* What the owners of the mbufs need.
OwnersInv == Types /\ NothingLeaks /\ OneOwnerUnlessRefused

\* Every call other than Port::send leaves the owners as many as they were.
LEMMA BalancedOwners ==
  ASSUME Types, Balanced, UNCHANGED <<tx, refused>>, NEW m \in Mbuf
  PROVE  Owners(m)' = Owners(m)
<1>1. TxMbufs' = TxMbufs
  BY DEF TxMbufs
<1>2. InPools(free', m) + app'[m] = InPools(free, m) + app[m]
  BY DEF Balanced
<1> QED
  BY <1>1, <1>2 DEF Owners

\* Every call keeps the owners in order.
LEMMA OwnersStep ==
  ASSUME OwnersInv, [Next]_vars
  PROVE  OwnersInv'
<1>1. Types
  BY DEF OwnersInv
<1>2. CASE Send
  <2>1. PICK s, done, n, old : Sent(s, done, n, old)
    BY <1>1, <1>2, SendIs
  <2>2. Types'
    BY <1>1, <2>1, SendStep
  <2>3. n \in 0 .. Len(s) /\ Len(s) \in Nat /\ refused' = (refused \/ n < Len(s))
    BY <2>1 DEF Sent
  <2>4. NothingLeaks'
    <3> SUFFICES ASSUME NEW m \in Mbuf PROVE Owners(m)' >= 1
      BY DEF NothingLeaks
    <3>1. Owners(m) >= 1
      BY DEF OwnersInv, NothingLeaks
    <3>2. Owners(m) \in Nat /\ Owners(m)' \in Nat /\ Owners(m)' >= Owners(m)
      BY <1>1, <2>1, SendOwners
    <3> QED
      BY <3>1, <3>2
  <2>5. OneOwnerUnlessRefused'
    <3>1. CASE n < Len(s)
      BY <2>3, <3>1 DEF OneOwnerUnlessRefused
    <3>2. CASE n = Len(s)
      <4>1. \A m \in Mbuf : Owners(m)' = Owners(m)
        BY <1>1, <2>1, <3>2, SendOwners
      <4>2. OneOwnerUnlessRefused /\ (refused => refused')
        BY <2>3 DEF OwnersInv
      <4> QED
        BY <4>1, <4>2 DEF OneOwnerUnlessRefused
    <3> QED
      BY <2>3, <3>1, <3>2
  <2> QED
    BY <2>2, <2>4, <2>5 DEF OwnersInv
<1>3. CASE \/ AllocBulk \/ FreeBulk \/ \E m \in Mbuf : Drop(m)
           \/ \E m \in Mbuf, d \in Data : Write(m, d) \/ Receive(m, d)
  <2>1. Types' /\ Balanced /\ UNCHANGED <<tx, refused>>
    BY <1>1, <1>3, LibraryStep
  <2>2. \A m \in Mbuf : Owners(m)' = Owners(m)
    BY <1>1, <2>1, BalancedOwners
  <2> QED
    BY <2>1, <2>2 DEF OwnersInv, NothingLeaks, OneOwnerUnlessRefused
<1>4. CASE UNCHANGED vars
  <2>1. Types'
    BY <1>1, <1>4 DEF TypeOK, Types, vars
  <2>2. \A m \in Mbuf : Owners(m)' = Owners(m)
    BY <1>4 DEF Owners, TxMbufs, vars
  <2>3. refused' = refused
    BY <1>4 DEF vars
  <2> QED
    BY <2>1, <2>2, <2>3 DEF OwnersInv, NothingLeaks, OneOwnerUnlessRefused
<1> QED
  BY <1>2, <1>3, <1>4 DEF Next

\* It always holds.
LEMMA OwnersAlways == Spec => []OwnersInv
<1>1. Init => OwnersInv
  <2> SUFFICES ASSUME Init PROVE OwnersInv
    OBVIOUS
  <2>1. Types /\ \A m \in Mbuf : Owners(m) = 1
    BY LifecycleInit
  <2> QED
    BY <2>1 DEF OwnersInv, NothingLeaks, OneOwnerUnlessRefused
<1>2. OwnersInv /\ [Next]_vars => OwnersInv'
  BY OwnersStep
<1> QED
  BY <1>1, <1>2, PTL DEF Spec

\* Every call of Mbuf and Port keeps the types: the program, the pools and the
\* NIC have mbufs only, and no holder gives away more of them than it has.
THEOREM TypeCorrect == Spec => []TypeOK
<1>1. OwnersInv => TypeOK
  BY DEF OwnersInv, Types
<1> QED
  BY <1>1, OwnersAlways, PTL

\* Whatever a program does with Mbuf's and Port's alloc_bulk, free_bulk, drop,
\* receive and send, with any number of pools, every mbuf remains in a pool, in
\* the program or in the NIC.  (Rings, which lose mbufs, are not part of this.)
THEOREM MbufsSurvive == Spec => []NothingLeaks
<1>1. OwnersInv => NothingLeaks
  BY DEF OwnersInv
<1> QED
  BY <1>1, OwnersAlways, PTL

\* Only the branch of Port::send that frees the whole of a partly accepted
\* batch ever gives an mbuf a second owner.
THEOREM OneOwner == Spec => []OneOwnerUnlessRefused
<1>1. OwnersInv => OneOwnerUnlessRefused
  BY DEF OwnersInv
<1> QED
  BY <1>1, OwnersAlways, PTL

-----------------------------------------------------------------------------
(* What the NIC transmits. *)

\* The NIC does not have an mbuf whose one owner is a pool or the program.
LEMMA NotSent ==
  ASSUME Types, NEW m \in Mbuf, Owners(m) = 1, InPools(free, m) >= 1 \/ app[m] >= 1
  PROVE  \A i \in DOMAIN tx : tx[i].mbuf # m
<1>1. PICK t : t = TxMbufs
  OBVIOUS
<1>2. Len(tx) \in Nat /\ DOMAIN tx = 1 .. Len(tx) /\ \A i \in 1 .. Len(tx) : tx[i] \in Entry
  BY LenProperties DEF TypeOK, Types, Entry
<1>3. t \in Seq(Mbuf) /\ Len(t) = Len(tx) /\ \A i \in 1 .. Len(tx) : t[i] = tx[i].mbuf
  <2>1. t = [i \in 1 .. Len(tx) |-> tx[i].mbuf]
    BY <1>1, <1>2 DEF TxMbufs
  <2>2. \A i \in 1 .. Len(tx) : tx[i].mbuf \in Mbuf
    BY <1>2 DEF Entry
  <2>3. t \in [1 .. Len(tx) -> Mbuf]
    BY <2>1, <2>2
  <2> QED
    BY <1>2, <2>1, <2>3
<1>4. Count(t, m) \in Nat /\ (Count(t, m) = 0 => \A i \in 1 .. Len(t) : t[i] # m)
  BY <1>3, CountIs
<1>5. InPools(free, m) \in Nat /\ app[m] \in Nat
  <2>1. free \in [Pool -> Copies] /\ app \in Copies /\ RxPool \in Pool
    BY LifecycleAssumption DEF TypeOK, Types
  <2> QED
    BY <2>1, InPoolsChange DEF Copies
<1>6. InPools(free, m) + app[m] + Count(t, m) = 1
  BY <1>1 DEF Owners
<1>7. Count(t, m) = 0
  BY <1>4, <1>5, <1>6
<1> QED
  BY <1>2, <1>3, <1>4, <1>7

\* The inductive invariant: that the program cannot write to what the NIC has
\* follows from the number of owners.
IntactInv == OwnersInv /\ SentIntactUnlessRefused

\* Every call keeps it.
LEMMA IntactStep ==
  ASSUME IntactInv, [Next]_vars
  PROVE  IntactInv'
<1>1. Types /\ OwnersInv
  BY DEF IntactInv, OwnersInv
<1>2. OwnersInv'
  BY <1>1, OwnersStep
<1>3. ASSUME ~refused PROVE \A i \in DOMAIN tx : data[tx[i].mbuf] = tx[i].data
  BY <1>3 DEF IntactInv, SentIntactUnlessRefused
<1>4. CASE Send
  <2>1. PICK s, done, n, old : Sent(s, done, n, old)
    BY <1>1, <1>4, SendIs
  <2>2. CASE refused'
    BY <1>2, <2>2 DEF IntactInv, SentIntactUnlessRefused
  <2>3. CASE ~refused'
    <3>0. n \in Nat /\ Len(tx) \in Nat /\ done \in 0 .. Len(tx)
      BY <2>1 DEF Sent
    <3>1. ~refused /\ data' = data /\ tx' \in Seq(Entry) /\ tx \in Seq(Entry)
      BY <1>1, <2>1, <2>3 DEF Sent, TypeOK, Types, Entry
    <3>2. PICK k \in Nat : k = Len(tx) - done /\ done \in Nat /\ Len(tx) = done + k
      BY <3>0
    <3>3. /\ Len(tx') = k + n
          /\ \A i \in 1 .. k : tx'[i] = tx[done + i]
          /\ \A i \in 1 .. n : tx'[k + i] = [mbuf |-> s[i], data |-> data[s[i]]]
      BY <2>1, <3>2 DEF Sent
    <3>4. DOMAIN tx' = 1 .. k + n /\ DOMAIN tx = 1 .. done + k
      BY <3>1, <3>2, <3>3, <3>0, LenProperties
    <3>5. ASSUME NEW i \in 1 .. k + n PROVE data[tx'[i].mbuf] = tx'[i].data
      <4>1. CASE i \in 1 .. k
        <5>1. done + i \in DOMAIN tx /\ tx'[i] = tx[done + i]
          BY <3>2, <3>3, <3>4, <4>1
        <5> QED
          BY <1>3, <3>1, <5>1
      <4>2. CASE i \notin 1 .. k
        <5>1. PICK j \in 1 .. n : i = k + j
          <6>1. i - k \in 1 .. n /\ i = k + (i - k)
            <7>1. k \in Nat /\ n \in Nat /\ i \in 1 .. k + n /\ i \notin 1 .. k
              BY <3>2, <3>3, <3>0, <4>2
            <7> QED
              BY <7>1
          <6> QED
            BY <6>1
        <5>2. PICK e : e = tx'[i]
          OBVIOUS
        <5>3. e = [mbuf |-> s[j], data |-> data[s[j]]]
          BY <3>3, <5>1, <5>2
        <5>4. data[e.mbuf] = e.data
          BY <5>3
        <5> QED
          BY <5>2, <5>4
      <4> QED
        BY <4>1, <4>2
    <3>6. SentIntactUnlessRefused'
      BY <3>1, <3>4, <3>5 DEF SentIntactUnlessRefused
    <3> QED
      BY <1>2, <3>6 DEF IntactInv
  <2> QED
    BY <2>2, <2>3
<1>5. ASSUME NEW m \in Mbuf, NEW d \in Data, data' = [data EXCEPT ![m] = d],
             InPools(free, m) >= 1 \/ app[m] >= 1, UNCHANGED <<tx, refused>>
      PROVE  IntactInv'
  <2>1. CASE refused
    BY <1>2, <1>5, <2>1 DEF IntactInv, SentIntactUnlessRefused
  <2>2. CASE ~refused
    <3>1. Owners(m) = 1
      BY <1>1, <2>2 DEF OwnersInv, OneOwnerUnlessRefused
    <3>2. \A i \in DOMAIN tx : tx[i].mbuf # m
      BY <1>1, <1>5, <3>1, NotSent
    <3>3. \A i \in DOMAIN tx : tx[i].mbuf \in Mbuf
      <4>1. tx \in Seq(Entry)
        BY <1>1 DEF TypeOK, Types, Entry
      <4>2. \A i \in DOMAIN tx : tx[i] \in Entry
        BY <4>1, LenProperties
      <4> QED
        BY <4>2 DEF Entry
    <3>4. data \in [Mbuf -> Data]
      BY <1>1 DEF TypeOK, Types
    <3>5. \A i \in DOMAIN tx : data'[tx[i].mbuf] = tx[i].data
      BY <1>3, <1>5, <2>2, <3>2, <3>3, <3>4
    <3>6. SentIntactUnlessRefused'
      BY <1>5, <3>5 DEF SentIntactUnlessRefused
    <3> QED
      BY <1>2, <3>6 DEF IntactInv
  <2> QED
    BY <2>1, <2>2
<1>6. ASSUME NEW m \in Mbuf, NEW d \in Data, Write(m, d) PROVE IntactInv'
  <2>1. app[m] >= 1
    BY <1>1, <1>6 DEF Write, TypeOK, Types, Copies
  <2> QED
    BY <1>5, <1>6, <2>1 DEF Write
<1>7. ASSUME NEW m \in Mbuf, NEW d \in Data, Receive(m, d) PROVE IntactInv'
  <2>1. free \in [Pool -> Copies] /\ RxPool \in Pool
    BY <1>1, LifecycleAssumption DEF TypeOK, Types
  <2>2. InPools(free, m) \in Nat /\ InPools(free, m) >= free[RxPool][m]
    BY <2>1, InPoolsChange
  <2>3. free[RxPool][m] > 0 /\ free[RxPool][m] \in Nat
    BY <1>7, <2>1 DEF Receive, Copies
  <2>4. InPools(free, m) >= 1
    BY <2>2, <2>3
  <2> QED
    BY <1>5, <1>7, <2>4 DEF Receive
<1>8. CASE UNCHANGED <<tx, data, refused>>
  BY <1>2, <1>8 DEF IntactInv, SentIntactUnlessRefused
<1>9. AllocBulk \/ FreeBulk \/ (\E m \in Mbuf : Drop(m)) \/ UNCHANGED vars
        => UNCHANGED <<tx, data, refused>>
  BY DEF AllocBulk, FreeBulk, Drop, vars
<1> QED
  BY <1>4, <1>6, <1>7, <1>8, <1>9 DEF Next

\* Until Port::send frees a partly accepted batch, nothing that the program, the
\* pools or the rx queues do changes a packet that the NIC has still to send.
THEOREM SentIntact == Spec => []SentIntactUnlessRefused
<1>1. Init => SentIntactUnlessRefused
  <2> SUFFICES ASSUME Init PROVE DOMAIN tx = {}
    BY DEF SentIntactUnlessRefused
  <2> QED
    BY DEF Init
<1>2. SentIntactUnlessRefused /\ OwnersInv /\ [Next]_vars => SentIntactUnlessRefused'
  BY IntactStep DEF IntactInv
<1> QED
  BY <1>1, <1>2, OwnersAlways, PTL DEF Spec

-----------------------------------------------------------------------------
(* Where free mbufs are. *)

AtHome(f) == \A p \in Pool, m \in Mbuf : f[p][m] > 0 => PoolOf[m] = p

\* A batch of one pool goes back to that pool.
LEMMA PutHome ==
  ASSUME NEW f \in [Pool -> Copies], NEW s \in Seq(Mbuf), s[1] \in Mbuf, AtHome(f), ~Mixed(s)
  PROVE  AtHome(PutInto(f, PoolOf[s[1]], s))
<1>1. PICK q \in Pool : q = PoolOf[s[1]]
  BY LifecycleAssumption
<1>2. PICK g : g = PutInto(f, q, s)
  OBVIOUS
<1>3. \A p \in Pool, m \in Mbuf : g[p][m] = f[p][m] + IF p = q THEN Count(s, m) ELSE 0
  BY <1>2, PutAdds
<1>4. ASSUME NEW p \in Pool, NEW m \in Mbuf, g[p][m] > 0 PROVE PoolOf[m] = p
  <2>1. f[p][m] \in Nat /\ Count(s, m) \in Nat
    BY CountIs DEF Copies
  <2>2. CASE f[p][m] > 0
    BY <2>2 DEF AtHome
  <2>3. CASE f[p][m] = 0
    <3>1. p = q /\ Count(s, m) # 0
      BY <1>3, <1>4, <2>1, <2>3
    <3>2. PICK i \in 1 .. Len(s) : s[i] = m
      BY <3>1, CountIs
    <3>3. i \in DOMAIN s
      BY LenProperties
    <3>4. PoolOf[s[i]] = PoolOf[s[1]]
      BY <3>3 DEF Mixed
    <3> QED
      BY <1>1, <3>1, <3>2, <3>4
  <2> QED
    BY <2>1, <2>2, <2>3
<1>5. AtHome(g)
  BY <1>4 DEF AtHome
<1> QED
  BY <1>1, <1>2, <1>5

\* Freed one by one, mbufs go to their own pools.
LEMMA FreedHome ==
  ASSUME NEW f \in [Pool -> Copies], NEW s \in Seq(Mbuf), AtHome(f)
  PROVE  AtHome(Freed(f, s))
<1>1. PICK g : g = Freed(f, s)
  OBVIOUS
<1>2. \A p \in Pool, m \in Mbuf : g[p][m] = f[p][m] + IF PoolOf[m] = p THEN Count(s, m) ELSE 0
  BY <1>1, FreedAdds
<1>3. ASSUME NEW p \in Pool, NEW m \in Mbuf, g[p][m] > 0, PoolOf[m] # p PROVE FALSE
  <2>1. f[p][m] \in Nat
    BY DEF Copies
  <2>2. g[p][m] = f[p][m]
    BY <1>2, <1>3, <2>1
  <2> QED
    BY <1>3, <2>2 DEF AtHome
<1>4. AtHome(g)
  BY <1>3 DEF AtHome
<1> QED
  BY <1>1, <1>4

\* So do those the driver releases, unless its fast release gets mbufs of
\* several pools.
LEMMA ReclaimedHome ==
  ASSUME NEW f \in [Pool -> Copies], NEW s \in Seq(Mbuf), AtHome(f), ~(fast /\ Mixed(s))
  PROVE  AtHome(Reclaimed(f, s))
<1>1. CASE fast /\ s # <<>>
  <2>1. s[1] \in Mbuf
    BY <1>1, EmptySeq, ElementOfSeq
  <2>2. Reclaimed(f, s) = PutInto(f, PoolOf[s[1]], s)
    BY <1>1 DEF Reclaimed, PutInto
  <2> QED
    BY <1>1, <2>1, <2>2, PutHome
<1>2. CASE ~(fast /\ s # <<>>)
  BY <1>2, FreedHome DEF Reclaimed
<1> QED
  BY <1>1, <1>2

\* Pools that only lose mbufs.
LEMMA TakenHome ==
  ASSUME NEW f \in [Pool -> Copies], NEW q \in Pool, NEW s \in Seq(Mbuf), AtHome(f),
         \A m \in Mbuf : Count(s, m) <= f[q][m]
  PROVE  AtHome(TakeFrom(f, q, s))
<1>1. PICK g : g = TakeFrom(f, q, s)
  OBVIOUS
<1>2. g \in [Pool -> Copies] /\ \A p \in Pool, m \in Mbuf : g[p][m] <= f[p][m]
  BY <1>1, TakenFrom
<1>3. \A p \in Pool, m \in Mbuf : g[p][m] \in Nat /\ f[p][m] \in Nat
  BY <1>2 DEF Copies
<1>4. AtHome(g)
  BY <1>2, <1>3 DEF AtHome
<1> QED
  BY <1>1, <1>4

\* Every call keeps free mbufs in their pools until it frees a mixed batch.
LEMMA HomeStep ==
  ASSUME Types, HomeUnlessMixed, [Next]_vars
  PROVE  HomeUnlessMixed'
<1> SUFFICES ASSUME ~mixed' PROVE AtHome(free')
  BY DEF HomeUnlessMixed, AtHome
<1>1. /\ free \in [Pool -> Copies] /\ app \in Copies /\ BatchMax \in Nat /\ RxPool \in Pool
  BY LifecycleAssumption DEF TypeOK, Types
<1>2. ASSUME ~mixed PROVE AtHome(free)
  BY <1>2 DEF HomeUnlessMixed, AtHome
<1>3. CASE AllocBulk
  <2>1. PICK p \in Pool : \E s \in Batches(free[p], BatchMax) : free' = TakeFrom(free, p, s)
    BY <1>3 DEF AllocBulk, TakeFrom
  <2>2. PICK s \in Batches(free[p], BatchMax) : free' = TakeFrom(free, p, s)
    BY <2>1
  <2>3. s \in Seq(Mbuf) /\ \A m \in Mbuf : Count(s, m) <= free[p][m]
    BY <1>1, BatchIs
  <2>4. ~mixed
    BY <1>3 DEF AllocBulk
  <2> QED
    BY <1>1, <1>2, <2>2, <2>3, <2>4, TakenHome
<1>4. CASE FreeBulk
  <2>1. PICK s \in Batches(app, BatchMax) : free' = BulkFreed(free, s) /\ mixed' = (mixed \/ Mixed(s))
    BY <1>4 DEF FreeBulk
  <2>2. s \in Seq(Mbuf) /\ s[1] \in Mbuf
    BY <1>1, BatchIs
  <2>3. ~mixed /\ ~Mixed(s)
    BY <2>1
  <2> QED
    BY <1>1, <1>2, <2>1, <2>2, <2>3, BulkFreedIs, PutHome
<1>5. CASE Send
  <2>1. PICK s, done, n, old : Sent(s, done, n, old)
    BY <1>5, SendIs
  <2>2. /\ s \in Seq(Mbuf) /\ s[1] \in Mbuf /\ old \in Seq(Mbuf)
        /\ free' = Returned(Reclaimed(free, old), s, n)
        /\ mixed' = (mixed \/ (n < Len(s) /\ Mixed(s)) \/ (fast /\ Mixed(old)))
    BY <2>1 DEF Sent
  <2>3. ~mixed /\ ~(n < Len(s) /\ Mixed(s)) /\ ~(fast /\ Mixed(old))
    BY <2>2
  <2>4. PICK r : r = Reclaimed(free, old)
    OBVIOUS
  <2>5. r \in [Pool -> Copies] /\ AtHome(r)
    BY <1>1, <1>2, <2>2, <2>3, <2>4, ReclaimedAdds, ReclaimedHome
  <2>6. CASE n < Len(s)
    BY <2>2, <2>3, <2>4, <2>5, <2>6, BulkFreedIs, PutHome DEF Returned
  <2>7. CASE ~(n < Len(s))
    BY <2>2, <2>4, <2>5, <2>7 DEF Returned
  <2> QED
    BY <2>6, <2>7
<1>6. ASSUME NEW m \in Mbuf, Drop(m) PROVE AtHome(free')
  <2>1. PICK s \in Seq(Mbuf) : s = <<m>>
    BY CountOne
  <2>2. ~mixed /\ free' = Freed(free, s)
    BY <1>6, <2>1 DEF Drop
  <2> QED
    BY <1>1, <1>2, <2>2, FreedHome
<1>7. ASSUME NEW m \in Mbuf, NEW d \in Data, Receive(m, d) PROVE AtHome(free')
  <2>1. PICK s \in Seq(Mbuf) : s = <<m>> /\ \A x : Count(s, x) = IF x = m THEN 1 ELSE 0
    BY CountOne
  <2>2. \A x \in Mbuf : Count(s, x) <= free[RxPool][x]
    BY <1>1, <1>7, <2>1 DEF Receive, Copies
  <2>3. ~mixed /\ free' = TakeFrom(free, RxPool, s)
    BY <1>7, <2>1 DEF Receive, TakeFrom
  <2> QED
    BY <1>1, <1>2, <2>2, <2>3, TakenHome
<1>8. CASE UNCHANGED <<free, mixed>>
  BY <1>2, <1>8
<1>9. (\E m \in Mbuf, d \in Data : Write(m, d)) \/ UNCHANGED vars => UNCHANGED <<free, mixed>>
  BY DEF Write, vars
<1> QED
  BY <1>3, <1>4, <1>5, <1>6, <1>7, <1>8, <1>9 DEF Next

\* Only a batch with mbufs of several pools, in mbuf_free_bulk or in a driver's
\* fast release, ever puts an mbuf into a pool it does not belong to.
THEOREM FreeMbufsAtHome == Spec => []HomeUnlessMixed
<1>1. Init => HomeUnlessMixed
  BY DEF Init, HomeUnlessMixed
<1>2. Types /\ HomeUnlessMixed /\ [Next]_vars => HomeUnlessMixed'
  BY HomeStep
<1>3. OwnersInv => Types
  BY DEF OwnersInv
<1> QED
  BY <1>1, <1>2, <1>3, OwnersAlways, PTL DEF Spec
=============================================================================
