---------------------------- MODULE QueueLemmas ----------------------------
(***************************************************************************)
(* What Append, Head, Tail, SubSeq, \o and RemoveFirst do to a queue: its  *)
(* length, its entries, the set of mbufs it holds, and whether it holds    *)
(* one twice.  The proofs about the components rest on these lemmas.       *)
(***************************************************************************)
EXTENDS SequencesExt, SequenceTheorems, FiniteSetTheorems, TLAPS

-----------------------------------------------------------------------------
(* Queues as sets of mbufs. *)

\* A queue's Range, by index.
LEMMA SeqRange ==
  ASSUME NEW S, NEW q \in Seq(S)
  PROVE  /\ Range(q) = {q[i] : i \in 1 .. Len(q)}
         /\ Range(q) \subseteq S
         /\ DOMAIN q = 1 .. Len(q)
BY LenProperties DEF Range

\* The empty Vec, VecDeque or ring holds no mbuf.
LEMMA EmptyQueue == Range(<<>>) = {} /\ IsInjective(<<>>)
BY DEF Range, IsInjective

\* Pushing an mbuf the queue does not hold adds that mbuf.
LEMMA AppendQueue ==
  ASSUME NEW S, NEW q \in Seq(S), NEW x \in S
  PROVE  /\ Append(q, x) \in Seq(S)
         /\ Len(Append(q, x)) = Len(q) + 1
         /\ Range(Append(q, x)) = Range(q) \cup {x}
         /\ IsInjective(q) /\ x \notin Range(q) => IsInjective(Append(q, x))
<1> DEFINE r == Append(q, x)
<1>1. /\ r \in Seq(S)
      /\ Len(r) = Len(q) + 1
      /\ \A i \in 1 .. Len(q) : r[i] = q[i]
      /\ r[Len(q) + 1] = x
  BY AppendProperties
<1>2. Len(q) \in Nat
  BY LenProperties
<1>3. /\ Range(q) = {q[i] : i \in 1 .. Len(q)} /\ DOMAIN q = 1 .. Len(q)
      /\ Range(r) = {r[i] : i \in 1 .. Len(r)} /\ DOMAIN r = 1 .. Len(r)
  BY <1>1, SeqRange
<1> HIDE DEF r
<1>4. Range(r) = Range(q) \cup {x}
  BY <1>1, <1>2, <1>3
<1>5. IsInjective(q) /\ x \notin Range(q) => IsInjective(r)
  BY <1>1, <1>2, <1>3 DEF IsInjective
<1> QED
  BY <1>1, <1>4, <1>5 DEF r

\* Popping the front removes exactly the head.
LEMMA TailQueue ==
  ASSUME NEW S, NEW q \in Seq(S), q # <<>>
  PROVE  /\ Tail(q) \in Seq(S)
         /\ Len(q) \in Nat \ {0} /\ Len(Tail(q)) = Len(q) - 1
         /\ Head(q) \in S /\ Head(q) \in Range(q)
         /\ IsInjective(q) => /\ IsInjective(Tail(q))
                              /\ Range(Tail(q)) = Range(q) \ {Head(q)}
<1> DEFINE r == Tail(q)
<1>1. /\ r \in Seq(S) /\ Len(r) = Len(q) - 1
      /\ Head(q) \in S
      /\ \A i \in 1 .. Len(r) : r[i] = q[i + 1]
  BY HeadTailProperties
<1>2. Len(q) \in Nat \ {0}
  BY EmptySeq
<1>3. /\ Range(q) = {q[i] : i \in 1 .. Len(q)} /\ DOMAIN q = 1 .. Len(q)
      /\ Range(r) = {r[i] : i \in 1 .. Len(r)} /\ DOMAIN r = 1 .. Len(r)
  BY <1>1, SeqRange
<1>4. Head(q) = q[1]
  BY <1>2
<1> HIDE DEF r
<1>5. Head(q) \in Range(q)
  BY <1>2, <1>3, <1>4
<1>6. ASSUME IsInjective(q)
      PROVE  IsInjective(r) /\ Range(r) = Range(q) \ {Head(q)}
  <2>1. IsInjective(r)
    <3>1. SUFFICES ASSUME NEW a \in 1 .. Len(r), NEW b \in 1 .. Len(r), r[a] = r[b]
                   PROVE  a = b
      BY <1>3 DEF IsInjective
    <3>2. a + 1 \in DOMAIN q /\ b + 1 \in DOMAIN q /\ q[a + 1] = q[b + 1]
      BY <1>1, <1>2, <1>3, <3>1
    <3> QED
      BY <1>1, <1>2, <1>6, <3>2 DEF IsInjective
  <2>2. Range(r) \subseteq Range(q) \ {Head(q)}
    BY <1>1, <1>2, <1>3, <1>4, <1>6 DEF IsInjective
  <2>3. ASSUME NEW x \in Range(q) \ {Head(q)} PROVE x \in Range(r)
    <3>1. PICK i \in 1 .. Len(q) : x = q[i]
      BY <1>3, <2>3
    <3>2. i - 1 \in 1 .. Len(r) /\ (i - 1) + 1 = i
      BY <1>1, <1>2, <1>4, <2>3, <3>1
    <3> QED
      BY <1>1, <1>3, <3>1, <3>2
  <2> QED
    BY <2>1, <2>2, <2>3
<1> QED
  BY <1>1, <1>2, <1>5, <1>6 DEF r

\* What is left after a burst of k was taken from the front.
LEMMA SuffixQueue ==
  ASSUME NEW S, NEW q \in Seq(S), NEW k \in 0 .. Len(q)
  PROVE  /\ SubSeq(q, k + 1, Len(q)) \in Seq(S)
         /\ Len(SubSeq(q, k + 1, Len(q))) = Len(q) - k
         /\ Range(SubSeq(q, k + 1, Len(q))) \subseteq Range(q)
         /\ IsInjective(q) => IsInjective(SubSeq(q, k + 1, Len(q)))
<1> DEFINE r == SubSeq(q, k + 1, Len(q))
<1>1. Len(q) \in Nat /\ \A i \in (k + 1) .. Len(q) : q[i] \in S
  BY LenProperties
<1>2. /\ r \in Seq(S)
      /\ Len(r) = Len(q) - k
      /\ \A i \in 1 .. Len(q) - k : r[i] = q[k + i]
  BY <1>1, SubSeqProperties
<1> HIDE DEF r
<1>3. /\ Range(q) = {q[i] : i \in 1 .. Len(q)} /\ DOMAIN q = 1 .. Len(q)
      /\ Range(r) = {r[i] : i \in 1 .. Len(r)} /\ DOMAIN r = 1 .. Len(r)
  BY <1>2, SeqRange
<1>4. Range(r) \subseteq Range(q)
  BY <1>1, <1>2, <1>3
<1>5. ASSUME IsInjective(q) PROVE IsInjective(r)
  <2>1. SUFFICES ASSUME NEW a \in 1 .. Len(r), NEW b \in 1 .. Len(r), r[a] = r[b]
                 PROVE  a = b
    BY <1>3 DEF IsInjective
  <2>2. k + a \in DOMAIN q /\ k + b \in DOMAIN q /\ q[k + a] = q[k + b]
    BY <1>1, <1>2, <1>3, <2>1
  <2>3. k + a = k + b
    BY <1>5, <2>2 DEF IsInjective
  <2> QED
    BY <1>1, <1>2, <2>3
<1> QED
  BY <1>2, <1>4, <1>5 DEF r

\* A burst that was taken is not in what is left.
LEMMA PrefixGone ==
  ASSUME NEW S, NEW q \in Seq(S), NEW k \in 0 .. Len(q), IsInjective(q)
  PROVE  /\ {q[i] : i \in 1 .. k} \subseteq Range(q)
         /\ {q[i] : i \in 1 .. k} \cap Range(SubSeq(q, k + 1, Len(q))) = {}
<1> DEFINE r == SubSeq(q, k + 1, Len(q))
<1>1. Len(q) \in Nat /\ \A i \in (k + 1) .. Len(q) : q[i] \in S
  BY LenProperties
<1>2. /\ r \in Seq(S) /\ Len(r) = Len(q) - k
      /\ \A i \in 1 .. Len(q) - k : r[i] = q[k + i]
  BY <1>1, SubSeqProperties
<1> HIDE DEF r
<1>3. Range(q) = {q[i] : i \in 1 .. Len(q)} /\ Range(r) = {r[i] : i \in 1 .. Len(r)}
  BY <1>2, SeqRange
<1>4. ASSUME NEW i \in 1 .. k, NEW j \in 1 .. Len(r) PROVE q[i] # r[j]
  <2>1. i \in 1 .. Len(q) /\ k + j \in 1 .. Len(q) /\ i # k + j /\ r[j] = q[k + j]
    BY <1>1, <1>2
  <2>2. DOMAIN q = 1 .. Len(q)
    BY SeqRange
  <2> QED
    BY <2>1, <2>2 DEF IsInjective
<1>5. {q[i] : i \in 1 .. k} \subseteq Range(q)
  BY <1>1, <1>3
<1> QED
  BY <1>3, <1>4, <1>5 DEF r

\* Extending a queue by a Vec of other mbufs.
LEMMA ConcatQueue ==
  ASSUME NEW S, NEW q \in Seq(S), NEW r \in Seq(S)
  PROVE  /\ q \o r \in Seq(S)
         /\ Range(q \o r) = Range(q) \cup Range(r)
         /\ IsInjective(q) /\ IsInjective(r) /\ Range(q) \cap Range(r) = {} => IsInjective(q \o r)
<1> DEFINE s == q \o r
<1>1. /\ s \in Seq(S) /\ Len(s) = Len(q) + Len(r) /\ Range(s) = Range(q) \cup Range(r)
      /\ \A i \in 1 .. Len(q) + Len(r) :
           s[i] = IF i <= Len(q) THEN q[i] ELSE r[i - Len(q)]
  BY ConcatProperties, RangeConcatenation
<1>2. Len(q) \in Nat /\ Len(r) \in Nat
  BY LenProperties
<1>3. /\ Range(q) = {q[i] : i \in 1 .. Len(q)} /\ DOMAIN q = 1 .. Len(q)
      /\ Range(r) = {r[i] : i \in 1 .. Len(r)} /\ DOMAIN r = 1 .. Len(r)
      /\ DOMAIN s = 1 .. Len(q) + Len(r)
  BY <1>1, SeqRange
<1> HIDE DEF s
<1>4. ASSUME IsInjective(q), IsInjective(r), Range(q) \cap Range(r) = {},
             NEW a \in DOMAIN s, NEW b \in DOMAIN s, s[a] = s[b]
      PROVE  a = b
  <2>1. CASE a <= Len(q) /\ b <= Len(q)
    <3>1. a \in DOMAIN q /\ b \in DOMAIN q /\ q[a] = q[b]
      BY <1>1, <1>2, <1>3, <1>4, <2>1
    <3> QED
      BY <1>4, <3>1 DEF IsInjective
  <2>2. CASE Len(q) < a /\ Len(q) < b
    <3>1. /\ a - Len(q) \in DOMAIN r /\ b - Len(q) \in DOMAIN r
          /\ r[a - Len(q)] = r[b - Len(q)]
      BY <1>1, <1>2, <1>3, <1>4, <2>2
    <3>2. a - Len(q) = b - Len(q)
      BY <1>4, <3>1 DEF IsInjective
    <3> QED
      BY <1>2, <1>3, <3>2
  <2>3. ASSUME NEW c \in DOMAIN s, NEW d \in DOMAIN s, c <= Len(q), Len(q) < d
        PROVE  s[c] # s[d]
    <3>1. c \in 1 .. Len(q) /\ d - Len(q) \in 1 .. Len(r) /\ s[c] = q[c] /\ s[d] = r[d - Len(q)]
      BY <1>1, <1>2, <1>3, <2>3
    <3>2. q[c] \in Range(q) /\ r[d - Len(q)] \in Range(r)
      BY <1>3, <3>1
    <3> QED
      BY <1>4, <3>1, <3>2
  <2> QED
    BY <1>2, <1>3, <1>4, <2>1, <2>2, <2>3
<1>5. IsInjective(q) /\ IsInjective(r) /\ Range(q) \cap Range(r) = {} => IsInjective(s)
  BY <1>4 DEF IsInjective
<1> QED
  BY <1>1, <1>5 DEF s

-----------------------------------------------------------------------------
(* Least elements, and removal from a Vec. *)

\* The smallest of some numbers is one of them.
LEMMA MinOfNats ==
  ASSUME NEW S \in SUBSET Nat, S # {}
  PROVE  Min(S) \in S /\ \A n \in S : Min(S) <= n
<1> DEFINE less == {ss \in Nat \X Nat : ss[1] < ss[2]}
<1>1. IsWellFoundedOn(less, Nat)
  BY NatLessThanWellFounded DEF OpToRel
<1>2. PICK x \in S : \A y \in S : <<y, x>> \notin less
  BY <1>1, WFMin
<1>3. ASSUME NEW y \in S PROVE x =< y
  <2>1. y < x => <<y, x>> \in less
    OBVIOUS
  <2> QED
    BY <1>2, <2>1
<1> QED
  BY <1>3 DEF Min

\* The smaller of two numbers: a burst, and what a ring or a queue has room for.
LEMMA LesserOf ==
  ASSUME NEW a \in Nat, NEW b \in Nat
  PROVE  Min({a, b}) \in 0 .. a /\ Min({a, b}) \in 0 .. b
<1>1. {a, b} \in SUBSET Nat /\ {a, b} # {}
  OBVIOUS
<1>2. Min({a, b}) \in {a, b} /\ \A n \in {a, b} : Min({a, b}) <= n
  BY <1>1, MinOfNats
<1> QED
  BY <1>2

\* Vec::remove of the first entry that equals e: the entries behind it move up.
LEMMA RemoveFirstIs ==
  ASSUME NEW S, NEW s \in Seq(S), NEW e \in Range(s)
  PROVE  \E k \in 1 .. Len(s) :
           /\ s[k] = e
           /\ RemoveFirst(s, e) \in Seq(S)
           /\ Len(RemoveFirst(s, e)) = Len(s) - 1
           /\ \A i \in 1 .. Len(s) - 1 :
                RemoveFirst(s, e)[i] = IF i < k THEN s[i] ELSE s[i + 1]
<1> DEFINE I == {i \in 1 .. Len(s) : s[i] = e}
           k == Min(I)
           front == SubSeq(s, 1, k - 1)
           back == SubSeq(s, k + 1, Len(s))
<1>1. Len(s) \in Nat /\ \A i \in 1 .. Len(s) : s[i] \in S
  BY LenProperties
<1>2. I \in SUBSET Nat /\ I # {}
  BY <1>1, RangeEquality
<1>3. k \in I
  BY <1>2, MinOfNats
<1>4. RemoveFirst(s, e) = front \o back
  BY <1>2 DEF RemoveFirst, RemoveAt, SelectInSeq
<1> HIDE DEF k
<1>5. k \in 1 .. Len(s) /\ s[k] = e
  BY <1>3
<1>6. /\ front \in Seq(S) /\ Len(front) = k - 1
      /\ \A i \in 1 .. k - 1 : front[i] = s[i]
  <2>1. \A i \in 1 .. k - 1 : s[i] \in S
    BY <1>1, <1>5
  <2> QED
    BY <1>1, <1>5, <2>1, SubSeqProperties
<1>7. /\ back \in Seq(S) /\ Len(back) = Len(s) - k
      /\ \A i \in 1 .. Len(s) - k : back[i] = s[k + i]
  <2>1. \A i \in k + 1 .. Len(s) : s[i] \in S
    BY <1>1, <1>5
  <2> QED
    BY <1>1, <1>5, <2>1, SubSeqProperties
<1> HIDE DEF front, back
<1>8. /\ front \o back \in Seq(S)
      /\ Len(front \o back) = Len(s) - 1
      /\ \A i \in 1 .. Len(s) - 1 :
           (front \o back)[i] = IF i <= k - 1 THEN front[i] ELSE back[i - (k - 1)]
  <2>1. Len(front) + Len(back) = Len(s) - 1
    BY <1>1, <1>5, <1>6, <1>7
  <2>2. /\ front \o back \in Seq(S)
        /\ Len(front \o back) = Len(front) + Len(back)
        /\ \A i \in 1 .. Len(front) + Len(back) :
             (front \o back)[i] =
               IF i <= Len(front) THEN front[i] ELSE back[i - Len(front)]
    BY <1>6, <1>7, ConcatProperties
  <2> QED
    BY <1>6, <2>1, <2>2
<1>9. \A i \in 1 .. Len(s) - 1 :
        (front \o back)[i] = IF i < k THEN s[i] ELSE s[i + 1]
  <2> TAKE i \in 1 .. Len(s) - 1
  <2>1. CASE i < k
    BY <1>1, <1>5, <1>6, <1>8, <2>1
  <2>2. CASE ~(i < k)
    <3>1. i - (k - 1) \in 1 .. Len(s) - k /\ k + (i - (k - 1)) = i + 1
      BY <1>1, <1>5, <2>2
    <3> QED
      BY <1>1, <1>5, <1>7, <1>8, <2>2, <3>1
  <2> QED
    BY <2>1, <2>2
<1> QED
  BY <1>4, <1>5, <1>8, <1>9

\* It keeps every other entry.
LEMMA RemoveFirstKeeps ==
  ASSUME NEW S, NEW s \in Seq(S), NEW e \in Range(s)
  PROVE  RemoveFirst(s, e) \in Seq(S) /\ Range(s) \ {e} \subseteq Range(RemoveFirst(s, e))
<1>1. PICK k \in 1 .. Len(s) :
        /\ s[k] = e
        /\ RemoveFirst(s, e) \in Seq(S)
        /\ Len(RemoveFirst(s, e)) = Len(s) - 1
        /\ \A i \in 1 .. Len(s) - 1 :
             RemoveFirst(s, e)[i] = IF i < k THEN s[i] ELSE s[i + 1]
  BY RemoveFirstIs
<1> DEFINE r == RemoveFirst(s, e)
<1> HIDE DEF r
<1>2. /\ r \in Seq(S) /\ Len(r) = Len(s) - 1
      /\ \A i \in 1 .. Len(s) - 1 : r[i] = IF i < k THEN s[i] ELSE s[i + 1]
  BY <1>1 DEF r
<1>3. Len(s) \in Nat /\ Range(r) = {r[j] : j \in 1 .. Len(r)}
  BY <1>2, LenProperties, RangeEquality
<1>4. ASSUME NEW x \in Range(s), x # e PROVE x \in Range(r)
  <2>1. PICK i \in 1 .. Len(s) : x = s[i]
    BY RangeEquality
  <2>2. CASE i < k
    <3>1. i \in 1 .. Len(s) - 1 /\ r[i] = x
      BY <1>2, <1>3, <2>1, <2>2
    <3> QED
      BY <1>2, <1>3, <3>1
  <2>3. CASE i > k
    <3>1. i - 1 \in 1 .. Len(s) - 1 /\ ~(i - 1 < k) /\ (i - 1) + 1 = i
      BY <1>3, <2>3
    <3>2. r[i - 1] = x
      BY <1>2, <2>1, <3>1
    <3> QED
      BY <1>2, <1>3, <3>1, <3>2
  <2>4. i # k
    BY <1>1, <1>4, <2>1
  <2> QED
    BY <1>3, <2>2, <2>3, <2>4
<1> QED
  BY <1>2, <1>4 DEF r

-----------------------------------------------------------------------------
(* Counting. *)

\* The first k entries of a queue without duplicates are k mbufs.
LEMMA PrefixCount ==
  ASSUME NEW S, NEW q \in Seq(S), IsInjective(q), NEW k \in 0 .. Len(q)
  PROVE  IsFiniteSet({q[i] : i \in 1 .. k}) /\ Cardinality({q[i] : i \in 1 .. k}) = k
<1> DEFINE D == {q[i] : i \in 1 .. k}
           f == [i \in 1 .. k |-> q[i]]
<1>1. Len(q) \in Nat /\ DOMAIN q = 1 .. Len(q) /\ k \in Nat
  BY LenProperties
<1>2. f \in [1 .. k -> D]
  OBVIOUS
<1>3. \A a, b \in 1 .. k : f[a] = f[b] => a = b
  BY <1>1 DEF IsInjective
<1>4. \A d \in D : \E i \in 1 .. k : f[i] = d
  OBVIOUS
<1>5. f \in Bijection(1 .. k, D)
  BY <1>2, <1>3, <1>4 DEF Bijection, Injection, Surjection, IsInjective
<1>6. ExistsBijection(1 .. k, D)
  BY <1>5 DEF ExistsBijection
<1> HIDE DEF D
<1>7. Cardinality(D) = k /\ IsFiniteSet(D)
  BY <1>1, <1>6, FS_CountingElements, FS_NatBijection
<1> QED
  BY <1>7 DEF D

-----------------------------------------------------------------------------
(* Order. *)

\* The entries of a queue come in the order of their numbers.
Rising(q, f) == \A i, j \in 1 .. Len(q) : i < j => f[q[i]] < f[q[j]]

\* All entries of one queue come before all of another.
Precedes(q, r, f) == \A x \in Range(q), y \in Range(r) : f[x] < f[y]

\* A larger number at the back keeps a queue in order.
LEMMA RisingAppend ==
  ASSUME NEW S, NEW q \in Seq(S), NEW x \in S, NEW f,
         Rising(q, f), \A y \in Range(q) : f[y] < f[x]
  PROVE  Rising(Append(q, x), f)
<1> DEFINE r == Append(q, x)
<1>1. /\ Len(r) = Len(q) + 1 /\ r[Len(q) + 1] = x
      /\ \A i \in 1 .. Len(q) : r[i] = q[i] /\ q[i] \in Range(q)
  BY AppendProperties, RangeEquality
<1>2. Len(q) \in Nat
  BY LenProperties
<1> HIDE DEF r
<1> SUFFICES ASSUME NEW i \in 1 .. Len(r), NEW j \in 1 .. Len(r), i < j
             PROVE  f[r[i]] < f[r[j]]
  BY DEF Rising, r
<1>3. i \in 1 .. Len(q)
  BY <1>1, <1>2
<1>4. CASE j \in 1 .. Len(q)
  BY <1>1, <1>3, <1>4 DEF Rising
<1>5. CASE j = Len(q) + 1
  BY <1>1, <1>3, <1>5
<1> QED
  BY <1>1, <1>2, <1>4, <1>5

\* Popping the front keeps the order, and the head was the smallest.
LEMMA RisingTail ==
  ASSUME NEW S, NEW q \in Seq(S), q # <<>>, NEW f, Rising(q, f)
  PROVE  /\ Rising(Tail(q), f)
         /\ \A y \in Range(Tail(q)) : f[Head(q)] < f[y]
         /\ Range(Tail(q)) \subseteq Range(q) /\ Head(q) \in Range(q)
<1> DEFINE r == Tail(q)
<1>1. /\ r \in Seq(S) /\ Len(r) = Len(q) - 1 /\ Head(q) = q[1]
      /\ \A i \in 1 .. Len(r) : r[i] = q[i + 1]
  BY HeadTailProperties
<1>2. Len(q) \in Nat \ {0}
  BY EmptySeq
<1>3. Range(r) = {r[i] : i \in 1 .. Len(r)} /\ Range(q) = {q[i] : i \in 1 .. Len(q)}
  BY <1>1, RangeEquality, ZenonT(60)
<1> HIDE DEF r
<1>4. Rising(r, f)
  <2> SUFFICES ASSUME NEW i \in 1 .. Len(r), NEW j \in 1 .. Len(r), i < j
               PROVE  f[r[i]] < f[r[j]]
    BY DEF Rising
  <2>1. i + 1 \in 1 .. Len(q) /\ j + 1 \in 1 .. Len(q) /\ i + 1 < j + 1
    BY <1>1, <1>2
  <2> QED
    BY <1>1, <2>1 DEF Rising
<1>5. ASSUME NEW i \in 1 .. Len(r)
      PROVE  f[Head(q)] < f[r[i]] /\ r[i] \in Range(q)
  <2>1. i + 1 \in 1 .. Len(q) /\ 1 \in 1 .. Len(q) /\ 1 < i + 1
    BY <1>1, <1>2
  <2> QED
    BY <1>1, <1>3, <2>1 DEF Rising
<1>6. Head(q) \in Range(q)
  BY <1>1, <1>2, <1>3
<1> QED
  BY <1>3, <1>4, <1>5, <1>6 DEF r

\* What a burst leaves behind is still in order.
LEMMA RisingSuffix ==
  ASSUME NEW S, NEW q \in Seq(S), NEW k \in 0 .. Len(q), NEW f, Rising(q, f)
  PROVE  Rising(SubSeq(q, k + 1, Len(q)), f)
<1> DEFINE r == SubSeq(q, k + 1, Len(q))
<1>1. Len(q) \in Nat /\ \A i \in (k + 1) .. Len(q) : q[i] \in S
  BY LenProperties
<1>2. /\ Len(r) = Len(q) - k
      /\ \A i \in 1 .. Len(q) - k : r[i] = q[k + i]
  BY <1>1, SubSeqProperties
<1> HIDE DEF r
<1> SUFFICES ASSUME NEW i \in 1 .. Len(r), NEW j \in 1 .. Len(r), i < j
             PROVE  f[r[i]] < f[r[j]]
  BY DEF Rising, r
<1>3. k + i \in 1 .. Len(q) /\ k + j \in 1 .. Len(q) /\ k + i < k + j
  BY <1>1, <1>2
<1> QED
  BY <1>2, <1>3 DEF Rising

\* Only the numbers of the queue's own entries matter.
LEMMA RisingSame ==
  ASSUME NEW S, NEW q \in Seq(S), NEW f, NEW g, Rising(q, f),
         \A y \in Range(q) : g[y] = f[y]
  PROVE  Rising(q, g)
BY RangeEquality DEF Rising

\* Two queues in order, the first all before the second, are in order together.
LEMMA RisingConcat ==
  ASSUME NEW S, NEW q \in Seq(S), NEW r \in Seq(S), NEW f,
         Rising(q, f), Rising(r, f), Precedes(q, r, f)
  PROVE  Rising(q \o r, f)
<1> DEFINE s == q \o r
<1>1. /\ Len(s) = Len(q) + Len(r)
      /\ \A i \in 1 .. Len(q) + Len(r) :
           s[i] = IF i <= Len(q) THEN q[i] ELSE r[i - Len(q)]
  BY ConcatProperties
<1>2. Len(q) \in Nat /\ Len(r) \in Nat
  BY LenProperties
<1>3. Range(q) = {q[i] : i \in 1 .. Len(q)} /\ Range(r) = {r[i] : i \in 1 .. Len(r)}
  BY RangeEquality
<1> HIDE DEF s
<1> SUFFICES ASSUME NEW i \in 1 .. Len(s), NEW j \in 1 .. Len(s), i < j
             PROVE  f[s[i]] < f[s[j]]
  BY DEF Rising, s
<1>4. CASE j <= Len(q)
  <2>1. i \in 1 .. Len(q) /\ j \in 1 .. Len(q) /\ s[i] = q[i] /\ s[j] = q[j]
    BY <1>1, <1>2, <1>4
  <2> QED
    BY <2>1 DEF Rising
<1>5. CASE i <= Len(q) /\ Len(q) < j
  <2>1. i \in 1 .. Len(q) /\ j - Len(q) \in 1 .. Len(r) /\ s[i] = q[i] /\ s[j] = r[j - Len(q)]
    BY <1>1, <1>2, <1>5
  <2> QED
    BY <1>3, <2>1 DEF Precedes
<1>6. CASE Len(q) < i
  <2>1. /\ i - Len(q) \in 1 .. Len(r) /\ j - Len(q) \in 1 .. Len(r) /\ i - Len(q) < j - Len(q)
        /\ s[i] = r[i - Len(q)] /\ s[j] = r[j - Len(q)]
    BY <1>1, <1>2, <1>6
  <2> QED
    BY <2>1 DEF Rising
<1> QED
  BY <1>1, <1>2, <1>4, <1>5, <1>6
=============================================================================
