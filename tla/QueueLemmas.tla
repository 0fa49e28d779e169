----------------------------- MODULE QueueLemmas -----------------------------
(***************************************************************************)
(* What the operations on a run queue bank do to the set of tasks it holds *)
(* and to their uniqueness in it.                                          *)
(***************************************************************************)
EXTENDS SequencesExt, FiniteSetTheorems, SequenceTheorems, TLAPS

\* Queueing a task adds it, once.
LEMMA AppendRange ==
    ASSUME NEW S, NEW s \in Seq(S), NEW e \in S
    PROVE  /\ Append(s, e) \in Seq(S)
           /\ Range(Append(s, e)) = Range(s) \cup {e}
           /\ IsInjective(s) /\ e \notin Range(s) => IsInjective(Append(s, e))
<1>1. /\ Append(s, e) \in Seq(S)
      /\ Len(Append(s, e)) = Len(s) + 1
      /\ \A i \in 1 .. Len(s) : Append(s, e)[i] = s[i]
      /\ Append(s, e)[Len(s) + 1] = e
  OBVIOUS
<1>2. DOMAIN s = 1 .. Len(s) /\ DOMAIN Append(s, e) = 1 .. Len(s) + 1 /\ Len(s) \in Nat
  BY <1>1, LenProperties
<1>3. \A x : x \in Range(Append(s, e)) <=> x \in Range(s) \/ x = e
  <2>1. ASSUME NEW x, x \in Range(Append(s, e)) PROVE x \in Range(s) \/ x = e
    BY <1>1, <1>2, <2>1 DEF Range
  <2>2. ASSUME NEW x \in Range(s) PROVE x \in Range(Append(s, e))
    BY <1>1, <1>2 DEF Range
  <2>3. e \in Range(Append(s, e))
    BY <1>1, <1>2 DEF Range
  <2> QED BY <2>1, <2>2, <2>3
<1>4. ASSUME IsInjective(s), e \notin Range(s) PROVE IsInjective(Append(s, e))
  BY <1>1, <1>2, <1>4 DEF IsInjective, Range
<1> QED BY <1>1, <1>3, <1>4

\* Taking the task at one position removes that task only.
LEMMA RemoveAtRange ==
    ASSUME NEW S, NEW s \in Seq(S), NEW i \in DOMAIN s
    PROVE  /\ RemoveAt(s, i) \in Seq(S)
           /\ s[i] \in S
           /\ IsInjective(s) => /\ Range(RemoveAt(s, i)) = Range(s) \ {s[i]}
                               /\ IsInjective(RemoveAt(s, i))
<1> DEFINE r == RemoveAt(s, i)
           n == Len(s)
<1>1. n \in Nat /\ DOMAIN s = 1 .. n /\ i \in 1 .. n /\ \A j \in 1 .. n : s[j] \in S
  BY LenProperties, ElementOfSeq
<1>2. /\ SubSeq(s, 1, i - 1) \in Seq(S) /\ Len(SubSeq(s, 1, i - 1)) = i - 1
      /\ \A j \in 1 .. i - 1 : SubSeq(s, 1, i - 1)[j] = s[j]
  <2>1. 1 \in Int /\ i - 1 \in Int /\ \A j \in 1 .. i - 1 : s[j] \in S
    BY <1>1
  <2>2. /\ SubSeq(s, 1, i - 1) \in Seq(S)
        /\ Len(SubSeq(s, 1, i - 1)) = IF 1 <= i - 1 THEN i - 1 - 1 + 1 ELSE 0
        /\ \A j \in 1 .. i - 1 - 1 + 1 : SubSeq(s, 1, i - 1)[j] = s[1 + j - 1]
    BY <2>1, SubSeqProperties
  <2> QED BY <1>1, <2>2
<1>3. /\ SubSeq(s, i + 1, n) \in Seq(S) /\ Len(SubSeq(s, i + 1, n)) = n - i
      /\ \A j \in 1 .. n - i : SubSeq(s, i + 1, n)[j] = s[i + j]
  <2>1. i + 1 \in Int /\ n \in Int /\ \A j \in i + 1 .. n : s[j] \in S
    BY <1>1
  <2>2. /\ SubSeq(s, i + 1, n) \in Seq(S)
        /\ Len(SubSeq(s, i + 1, n)) = IF i + 1 <= n THEN n - (i + 1) + 1 ELSE 0
        /\ \A j \in 1 .. n - (i + 1) + 1 : SubSeq(s, i + 1, n)[j] = s[i + 1 + j - 1]
    BY <2>1, SubSeqProperties
  <2>3. n - (i + 1) + 1 = n - i /\ \A j \in 1 .. n - i : i + 1 + j - 1 = i + j
    BY <1>1
  <2>4. (IF i + 1 <= n THEN n - (i + 1) + 1 ELSE 0) = n - i
    BY <1>1
  <2> QED BY <2>2, <2>3, <2>4
<1>4. /\ r \in Seq(S) /\ Len(r) = n - 1
      /\ \A j \in 1 .. n - 1 : r[j] = IF j <= i - 1 THEN s[j] ELSE s[j + 1]
  <2>1. /\ r \in Seq(S) /\ Len(r) = (i - 1) + (n - i)
        /\ \A j \in 1 .. (i - 1) + (n - i) : r[j] =
             IF j <= i - 1 THEN SubSeq(s, 1, i - 1)[j] ELSE SubSeq(s, i + 1, n)[j - (i - 1)]
    <3> DEFINE front == SubSeq(s, 1, i - 1)
               back == SubSeq(s, i + 1, n)
    <3>1. front \in Seq(S) /\ back \in Seq(S) /\ Len(front) = i - 1 /\ Len(back) = n - i
      BY <1>2, <1>3
    <3>2. r = front \o back
      BY DEF RemoveAt
    <3> HIDE DEF front, back, r
    <3>3. /\ front \o back \in Seq(S)
          /\ Len(front \o back) = Len(front) + Len(back)
          /\ \A j \in 1 .. Len(front) + Len(back) : (front \o back)[j] =
               IF j <= Len(front) THEN front[j] ELSE back[j - Len(front)]
      BY <3>1, ConcatProperties
    <3>4. /\ r \in Seq(S) /\ Len(r) = (i - 1) + (n - i)
          /\ \A j \in 1 .. (i - 1) + (n - i) : r[j] =
               IF j <= i - 1 THEN front[j] ELSE back[j - (i - 1)]
      BY <3>1, <3>2, <3>3
    <3> QED BY <3>4 DEF front, back, r
  <2>2. (i - 1) + (n - i) = n - 1
    BY <1>1
  <2>3. ASSUME NEW j \in 1 .. n - 1, ~(j <= i - 1)
        PROVE  SubSeq(s, i + 1, n)[j - (i - 1)] = s[j + 1]
    <3>1. j - (i - 1) \in 1 .. n - i /\ i + (j - (i - 1)) = j + 1
      BY <1>1, <2>3
    <3> QED BY <3>1, <1>3
  <2>4. \A j \in 1 .. n - 1 : j <= i - 1 => j \in 1 .. i - 1
    BY <1>1
  <2> QED BY <2>1, <2>2, <2>3, <2>4, <1>2
<1>5. DOMAIN r = 1 .. n - 1
  BY <1>4, LenProperties
<1> HIDE DEF r, n
<1>6. ASSUME NEW j \in 1 .. n - 1 PROVE \E k \in 1 .. n : k # i /\ r[j] = s[k]
  BY <1>1, <1>4
<1>7. ASSUME NEW k \in 1 .. n, k # i PROVE \E j \in 1 .. n - 1 : r[j] = s[k]
  <2>1. CASE k < i
    <3>1. k \in 1 .. n - 1 /\ k <= i - 1
      BY <1>1, <2>1
    <3> QED BY <3>1, <1>4
  <2>2. CASE k > i
    <3>1. k - 1 \in 1 .. n - 1 /\ ~(k - 1 <= i - 1) /\ (k - 1) + 1 = k
      BY <1>1, <2>2
    <3> QED BY <3>1, <1>4
  <2> QED BY <1>1, <1>7, <2>1, <2>2
<1>8. IsInjective(s) => \A j, k \in 1 .. n : s[j] = s[k] => j = k
  BY <1>1 DEF IsInjective
<1>9. ASSUME IsInjective(s) PROVE Range(r) = Range(s) \ {s[i]}
  <2>1. ASSUME NEW x \in Range(r) PROVE x \in Range(s) \ {s[i]}
    BY <1>1, <1>5, <1>6, <1>8, <1>9 DEF Range
  <2>2. ASSUME NEW x \in Range(s) \ {s[i]} PROVE x \in Range(r)
    BY <1>1, <1>5, <1>7 DEF Range
  <2> QED BY <2>1, <2>2
<1>10. ASSUME IsInjective(s) PROVE IsInjective(r)
  BY <1>1, <1>4, <1>5, <1>8, <1>10 DEF IsInjective
<1> QED BY <1>1, <1>4, <1>9, <1>10 DEF r

\* Queueing several tasks in a row adds just these.
LEMMA ConcatRange ==
    ASSUME NEW S, NEW s \in Seq(S), NEW t \in Seq(S)
    PROVE  /\ s \o t \in Seq(S)
           /\ Range(s \o t) = Range(s) \cup Range(t)
           /\ IsInjective(s) /\ IsInjective(t) /\ Range(s) \cap Range(t) = {}
                => IsInjective(s \o t)
<1>1. /\ s \o t \in Seq(S)
      /\ Len(s \o t) = Len(s) + Len(t)
      /\ \A i \in 1 .. Len(s) + Len(t) : (s \o t)[i] =
           IF i <= Len(s) THEN s[i] ELSE t[i - Len(s)]
  BY ConcatProperties
<1>2. /\ Len(s) \in Nat /\ Len(t) \in Nat
      /\ DOMAIN s = 1 .. Len(s) /\ DOMAIN t = 1 .. Len(t)
      /\ DOMAIN (s \o t) = 1 .. Len(s) + Len(t)
  BY <1>1, LenProperties
<1>3. ASSUME NEW j \in 1 .. Len(t) PROVE (s \o t)[j + Len(s)] = t[j] /\ j + Len(s) \in 1 .. Len(s) + Len(t)
  <2>1. j + Len(s) \in 1 .. Len(s) + Len(t) /\ ~(j + Len(s) <= Len(s)) /\ (j + Len(s)) - Len(s) = j
    BY <1>2
  <2> QED BY <1>1, <2>1
<1>4. ASSUME NEW i \in 1 .. Len(s) + Len(t), ~(i <= Len(s))
      PROVE  (s \o t)[i] = t[i - Len(s)] /\ i - Len(s) \in 1 .. Len(t)
  BY <1>1, <1>2, <1>4
<1>5. ASSUME NEW i \in 1 .. Len(s) PROVE (s \o t)[i] = s[i] /\ i \in 1 .. Len(s) + Len(t)
  BY <1>1, <1>2
<1>6. Range(s \o t) = Range(s) \cup Range(t)
  <2>1. ASSUME NEW x \in Range(s \o t) PROVE x \in Range(s) \cup Range(t)
    <3>1. PICK i \in 1 .. Len(s) + Len(t) : x = (s \o t)[i]
      BY <1>2 DEF Range
    <3>2. CASE i <= Len(s)
      <4>1. i \in 1 .. Len(s)
        BY <3>2, <1>2
      <4> QED BY <4>1, <3>1, <1>5, <1>2 DEF Range
    <3>3. CASE ~(i <= Len(s))
      BY <3>1, <3>3, <1>4, <1>2 DEF Range
    <3> QED BY <3>2, <3>3
  <2>2. ASSUME NEW x \in Range(s) PROVE x \in Range(s \o t)
    BY <1>2, <1>5 DEF Range
  <2>3. ASSUME NEW x \in Range(t) PROVE x \in Range(s \o t)
    BY <1>2, <1>3 DEF Range
  <2> QED BY <2>1, <2>2, <2>3
<1>7. ASSUME IsInjective(s), IsInjective(t), Range(s) \cap Range(t) = {}
      PROVE  IsInjective(s \o t)
  <2>1. \A i \in 1 .. Len(s) : s[i] \in Range(s)
    BY <1>2 DEF Range
  <2>2. \A i \in 1 .. Len(t) : t[i] \in Range(t)
    BY <1>2 DEF Range
  <2>3. SUFFICES ASSUME NEW i \in 1 .. Len(s) + Len(t), NEW j \in 1 .. Len(s) + Len(t),
                        (s \o t)[i] = (s \o t)[j]
                 PROVE  i = j
    BY <1>2 DEF IsInjective
  <2>4. CASE i <= Len(s) /\ j <= Len(s)
    <3>1. i \in 1 .. Len(s) /\ j \in 1 .. Len(s)
      BY <2>4, <1>2
    <3> QED BY <3>1, <2>3, <1>5, <1>7, <1>2 DEF IsInjective
  <2>5. CASE i <= Len(s) /\ ~(j <= Len(s))
    <3>1. i \in 1 .. Len(s)
      BY <2>5, <1>2
    <3>2. (s \o t)[i] \in Range(s)
      BY <3>1, <1>5, <2>1
    <3>3. (s \o t)[j] \in Range(t)
      BY <2>5, <1>4, <2>2
    <3> QED BY <3>2, <3>3, <2>3, <1>7
  <2>6. CASE ~(i <= Len(s)) /\ j <= Len(s)
    <3>1. j \in 1 .. Len(s)
      BY <2>6, <1>2
    <3>2. (s \o t)[j] \in Range(s)
      BY <3>1, <1>5, <2>1
    <3>3. (s \o t)[i] \in Range(t)
      BY <2>6, <1>4, <2>2
    <3> QED BY <3>2, <3>3, <2>3, <1>7
  <2>7. CASE ~(i <= Len(s)) /\ ~(j <= Len(s))
    <3>1. t[i - Len(s)] = t[j - Len(s)] /\ i - Len(s) \in 1 .. Len(t) /\ j - Len(s) \in 1 .. Len(t)
      BY <2>7, <1>4, <2>3
    <3>2. i - Len(s) = j - Len(s)
      BY <3>1, <1>7, <1>2 DEF IsInjective
    <3> QED BY <3>2, <1>2
  <2> QED BY <2>4, <2>5, <2>6, <2>7
<1> QED BY <1>1, <1>6, <1>7

\* An enumeration of a finite set holds each of its elements once.
LEMMA SetToSeqsRange ==
    ASSUME NEW S, IsFiniteSet(S), NEW s \in SetToSeqs(S)
    PROVE  s \in Seq(S) /\ Range(s) = S /\ IsInjective(s)
<1> DEFINE D == 1 .. Cardinality(S)
<1>1. Cardinality(S) \in Nat
  BY FS_CardinalityType
<1>2. s \in [D -> S] /\ \A i, j \in D : i # j => s[i] # s[j]
  BY DEF SetToSeqs
<1>3. IsInjective(s)
  BY <1>2 DEF IsInjective
<1>4. s \in Injection(D, S)
  BY <1>2, <1>3 DEF Injection
<1>5. Cardinality(D) = Cardinality(S)
  <2>1. /\ Cardinality(1 .. Cardinality(S)) = IF 1 > Cardinality(S) THEN 0 ELSE Cardinality(S) - 1 + 1
    BY <1>1, FS_Interval
  <2> QED BY <1>1, <2>1
<1>6. s \in Surjection(D, S)
  BY <1>4, <1>5, FS_Injection
<1>7. Range(s) = S
  BY <1>2, <1>6 DEF Surjection, Range
<1>8. s \in Seq(S)
  BY <1>1, <1>2, SeqDef
<1> QED BY <1>3, <1>7, <1>8
=============================================================================
