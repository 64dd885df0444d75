------------------------------ MODULE DataLemmas ------------------------------
(* Lemmas about sequences and numbers that the proofs share.                  *)
EXTENDS Integers, SequenceTheorems, FunctionTheorems, FiniteSetTheorems, WellFoundedInduction, TLAPS

\* A sequence cut in two.
LEMMA Cut ==
    ASSUME NEW S, NEW q \in Seq(S), NEW n \in 0 .. Len(q)
    PROVE  /\ SubSeq(q, 1, n) \in Seq(S) /\ Len(SubSeq(q, 1, n)) = n
           /\ \A i \in 1 .. n : SubSeq(q, 1, n)[i] = q[i]
           /\ SubSeq(q, n + 1, Len(q)) \in Seq(S) /\ Len(SubSeq(q, n + 1, Len(q))) = Len(q) - n
           /\ \A i \in 1 .. Len(q) - n : SubSeq(q, n + 1, Len(q))[i] = q[n + i]
<1>1. Len(q) \in Nat /\ \A i \in 1 .. Len(q) : q[i] \in S
  BY LenProperties
<1>2. n \in Int /\ n + 1 \in Int /\ Len(q) \in Int
  BY <1>1
<1>3. SubSeq(q, 1, n) \in Seq(S) /\ Len(SubSeq(q, 1, n)) = n
      /\ \A i \in 1 .. n : SubSeq(q, 1, n)[i] = q[i]
  <2>1. \A i \in 1 .. n : q[i] \in S
    BY <1>1
  <2>2. /\ SubSeq(q, 1, n) \in Seq(S)
        /\ Len(SubSeq(q, 1, n)) = IF 1 <= n THEN n - 1 + 1 ELSE 0
        /\ \A i \in 1 .. n - 1 + 1 : SubSeq(q, 1, n)[i] = q[1 + i - 1]
    BY <1>2, <2>1, SubSeqProperties
  <2> QED BY <2>2
<1>4. SubSeq(q, n + 1, Len(q)) \in Seq(S) /\ Len(SubSeq(q, n + 1, Len(q))) = Len(q) - n
      /\ \A i \in 1 .. Len(q) - n : SubSeq(q, n + 1, Len(q))[i] = q[n + i]
  <2>1. \A i \in n + 1 .. Len(q) : q[i] \in S
    BY <1>1
  <2>2. /\ SubSeq(q, n + 1, Len(q)) \in Seq(S)
        /\ Len(SubSeq(q, n + 1, Len(q))) = IF n + 1 <= Len(q) THEN Len(q) - (n + 1) + 1 ELSE 0
        /\ \A i \in 1 .. Len(q) - (n + 1) + 1 : SubSeq(q, n + 1, Len(q))[i] = q[n + 1 + i - 1]
    BY <1>2, <2>1, SubSeqProperties
  <2> QED BY <1>1, <2>2
<1> QED BY <1>3, <1>4

\* ... and put together again.
LEMMA Rejoin ==
    ASSUME NEW S, NEW q \in Seq(S), NEW n \in 0 .. Len(q)
    PROVE  SubSeq(q, 1, n) \o SubSeq(q, n + 1, Len(q)) = q
<1> DEFINE a == SubSeq(q, 1, n)
<1> DEFINE b == SubSeq(q, n + 1, Len(q))
<1>1. /\ a \in Seq(S) /\ Len(a) = n /\ \A i \in 1 .. n : a[i] = q[i]
      /\ b \in Seq(S) /\ Len(b) = Len(q) - n /\ \A i \in 1 .. Len(q) - n : b[i] = q[n + i]
  BY Cut
<1>2. Len(q) \in Nat /\ n \in Nat /\ n <= Len(q)
  BY LenProperties
<1> HIDE DEF a, b
<1>3. a \o b \in Seq(S) /\ Len(a \o b) = Len(q)
      /\ \A i \in 1 .. Len(q) : (a \o b)[i] = IF i <= n THEN a[i] ELSE b[i - n]
  <2>1. a \o b \in Seq(S) /\ Len(a \o b) = Len(a) + Len(b)
        /\ \A i \in 1 .. Len(a) + Len(b) : (a \o b)[i] = IF i <= Len(a) THEN a[i] ELSE b[i - Len(a)]
    BY <1>1, ConcatProperties
  <2> QED BY <1>1, <1>2, <2>1
<1>4. ASSUME NEW i \in 1 .. Len(q) PROVE (a \o b)[i] = q[i]
  <2>1. CASE i <= n
    <3>1. i \in 1 .. n /\ (a \o b)[i] = a[i]
      BY <1>2, <1>3, <2>1
    <3> QED BY <1>1, <3>1
  <2>2. CASE i > n
    <3>1. i - n \in 1 .. Len(q) - n /\ n + (i - n) = i
      BY <1>2, <2>2
    <3>2. (a \o b)[i] = b[i - n]
      <4>1. ~(i <= n)
        BY <1>2, <2>2
      <4> QED BY <1>3, <1>4, <4>1
    <3>3. b[i - n] = q[n + (i - n)]
      BY <1>1, <3>1
    <3> QED BY <3>1, <3>2, <3>3
  <2>3. i \in Int /\ (i <= n \/ i > n)
    BY <1>2
  <2> QED BY <2>1, <2>2, <2>3
<1>5. a \o b = q
  BY <1>3, <1>4, SeqEqual
<1> QED BY <1>5 DEF a, b

LEMMA AppendSome ==
    ASSUME NEW S, NEW q \in Seq(S), NEW b
    PROVE  Append(q, b) # <<>>
<1> DEFINE T == S \cup {b}
<1>1. S \subseteq T /\ b \in T
  OBVIOUS
<1> HIDE DEF T
<1>2. q \in Seq(T)
  BY <1>1, SeqMonotonic
<1> QED BY <1>1, <1>2, AppendProperties

\* The first of one sequence becomes the last of the one before it.
LEMMA MoveHead ==
    ASSUME NEW S, NEW t \in Seq(S), NEW d \in Seq(S), d # <<>>
    PROVE  Append(t, Head(d)) \o Tail(d) = t \o d
<1>1. Head(d) \in S /\ Tail(d) \in Seq(S) /\ Len(Tail(d)) = Len(d) - 1
      /\ \A i \in 1 .. Len(Tail(d)) : Tail(d)[i] = d[i + 1]
  BY HeadTailProperties
<1>2. Head(d) = d[1] /\ Len(d) \in Nat \ {0} /\ Len(t) \in Nat
  BY EmptySeq, LenProperties
<1>3. Append(t, Head(d)) \in Seq(S) /\ Len(Append(t, Head(d))) = Len(t) + 1
      /\ (\A i \in 1 .. Len(t) : Append(t, Head(d))[i] = t[i])
      /\ Append(t, Head(d))[Len(t) + 1] = Head(d)
  BY <1>1, AppendProperties
<1> DEFINE a == Append(t, Head(d))
<1> DEFINE b == Tail(d)
<1> HIDE DEF a, b
<1>4. a \o b \in Seq(S) /\ Len(a \o b) = Len(a) + Len(b)
      /\ \A i \in 1 .. Len(a) + Len(b) : (a \o b)[i] = IF i <= Len(a) THEN a[i] ELSE b[i - Len(a)]
  BY <1>1, <1>3, ConcatProperties DEF a, b
<1>5. t \o d \in Seq(S) /\ Len(t \o d) = Len(t) + Len(d)
      /\ \A i \in 1 .. Len(t) + Len(d) : (t \o d)[i] = IF i <= Len(t) THEN t[i] ELSE d[i - Len(t)]
  BY ConcatProperties
<1>6. Len(a \o b) = Len(t \o d)
  BY <1>1, <1>2, <1>3, <1>4, <1>5 DEF a, b
<1>7. ASSUME NEW i \in 1 .. Len(a \o b) PROVE (a \o b)[i] = (t \o d)[i]
  <2>1. i \in Int /\ Len(a) = Len(t) + 1 /\ Len(b) = Len(d) - 1
    BY <1>1, <1>2, <1>3 DEF a, b
  <2>2. CASE i <= Len(t)
    BY <1>2, <1>3, <1>4, <1>5, <1>6, <2>1, <2>2 DEF a
  <2>3. CASE i = Len(t) + 1
    BY <1>2, <1>3, <1>4, <1>5, <1>6, <2>1, <2>3 DEF a
  <2>4. CASE i > Len(t) + 1
    <3>1. (a \o b)[i] = b[i - Len(a)] /\ (t \o d)[i] = d[i - Len(t)]
      BY <1>2, <1>4, <1>5, <1>6, <2>1, <2>4
    <3>2. i - Len(a) \in 1 .. Len(b)
      BY <1>2, <1>4, <2>1, <2>4
    <3>3. b[i - Len(a)] = d[i - Len(a) + 1]
      BY <1>1, <3>2 DEF b
    <3> QED BY <1>2, <2>1, <3>1, <3>3
  <2> QED BY <1>2, <2>1, <2>2, <2>3, <2>4
<1>8. a \o b = t \o d
  BY <1>4, <1>5, <1>6, <1>7, SeqEqual
<1> QED BY <1>8 DEF a, b

\* What is left of two sequences.
LEMMA TailJoin ==
    ASSUME NEW S, NEW s \in Seq(S), NEW t \in Seq(S), s # <<>>
    PROVE  s \o t # <<>> /\ (s \o t)[1] = Head(s) /\ Tail(s \o t) = Tail(s) \o t
<1>1. Head(s) = s[1] /\ Tail(s) \in Seq(S) /\ Len(Tail(s)) = Len(s) - 1
      /\ \A i \in 1 .. Len(Tail(s)) : Tail(s)[i] = s[i + 1]
  BY HeadTailProperties
<1>2. Len(s) \in Nat \ {0} /\ Len(t) \in Nat
  BY EmptySeq, LenProperties
<1> DEFINE u == s \o t
<1>3. u \in Seq(S) /\ Len(u) = Len(s) + Len(t) /\ \A i \in 1 .. Len(s) + Len(t) :
         u[i] = IF i <= Len(s) THEN s[i] ELSE t[i - Len(s)]
  BY ConcatProperties
<1> DEFINE b == Tail(s)
<1> DEFINE v == b \o t
<1>4. v \in Seq(S) /\ Len(v) = Len(b) + Len(t) /\ \A i \in 1 .. Len(b) + Len(t) :
         v[i] = IF i <= Len(b) THEN b[i] ELSE t[i - Len(b)]
  BY <1>1, ConcatProperties
<1> HIDE DEF u, v, b
<1>5. u # <<>> /\ u[1] = Head(s)
  BY <1>1, <1>2, <1>3, EmptySeq
<1>6. Tail(u) \in Seq(S) /\ Len(Tail(u)) = Len(u) - 1
      /\ \A i \in 1 .. Len(Tail(u)) : Tail(u)[i] = u[i + 1]
  BY <1>3, <1>5, HeadTailProperties
<1> DEFINE w == Tail(u)
<1> HIDE DEF w
<1>7. Len(w) = Len(v) /\ Len(b) = Len(s) - 1
  BY <1>1, <1>2, <1>3, <1>4, <1>6 DEF w, b
<1>8. ASSUME NEW i \in 1 .. Len(w) PROVE w[i] = v[i]
  <2>1. w[i] = u[i + 1]
    BY <1>6 DEF w
  <2>2. i + 1 \in 1 .. Len(s) + Len(t) /\ i \in 1 .. Len(b) + Len(t)
    BY <1>2, <1>3, <1>4, <1>6, <1>7 DEF w
  <2>3. CASE i <= Len(b)
    <3>1. i + 1 <= Len(s) /\ i \in 1 .. Len(b)
      BY <1>2, <1>7, <2>2, <2>3
    <3>2. u[i + 1] = s[i + 1] /\ v[i] = b[i] /\ b[i] = s[i + 1]
      BY <1>1, <1>3, <1>4, <2>2, <2>3, <3>1 DEF b
    <3> QED BY <2>1, <3>2
  <2>4. CASE ~(i <= Len(b))
    <3>1. ~(i + 1 <= Len(s)) /\ (i + 1) - Len(s) = i - Len(b)
      BY <1>2, <1>7, <2>2, <2>4
    <3>2. u[i + 1] = t[(i + 1) - Len(s)] /\ v[i] = t[i - Len(b)]
      BY <1>3, <1>4, <2>2, <2>4, <3>1
    <3> QED BY <2>1, <3>1, <3>2
  <2> QED BY <2>3, <2>4
<1>9. w = v
  <2>1. w \in Seq(S)
    BY <1>6 DEF w
  <2> QED BY <1>4, <1>7, <1>8, <2>1, SeqEqual
<1> QED BY <1>5, <1>9 DEF u, v, w, b

-----------------------------------------------------------------------------
(* One sequence that is found in another, behind its first elements.          *)

At(w, s, from) == /\ from + Len(w) <= Len(s)
                  /\ \A i \in 1 .. Len(w) : w[i] = s[from + i]

LEMMA AtEmpty ==
    ASSUME NEW S, NEW s \in Seq(S), NEW from \in 0 .. Len(s)
    PROVE  At(<<>>, s, from)
BY LenProperties, EmptySeq DEF At

LEMMA AtGrow ==
    ASSUME NEW S, NEW w \in Seq(S), NEW s \in Seq(S), NEW b \in S, NEW from \in Nat, At(w, s, from)
    PROVE  At(w, Append(s, b), from)
<1>1. Len(w) \in Nat /\ Len(s) \in Nat
  BY LenProperties
<1>2. Len(Append(s, b)) = Len(s) + 1 /\ \A i \in 1 .. Len(s) : Append(s, b)[i] = s[i]
  BY AppendProperties
<1>3. ASSUME NEW i \in 1 .. Len(w) PROVE from + i \in 1 .. Len(s)
  BY <1>1 DEF At
<1> QED BY <1>1, <1>2, <1>3 DEF At

LEMMA AtAppend ==
    ASSUME NEW S, NEW w \in Seq(S), NEW s \in Seq(S), NEW b \in S, NEW from \in Nat,
           At(w, s, from), from + Len(w) = Len(s)
    PROVE  At(Append(w, b), Append(s, b), from)
<1>1. Len(w) \in Nat /\ Len(s) \in Nat
  BY LenProperties
<1>2. Len(Append(s, b)) = Len(s) + 1 /\ Len(Append(w, b)) = Len(w) + 1
      /\ (\A i \in 1 .. Len(s) : Append(s, b)[i] = s[i]) /\ Append(s, b)[Len(s) + 1] = b
      /\ (\A i \in 1 .. Len(w) : Append(w, b)[i] = w[i]) /\ Append(w, b)[Len(w) + 1] = b
  BY AppendProperties
<1> DEFINE t == Append(s, b)
<1> DEFINE v == Append(w, b)
<1> HIDE DEF t, v
<1>3. ASSUME NEW i \in 1 .. Len(w) + 1 PROVE v[i] = t[from + i]
  <2>1. CASE i = Len(w) + 1
    <3>1. from + i = Len(s) + 1
      BY <1>1, <2>1
    <3> QED BY <1>2, <2>1, <3>1 DEF t, v
  <2>2. CASE i \in 1 .. Len(w)
    <3>1. from + i \in 1 .. Len(s)
      BY <1>1, <2>2
    <3> QED BY <1>2, <2>2, <3>1 DEF At, t, v
  <2> QED BY <1>1, <2>1, <2>2
<1> QED BY <1>1, <1>2, <1>3 DEF At, t, v

LEMMA AtJoin ==
    ASSUME NEW S, NEW w \in Seq(S), NEW v \in Seq(S), NEW s \in Seq(S), NEW from \in Nat
    PROVE  At(w \o v, s, from) <=> At(w, s, from) /\ At(v, s, from + Len(w))
<1>1. Len(w) \in Nat /\ Len(v) \in Nat /\ Len(s) \in Nat
  BY LenProperties
<1> DEFINE u == w \o v
<1>2. Len(u) = Len(w) + Len(v) /\ \A i \in 1 .. Len(w) + Len(v) :
         u[i] = IF i <= Len(w) THEN w[i] ELSE v[i - Len(w)]
  BY ConcatProperties
<1> HIDE DEF u
<1>3. ASSUME At(u, s, from) PROVE At(w, s, from) /\ At(v, s, from + Len(w))
  <2>1. ASSUME NEW i \in 1 .. Len(w) PROVE w[i] = s[from + i]
    <3>1. i \in 1 .. Len(w) + Len(v) /\ i <= Len(w)
      BY <1>1
    <3>2. u[i] = w[i] /\ i \in 1 .. Len(u)
      BY <1>2, <3>1
    <3> QED BY <1>3, <3>2 DEF At
  <2>2. ASSUME NEW i \in 1 .. Len(v) PROVE v[i] = s[from + Len(w) + i]
    <3>1. Len(w) + i \in 1 .. Len(u) /\ ~(Len(w) + i <= Len(w)) /\ (Len(w) + i) - Len(w) = i
          /\ from + (Len(w) + i) = from + Len(w) + i
      BY <1>1, <1>2
    <3>2. u[Len(w) + i] = v[i] /\ u[Len(w) + i] = s[from + (Len(w) + i)]
      BY <1>2, <1>3, <3>1 DEF At
    <3> QED BY <3>1, <3>2
  <2> QED BY <1>1, <1>2, <1>3, <2>1, <2>2 DEF At
<1>4. ASSUME At(w, s, from), At(v, s, from + Len(w)) PROVE At(u, s, from)
  <2>1. ASSUME NEW i \in 1 .. Len(u) PROVE u[i] = s[from + i]
    <3>1. CASE i <= Len(w)
      <4>1. i \in 1 .. Len(w) /\ u[i] = w[i]
        BY <1>1, <1>2, <3>1
      <4> QED BY <1>4, <4>1 DEF At
    <3>2. CASE ~(i <= Len(w))
      <4>1. i - Len(w) \in 1 .. Len(v) /\ from + Len(w) + (i - Len(w)) = from + i
        BY <1>1, <1>2, <3>2
      <4>2. v[i - Len(w)] = s[from + Len(w) + (i - Len(w))]
        BY <1>4, <4>1 DEF At
      <4> QED BY <1>2, <3>2, <4>1, <4>2
    <3> QED BY <3>1, <3>2
  <2> QED BY <1>1, <1>2, <1>4, <2>1 DEF At
<1> QED BY <1>3, <1>4 DEF u

LEMMA AtCut ==
    ASSUME NEW S, NEW w \in Seq(S), NEW s \in Seq(S), NEW from \in Nat, NEW n \in 0 .. Len(w),
           At(w, s, from)
    PROVE  At(SubSeq(w, 1, n), s, from) /\ At(SubSeq(w, n + 1, Len(w)), s, from + n)
<1>1. Len(w) \in Nat /\ Len(s) \in Nat
  BY LenProperties
<1> DEFINE a == SubSeq(w, 1, n)
<1> DEFINE b == SubSeq(w, n + 1, Len(w))
<1>2. Len(a) = n /\ Len(b) = Len(w) - n /\ (\A i \in 1 .. n : a[i] = w[i])
      /\ \A i \in 1 .. Len(w) - n : b[i] = w[n + i]
  BY Cut
<1> HIDE DEF a, b
<1>3. ASSUME NEW i \in 1 .. Len(b) PROVE b[i] = s[from + n + i]
  <2>1. n + i \in 1 .. Len(w) /\ from + (n + i) = from + n + i
    BY <1>1, <1>2
  <2> QED BY <1>2, <2>1 DEF At
<1>4. At(a, s, from)
  <2>1. \A i \in 1 .. n : i \in 1 .. Len(w)
    BY <1>1
  <2>2. from + n <= Len(s)
    BY <1>1 DEF At
  <2> QED BY <1>2, <2>1, <2>2 DEF At
<1>5. At(b, s, from + n)
  <2>1. from + n + Len(b) <= Len(s)
    BY <1>1, <1>2 DEF At
  <2> QED BY <1>3, <2>1 DEF At
<1> QED BY <1>4, <1>5 DEF a, b

LEMMA AtWhole ==
    ASSUME NEW S, NEW w \in Seq(S), NEW s \in Seq(S), NEW from \in Nat, At(w, s, from)
    PROVE  /\ w = SubSeq(s, from + 1, from + Len(w))
           /\ SubSeq(SubSeq(s, from + 1, Len(s)), 1, Len(w)) = w
<1>1. Len(w) \in Nat /\ Len(s) \in Nat /\ \A i \in 1 .. Len(s) : s[i] \in S
  BY LenProperties
<1> DEFINE a == SubSeq(s, from + 1, from + Len(w))
<1>2. a \in Seq(S) /\ Len(a) = Len(w) /\ \A i \in 1 .. Len(w) : a[i] = s[from + i]
  <2>1. from + 1 \in Int /\ from + Len(w) \in Int
        /\ \A i \in from + 1 .. from + Len(w) : s[i] \in S
    BY <1>1 DEF At
  <2>2. /\ a \in Seq(S)
        /\ Len(a) = IF from + 1 <= from + Len(w) THEN from + Len(w) - (from + 1) + 1 ELSE 0
        /\ \A i \in 1 .. from + Len(w) - (from + 1) + 1 : a[i] = s[from + 1 + i - 1]
    BY <2>1, SubSeqProperties
  <2> QED BY <1>1, <2>2
<1>3. w = a
  <2> HIDE DEF a
  <2> QED BY <1>2, SeqEqual DEF At
<1> DEFINE b == SubSeq(s, from + 1, Len(s))
<1>4. from \in 0 .. Len(s)
  BY <1>1 DEF At
<1>5. b \in Seq(S) /\ Len(b) = Len(s) - from /\ \A i \in 1 .. Len(s) - from : b[i] = s[from + i]
  BY <1>4, Cut
<1> HIDE DEF b
<1>6. SubSeq(b, 1, Len(w)) = w
  <2>1. Len(w) \in 0 .. Len(b)
    BY <1>1, <1>5 DEF At
  <2>2. SubSeq(b, 1, Len(w)) \in Seq(S) /\ Len(SubSeq(b, 1, Len(w))) = Len(w)
        /\ \A i \in 1 .. Len(w) : SubSeq(b, 1, Len(w))[i] = b[i]
    BY <1>5, <2>1, Cut
  <2>3. \A i \in 1 .. Len(w) : SubSeq(b, 1, Len(w))[i] = w[i]
    <3>1. ASSUME NEW i \in 1 .. Len(w) PROVE b[i] = w[i]
      <4>1. i \in 1 .. Len(s) - from
        BY <1>1, <1>5, <2>1
      <4> QED BY <1>5, <4>1 DEF At
    <3> QED BY <2>2, <3>1
  <2> QED BY <2>2, <2>3, SeqEqual
<1> QED BY <1>3, <1>6 DEF b

-----------------------------------------------------------------------------
(* Induction over the numbers, for a set of them.                             *)

Less == {pair \in Nat \X Nat : pair[1] < pair[2]}

LEMMA Least ==
    ASSUME NEW S, S \subseteq Nat, S # {}
    PROVE  \E x \in S : \A y \in S : x <= y
<1>1. IsWellFoundedOn(Less, Nat)
  BY NatLessThanWellFounded, Zenon DEF OpToRel, Less
<1>2. PICK x \in S : \A y \in S : ~(<<y, x>> \in Less)
  BY <1>1, WFMin
<1>3. \A y \in S : <<y, x>> \in Less <=> y < x
  BY DEF Less
<1>4. ASSUME NEW y \in S PROVE x <= y
  <2>1. x \in Nat /\ y \in Nat /\ ~(y < x)
    BY <1>2, <1>3
  <2> QED BY <2>1
<1> QED BY <1>4, Zenon

LEMMA Induction ==
    ASSUME NEW S, S \subseteq Nat, 0 \in S, \A n \in S : n + 1 \in S
    PROVE  S = Nat
<1> DEFINE Out == Nat \ S
<1> SUFFICES ASSUME Out # {} PROVE FALSE OBVIOUS
<1> HIDE DEF Out
<1>1. PICK x \in Out : \A y \in Out : x <= y
  BY Least DEF Out
<1>2. x \in Nat /\ x # 0 /\ x \notin S
  BY DEF Out
<1>3. x - 1 \in Nat /\ x - 1 \notin Out
  BY <1>1, <1>2
<1>4. x - 1 \in S /\ (x - 1) + 1 = x
  BY <1>2, <1>3 DEF Out
<1> QED BY <1>2, <1>4

-----------------------------------------------------------------------------
(* Remainders, of which a register holds one.                                 *)

\* A quotient and its remainder.
LEMMA ModRange ==
    ASSUME NEW m \in Nat \ {0}, NEW x \in Nat
    PROVE  /\ x % m \in 0 .. m - 1 /\ x \div m \in Nat
           /\ x = m * (x \div m) + (x % m)
<1>1. x % m \in 0 .. m - 1
  OBVIOUS
<1>2. x \div m \in Int
  OBVIOUS
<1>3. x = m * (x \div m) + (x % m)
  OBVIOUS
<1> DEFINE q == x \div m
<1> DEFINE r == x % m
<1> HIDE DEF q, r
<1>4. q \in Int /\ r \in 0 .. m - 1 /\ x = m * q + r
  BY <1>1, <1>2, <1>3 DEF q, r
<1>5. ~(q <= -1)
  <2> SUFFICES ASSUME q <= -1 PROVE FALSE OBVIOUS
  <2>1. m * q <= -m
    BY <1>4
  <2> QED BY <1>4, <2>1
<1> QED BY <1>1, <1>3, <1>4, <1>5 DEF q

\* A remainder is the only one.
LEMMA ModUnique ==
    ASSUME NEW m \in Nat \ {0}, NEW q \in Nat, NEW r \in 0 .. m - 1
    PROVE  (m * q + r) % m = r
<1> DEFINE x == m * q + r
<1>1. x \in Nat /\ m * q \in Nat
  OBVIOUS
<1> DEFINE d == x \div m
<1> DEFINE s == x % m
<1>2. s \in 0 .. m - 1 /\ d \in Nat /\ x = m * d + s
  BY <1>1, ModRange
<1>3. x = m * q + r
  OBVIOUS
<1> HIDE DEF x, d, s
<1>4. m * (q - d) = s - r /\ m * (d - q) = r - s
  <2>1. m * (q - d) = m * q - m * d /\ m * (d - q) = m * d - m * q
    BY <1>2
  <2> QED BY <1>2, <1>3, <2>1
<1>5. q = d
  <2>1. CASE q > d
    <3>1. m * (q - d) >= m
      BY <1>2, <2>1
    <3> QED BY <1>2, <1>4, <3>1
  <2>2. CASE d > q
    <3>1. m * (d - q) >= m
      BY <1>2, <2>2
    <3> QED BY <1>2, <1>4, <3>1
  <2> QED BY <1>2, <2>1, <2>2
<1> QED BY <1>2, <1>3, <1>5 DEF s, x

\* Multiples do not count.
LEMMA ModMore ==
    ASSUME NEW m \in Nat \ {0}, NEW x \in Nat, NEW k \in Nat
    PROVE  (m * k + x) % m = x % m
<1> DEFINE r == x % m
<1> DEFINE q == x \div m
<1>1. r \in 0 .. m - 1 /\ q \in Nat /\ x = m * q + r
  BY ModRange
<1> HIDE DEF r, q
<1>2. m * k + x = m * (k + q) + r /\ k + q \in Nat
  BY <1>1
<1>3. (m * (k + q) + r) % m = r
  BY <1>1, <1>2, ModUnique
<1> QED BY <1>2, <1>3 DEF r

\* A remainder can be taken early.
LEMMA ModEarly ==
    ASSUME NEW m \in Nat \ {0}, NEW a \in Nat, NEW x \in Nat, NEW b \in Nat
    PROVE  (a * (x % m) + b) % m = (a * x + b) % m
<1> DEFINE r == x % m
<1> DEFINE q == x \div m
<1>1. r \in 0 .. m - 1 /\ q \in Nat /\ x = m * q + r
  BY ModRange
<1> HIDE DEF r, q
<1>2. a * r + b \in Nat /\ a * q \in Nat
  BY <1>1
<1>3. a * x + b = m * (a * q) + (a * r + b)
  <2>1. a * x = a * (m * q) + a * r
    BY <1>1
  <2>2. a * (m * q) = m * (a * q)
    BY <1>1
  <2> QED BY <1>1, <2>1, <2>2
<1>4. (m * (a * q) + (a * r + b)) % m = (a * r + b) % m
  BY <1>2, ModMore
<1> QED BY <1>3, <1>4 DEF r

\* A number that is less than twice the modulus wraps around at most once.
Wrap(x, m) == IF x < m THEN x ELSE x - m

LEMMA WrapsOnce ==
    ASSUME NEW m \in Nat \ {0}, NEW x \in 0 .. 2 * m - 1
    PROVE  x % m = Wrap(x, m)
<1>1. CASE x < m
  <2>1. x \in 0 .. m - 1 /\ m * 0 + x = x /\ 0 \in Nat
    BY <1>1
  <2>2. (m * 0 + x) % m = x
    BY <2>1, ModUnique
  <2> QED BY <1>1, <2>1, <2>2 DEF Wrap
<1>2. CASE ~(x < m)
  <2>1. x - m \in 0 .. m - 1 /\ m * 1 + (x - m) = x /\ 1 \in Nat
    BY <1>2
  <2> DEFINE y == x - m
  <2>2. (m * 1 + y) % m = y
    <3>1. y \in 0 .. m - 1
      BY <2>1
    <3> HIDE DEF y
    <3> QED BY <3>1, ModUnique
  <2> QED BY <1>2, <2>1, <2>2 DEF Wrap
<1> QED BY <1>1, <1>2

\* A power of two counts the sets of that many things.
LEMMA PowerOfTwo ==
    ASSUME NEW n \in Nat
    PROVE  2^n \in Nat \ {0}
<1> DEFINE S == 1 .. n
<1>1. IsFiniteSet(S) /\ Cardinality(S) = n
  BY FS_Interval
<1> HIDE DEF S
<1> DEFINE P == SUBSET S
<1>2. IsFiniteSet(P) /\ Cardinality(P) = 2^n
  BY <1>1, FS_SUBSET
<1>3. P # {}
  OBVIOUS
<1> HIDE DEF P
<1> QED BY <1>2, <1>3, FS_CardinalityType, FS_EmptySet

\* The quotient by a product.
LEMMA DivTwice ==
    ASSUME NEW m \in Nat \ {0}, NEW b \in Nat \ {0}, NEW x \in Nat
    PROVE  x \div m = b * (x \div (b * m)) + ((x \div m) % b)
<1> DEFINE q == x \div m
<1> DEFINE r == x % m
<1>1. q \in Nat /\ r \in 0 .. m - 1 /\ x = m * q + r
  BY ModRange
<1> HIDE DEF q, r
<1> DEFINE d == q \div b
<1> DEFINE s == q % b
<1>2. d \in Nat /\ s \in 0 .. b - 1 /\ q = b * d + s
  BY <1>1, ModRange
<1> HIDE DEF d, s
<1>3. b * m \in Nat \ {0} /\ m * s \in Nat /\ m * d \in Nat
  BY <1>1, <1>2
<1>4. x = (b * m) * d + (m * s + r)
  <2>1. m * q = m * (b * d) + m * s
    BY <1>1, <1>2
  <2>2. m * (b * d) = (b * m) * d
    BY <1>2
  <2> DEFINE bmd == (b * m) * d
  <2> DEFINE mq == m * q
  <2> DEFINE ms == m * s
  <2>3. mq = bmd + ms /\ x = mq + r
    BY <1>1, <2>1, <2>2
  <2>4. mq \in Int /\ bmd \in Int /\ ms \in Int /\ r \in Int
    BY <1>1, <1>2, <1>3
  <2> HIDE DEF bmd, mq, ms
  <2>5. x = bmd + (ms + r)
    BY <2>3, <2>4
  <2> QED BY <2>5 DEF bmd, ms
<1>5. m * s + r \in 0 .. (b * m) - 1
  <2>1. m * s <= m * (b - 1)
    BY <1>1, <1>2
  <2>2. m * (b - 1) = b * m - m
    OBVIOUS
  <2> QED BY <1>1, <1>3, <2>1, <2>2
<1>6. x \div (b * m) = d
  <2> DEFINE c == b * m
  <2> DEFINE t == m * s + r
  <2>1. c \in Nat \ {0} /\ t \in 0 .. c - 1 /\ x = c * d + t
    BY <1>3, <1>4, <1>5
  <2> HIDE DEF c, t
  <2> DEFINE e == x \div c
  <2> DEFINE u == x % c
  <2>2. e \in Nat /\ u \in 0 .. c - 1 /\ x = c * e + u
    BY <1>1, <2>1, ModRange
  <2>3. u = t
    <3>1. (c * d + t) % c = t
      BY <1>2, <2>1, ModUnique
    <3> QED BY <2>1, <3>1
  <2> HIDE DEF e, u
  <2>4. c * e = c * d
    BY <1>2, <2>1, <2>2, <2>3
  <2>5. e = d
    <3>1. CASE e > d
      <4>1. c * (e - d) >= c /\ c * (e - d) = c * e - c * d
        BY <1>2, <2>1, <2>2, <3>1
      <4> QED BY <1>2, <2>1, <2>2, <2>4, <4>1
    <3>2. CASE d > e
      <4>1. c * (d - e) >= c /\ c * (d - e) = c * d - c * e
        BY <1>2, <2>1, <2>2, <3>2
      <4> QED BY <1>2, <2>1, <2>2, <2>4, <4>1
    <3> QED BY <1>2, <2>2, <3>1, <3>2
  <2> QED BY <2>5 DEF c, e
<1> QED BY <1>2, <1>6 DEF d, s, q

\* There are powers of b, and they are what they are called.
LEMMA PowersExist ==
    ASSUME NEW b \in Nat, NEW N \in Nat
    PROVE  \E f : f = [k \in 0 .. N |-> IF k = 0 THEN 1 ELSE b * f[k - 1]]
<1> DEFINE Is(f, n) == f = [k \in 0 .. n |-> IF k = 0 THEN 1 ELSE b * f[k - 1]]
<1> DEFINE S == {n \in Nat : \E f : Is(f, n)}
<1>1. 0 \in S
  <2> DEFINE f == [k \in 0 .. 0 |-> 1]
  <2>1. Is(f, 0)
    OBVIOUS
  <2> HIDE DEF f
  <2> QED BY <2>1
<1>2. ASSUME NEW n \in S PROVE n + 1 \in S
  <2>1. PICK f : Is(f, n)
    OBVIOUS
  <2>2. n \in Nat
    OBVIOUS
  <2> DEFINE g == [k \in 0 .. n + 1 |-> IF k = n + 1 THEN b * f[n] ELSE f[k]]
  <2>3. ASSUME NEW k \in 0 .. n + 1 PROVE g[k] = IF k = 0 THEN 1 ELSE b * g[k - 1]
    <3>1. CASE k = n + 1
      BY <2>2, <3>1
    <3>2. CASE k # n + 1
      <4>1. k \in 0 .. n /\ g[k] = f[k] /\ (k # 0 => g[k - 1] = f[k - 1])
        BY <2>2, <3>2
      <4>2. f[k] = IF k = 0 THEN 1 ELSE b * f[k - 1]
        BY <2>1, <4>1
      <4> QED BY <4>1, <4>2
    <3> QED BY <3>1, <3>2
  <2>4. Is(g, n + 1)
    <3>1. g = [k \in 0 .. n + 1 |-> g[k]]
      OBVIOUS
    <3> HIDE DEF g
    <3> QED BY <2>3, <3>1
  <2> HIDE DEF g
  <2> QED BY <2>2, <2>4
<1>3. S = Nat
  <2>1. S \subseteq Nat
    OBVIOUS
  <2> HIDE DEF S
  <2> QED BY <1>1, <1>2, <2>1, Induction
<1> QED
  <2>1. N \in S
    <3> HIDE DEF S
    <3> QED BY <1>3
  <2> QED BY <2>1

LEMMA PowersAre ==
    ASSUME NEW b \in Nat, NEW N \in Nat, NEW f,
           \A k \in 0 .. N : f[k] = IF k = 0 THEN 1 ELSE b * f[k - 1]
    PROVE  /\ f[0] = 1
           /\ \A k \in 0 .. N : f[k] \in Nat
           /\ \A k \in 1 .. N : f[k] = b * f[k - 1]
<1> DEFINE P == {k \in Nat : k <= N => f[k] \in Nat}
<1>1. f[0] = 1 /\ \A k \in 1 .. N : f[k] = b * f[k - 1]
  OBVIOUS
<1>2. P = Nat
  <2>1. 0 \in P /\ P \subseteq Nat
    BY <1>1
  <2>2. ASSUME NEW k \in P PROVE k + 1 \in P
    <3> SUFFICES ASSUME k + 1 <= N PROVE f[k + 1] \in Nat
      OBVIOUS
    <3>1. k + 1 \in 1 .. N /\ k + 1 - 1 = k /\ f[k] \in Nat
      OBVIOUS
    <3> QED BY <1>1, <3>1
  <2> HIDE DEF P
  <2> QED BY <2>1, <2>2, Induction
<1> QED BY <1>1, <1>2

-----------------------------------------------------------------------------
(* How often something is in a sequence.                                      *)

Count(s, c) == Cardinality({i \in 1 .. Len(s) : s[i] = c})

LEMMA CountType ==
    ASSUME NEW S, NEW s \in Seq(S), NEW c
    PROVE  /\ IsFiniteSet({i \in 1 .. Len(s) : s[i] = c}) /\ Count(s, c) \in Nat
           /\ Count(s, c) = 0 <=> \A i \in 1 .. Len(s) : s[i] # c
<1> DEFINE T == {i \in 1 .. Len(s) : s[i] = c}
<1>1. IsFiniteSet(1 .. Len(s))
  BY LenProperties, FS_Interval
<1>2. IsFiniteSet(T)
  <2>1. T \in SUBSET (1 .. Len(s))
    OBVIOUS
  <2> HIDE DEF T
  <2> QED BY <1>1, <2>1, FS_Subset
<1>3. Cardinality(T) \in Nat /\ (Cardinality(T) = 0 <=> T = {})
  <2> HIDE DEF T
  <2> QED BY <1>2, FS_CardinalityType, FS_EmptySet
<1> QED BY <1>2, <1>3 DEF Count

LEMMA CountEmpty == \A c : Count(<<>>, c) = 0
<1> SUFFICES ASSUME NEW c PROVE Count(<<>>, c) = 0 OBVIOUS
<1>1. <<>> \in Seq({}) /\ Len(<<>>) = 0
  BY EmptySeq
<1>2. \A i \in 1 .. Len(<<>>) : <<>>[i] # c
  BY <1>1
<1> QED BY <1>1, <1>2, CountType

LEMMA CountOne ==
    ASSUME NEW x, NEW c
    PROVE  Count(<<x>>, c) = IF x = c THEN 1 ELSE 0
<1>1. {i \in 1 .. Len(<<x>>) : <<x>>[i] = c} = IF x = c THEN {1} ELSE {}
  OBVIOUS
<1> QED BY <1>1, FS_Singleton, FS_EmptySet DEF Count

LEMMA CountJoin ==
    ASSUME NEW S, NEW s \in Seq(S), NEW t \in Seq(S), NEW c
    PROVE  Count(s \o t, c) = Count(s, c) + Count(t, c)
<1> DEFINE u == s \o t
<1>1. Len(s) \in Nat /\ Len(t) \in Nat
  BY LenProperties
<1>2. u \in Seq(S) /\ Len(u) = Len(s) + Len(t) /\ \A i \in 1 .. Len(s) + Len(t) :
         u[i] = IF i <= Len(s) THEN s[i] ELSE t[i - Len(s)]
  BY ConcatProperties
<1> HIDE DEF u
<1> DEFINE A == {i \in 1 .. Len(s) : s[i] = c}
<1> DEFINE B == {i \in 1 .. Len(t) : t[i] = c}
<1> DEFINE C == {i \in Len(s) + 1 .. Len(s) + Len(t) : t[i - Len(s)] = c}
<1> DEFINE U == {i \in 1 .. Len(u) : u[i] = c}
<1>3. U = A \cup C
  <2>1. ASSUME NEW i PROVE i \in U <=> i \in A \cup C
    <3>1. CASE i \in 1 .. Len(s)
      BY <1>1, <1>2, <3>1
    <3>2. CASE i \in Len(s) + 1 .. Len(s) + Len(t)
      BY <1>1, <1>2, <3>2
    <3>3. CASE i \notin 1 .. Len(u)
      BY <1>1, <1>2, <3>3
    <3> QED BY <1>1, <1>2, <3>1, <3>2, <3>3
  <2> HIDE DEF U, A, C
  <2> QED BY <2>1
<1>4. A \cap C = {}
  BY <1>1
<1>5. IsFiniteSet(A) /\ IsFiniteSet(B) /\ Cardinality(A) \in Nat
  BY CountType DEF Count
<1>6. IsFiniteSet(C) /\ Cardinality(C) = Cardinality(B)
  <2> DEFINE F == [i \in B |-> Len(s) + i]
  <2>1. F \in [B -> C]
    BY <1>1
  <2>2. \A i, j \in B : F[i] = F[j] => i = j
    BY <1>1
  <2>3. ASSUME NEW i \in C PROVE \E j \in B : F[j] = i
    <3>1. i - Len(s) \in B /\ Len(s) + (i - Len(s)) = i
      BY <1>1
    <3> QED BY <3>1
  <2> HIDE DEF F, B, C
  <2>4. F \in Bijection(B, C)
    BY <2>1, <2>2, <2>3, Fun_IsBij
  <2>5. ExistsBijection(B, C)
    BY <2>4, Fun_ExistsBij
  <2> QED BY <1>5, <2>5, FS_Bijection
<1>7. Cardinality(A \cup C) = Cardinality(A) + Cardinality(B)
  <2> HIDE DEF A, B, C
  <2>1. Cardinality(A \cup C) = Cardinality(A) + Cardinality(C) - Cardinality(A \cap C)
    BY <1>5, <1>6, FS_Union
  <2>2. Cardinality(A \cap C) = 0
    BY <1>4, FS_EmptySet
  <2>3. Cardinality(C) \in Nat
    BY <1>6, FS_CardinalityType
  <2> QED BY <1>5, <1>6, <2>1, <2>2, <2>3
<1> HIDE DEF A, B, C
<1> QED BY <1>3, <1>7 DEF A, B, U, u, Count

LEMMA CountTail ==
    ASSUME NEW S, NEW s \in Seq(S), s # <<>>, NEW c
    PROVE  Count(s, c) = Count(Tail(s), c) + IF s[1] = c THEN 1 ELSE 0
<1>1. Head(s) = s[1] /\ Tail(s) \in Seq(S) /\ s[1] \in S
  BY HeadTailProperties
<1>2. <<s[1]>> \in Seq(S) /\ s = <<s[1]>> \o Tail(s)
  <2>1. <<>> \in Seq(S) /\ Append(<<>>, Head(s)) \o Tail(s) = <<>> \o s
    BY MoveHead
  <2>2. Append(<<>>, Head(s)) = <<s[1]>> /\ <<>> \o s = s
    BY <1>1, ConcatEmptySeq
  <2>3. <<s[1]>> \in Seq(S)
    BY <1>1
  <2> QED BY <2>1, <2>2, <2>3
<1>3. Count(<<s[1]>> \o Tail(s), c) = Count(<<s[1]>>, c) + Count(Tail(s), c)
  BY <1>1, <1>2, CountJoin
<1> DEFINE a == <<s[1]>>
<1> DEFINE b == Tail(s)
<1>4. Count(a, c) = (IF s[1] = c THEN 1 ELSE 0) /\ Count(a, c) \in Nat /\ Count(b, c) \in Nat
      /\ Count(a \o b, c) = Count(a, c) + Count(b, c) /\ s = a \o b
  BY <1>1, <1>2, <1>3, CountOne, CountType
<1> HIDE DEF a
<1>5. Count(s, c) = Count(a, c) + Count(b, c)
  BY <1>4, Zenon
<1> QED BY <1>4, <1>5

LEMMA CountCut ==
    ASSUME NEW S, NEW s \in Seq(S), NEW n \in 0 .. Len(s), NEW c
    PROVE  Count(s, c) = Count(SubSeq(s, 1, n), c) + Count(SubSeq(s, n + 1, Len(s)), c)
<1>1. SubSeq(s, 1, n) \in Seq(S) /\ SubSeq(s, n + 1, Len(s)) \in Seq(S)
      /\ s = SubSeq(s, 1, n) \o SubSeq(s, n + 1, Len(s))
  BY Cut, Rejoin
<1> DEFINE a == SubSeq(s, 1, n)
<1> DEFINE b == SubSeq(s, n + 1, Len(s))
<1> HIDE DEF a, b
<1>2. a \in Seq(S) /\ b \in Seq(S) /\ s = a \o b
  BY <1>1 DEF a, b
<1>3. Count(a \o b, c) = Count(a, c) + Count(b, c)
  BY <1>2, CountJoin
<1>4. Count(s, c) = Count(a, c) + Count(b, c)
  BY <1>2, <1>3, Zenon
<1> QED BY <1>4 DEF a, b

\* What a concatenation holds: the one part, then the other.
LEMMA Concatenated ==
    ASSUME NEW S, NEW s \in Seq(S), NEW t \in Seq(S), NEW q, q = s \o t
    PROVE  /\ q \in Seq(S) /\ Len(q) = Len(s) + Len(t)
           /\ \A i \in 1 .. Len(s) : q[i] = s[i]
           /\ \A i \in 1 .. Len(t) : q[Len(s) + i] = t[i]
<1>1. Len(s) \in Nat /\ Len(t) \in Nat
  BY LenProperties
<1>2. q \in Seq(S) /\ Len(q) = Len(s) + Len(t)
      /\ \A i \in 1 .. Len(s) + Len(t) : q[i] = IF i <= Len(s) THEN s[i] ELSE t[i - Len(s)]
  BY ConcatProperties
<1>3. ASSUME NEW i \in 1 .. Len(s) PROVE q[i] = s[i]
  <2>1. i \in 1 .. Len(s) + Len(t) /\ i <= Len(s)
    BY <1>1
  <2> QED BY <1>2, <2>1
<1>4. ASSUME NEW i \in 1 .. Len(t) PROVE q[Len(s) + i] = t[i]
  <2>1. Len(s) + i \in 1 .. Len(s) + Len(t) /\ ~(Len(s) + i <= Len(s)) /\ (Len(s) + i) - Len(s) = i
    BY <1>1
  <2> QED BY <1>2, <2>1
<1> QED BY <1>2, <1>3, <1>4

\* How a concatenation is grouped does not matter. A name for the fact keeps the
\* provers from regrouping for ever.
Regroups(s, t, u) == (s \o t) \o u = s \o (t \o u)

LEMMA Grouping ==
    ASSUME NEW S, NEW s \in Seq(S), NEW t \in Seq(S), NEW u \in Seq(S)
    PROVE  Regroups(s, t, u)
<1> DEFINE a == s \o t
<1> DEFINE b == t \o u
<1> DEFINE l == a \o u
<1> DEFINE r == s \o b
<1>1. Len(s) \in Nat /\ Len(t) \in Nat /\ Len(u) \in Nat
  BY LenProperties
<1>2. /\ a \in Seq(S) /\ Len(a) = Len(s) + Len(t)
      /\ \A i \in 1 .. Len(s) : a[i] = s[i]
      /\ \A i \in 1 .. Len(t) : a[Len(s) + i] = t[i]
  BY Concatenated
<1>3. /\ b \in Seq(S) /\ Len(b) = Len(t) + Len(u)
      /\ \A i \in 1 .. Len(t) : b[i] = t[i]
      /\ \A i \in 1 .. Len(u) : b[Len(t) + i] = u[i]
  BY Concatenated
<1> HIDE DEF a, b
<1>4. a \in Seq(S) /\ b \in Seq(S)
  BY <1>2, <1>3
<1>5. /\ l \in Seq(S) /\ Len(l) = Len(a) + Len(u)
      /\ \A i \in 1 .. Len(a) : l[i] = a[i]
      /\ \A i \in 1 .. Len(u) : l[Len(a) + i] = u[i]
  BY <1>4, Concatenated
<1>6. /\ r \in Seq(S) /\ Len(r) = Len(s) + Len(b)
      /\ \A i \in 1 .. Len(s) : r[i] = s[i]
      /\ \A i \in 1 .. Len(b) : r[Len(s) + i] = b[i]
  BY <1>4, Concatenated
<1> HIDE DEF l, r
<1>7. Len(l) = Len(r) /\ Len(l) = Len(s) + Len(t) + Len(u)
  BY <1>1, <1>2, <1>3, <1>5, <1>6
<1>8. ASSUME NEW i \in 1 .. Len(l) PROVE l[i] = r[i]
  <2>1. CASE i \in 1 .. Len(s)
    <3>1. i \in 1 .. Len(a)
      BY <1>1, <1>2, <2>1
    <3>2. l[i] = a[i] /\ a[i] = s[i] /\ r[i] = s[i]
      BY <1>2, <1>5, <1>6, <2>1, <3>1
    <3> QED BY <3>2
  <2>2. ASSUME NEW j \in 1 .. Len(t), i = Len(s) + j PROVE l[i] = r[i]
    <3>1. i \in 1 .. Len(a) /\ j \in 1 .. Len(b)
      BY <1>1, <1>2, <1>3, <2>2
    <3>2. l[i] = a[i] /\ a[i] = t[j]
      BY <1>2, <1>5, <2>2, <3>1
    <3>3. r[i] = b[j] /\ b[j] = t[j]
      BY <1>3, <1>6, <2>2, <3>1
    <3> QED BY <3>2, <3>3
  <2>3. ASSUME NEW k \in 1 .. Len(u), i = Len(s) + Len(t) + k PROVE l[i] = r[i]
    <3> DEFINE j == Len(t) + k
    <3>1. j \in 1 .. Len(b) /\ i = Len(s) + j /\ i = Len(a) + k
      BY <1>1, <1>2, <1>3, <2>3
    <3>2. l[i] = u[k]
      BY <1>5, <3>1
    <3>3. b[j] = u[k]
      BY <1>3
    <3> HIDE DEF j
    <3>4. r[i] = b[j]
      BY <1>6, <3>1
    <3> QED BY <3>2, <3>3, <3>4
  <2>4. \/ i \in 1 .. Len(s)
        \/ \E j \in 1 .. Len(t) : i = Len(s) + j
        \/ \E k \in 1 .. Len(u) : i = Len(s) + Len(t) + k
    <3>1. \/ i \in 1 .. Len(s)
          \/ i - Len(s) \in 1 .. Len(t) /\ i = Len(s) + (i - Len(s))
          \/ i - Len(s) - Len(t) \in 1 .. Len(u) /\ i = Len(s) + Len(t) + (i - Len(s) - Len(t))
      BY <1>1, <1>7
    <3> QED BY <3>1
  <2> QED BY <2>1, <2>2, <2>3, <2>4
<1>9. l = r
  BY <1>5, <1>6, <1>7, <1>8, SeqEqual
<1> QED BY <1>9 DEF l, r, a, b, Regroups

=============================================================================
