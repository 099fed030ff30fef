----------------------------- MODULE ListFacts -----------------------------
(***************************************************************************)
(* What the loops of Lists return, for every list.  The induction is over  *)
(* sets of numbers, which needs only that < is well founded on Nat.        *)
(***************************************************************************)
EXTENDS Lists, WellFoundedInduction, SequenceTheorems, TLAPS

\* Mathematical induction for a set of numbers.
LEMMA SetInduction ==
  ASSUME NEW S \in SUBSET Nat, 0 \in S, \A n \in S : n + 1 \in S
  PROVE  S = Nat
<1> DEFINE T == Nat \ S
           R == OpToRel(<, Nat)
<1>1. SUFFICES ASSUME T # {} PROVE FALSE
  OBVIOUS
<1>2. PICK m \in T : \A y \in T : ~ (<<y, m>> \in R)
  BY <1>1, NatLessThanWellFounded, WFMin
<1>3. \A y \in T : ~ (y < m)
  <2>1. \A y, z \in Nat : y < z => <<y, z>> \in R
    BY DEF OpToRel
  <2> HIDE DEF R
  <2> QED  BY <1>2, <2>1
<1> HIDE DEF R
<1>4. m \in Nat \ {0}
  OBVIOUS
<1>5. m - 1 \in S
  BY <1>3, <1>4
<1>6. (m - 1) + 1 \in S
  BY <1>5
<1> QED  BY <1>4, <1>6

\* Among the positions of a list whose element is in S there is a first one.
LEMMA SmallestIndex ==
  ASSUME NEW n \in Nat, NEW l, NEW S, NEW i \in 1..n, l[i] \in S
  PROVE  \E j \in 1..n : l[j] \in S /\ \A k \in 1..n : l[k] \in S => j <= k
<1> DEFINE T == {j \in 1..n : l[j] \in S}
           R == OpToRel(<, Nat)
<1>1. T # {} /\ T \subseteq Nat
  OBVIOUS
<1>2. PICK m \in T : \A y \in T : ~ (<<y, m>> \in R)
  BY <1>1, NatLessThanWellFounded, WFMin
<1>3. \A y, z \in Nat : y < z => <<y, z>> \in R
  BY DEF OpToRel
<1> HIDE DEF R
<1>4. \A y \in T : ~ (y < m)
  <2> HIDE DEF T
  <2> QED  BY <1>1, <1>2, <1>3
<1> QED  BY <1>4

\* And a last one.
LEMMA LargestIndex ==
  ASSUME NEW n \in Nat, NEW l, NEW S, NEW i \in 1..n, l[i] \in S
  PROVE  \E j \in 1..n : l[j] \in S /\ \A k \in 1..n : l[k] \in S => k <= j
<1> DEFINE back == [k \in 1..n |-> l[n + 1 - k]]
<1>1. \A k \in 1..n : n + 1 - k \in 1..n /\ n + 1 - (n + 1 - k) = k
  OBVIOUS
<1>2. n + 1 - i \in 1..n /\ back[n + 1 - i] \in S
  BY <1>1
<1> HIDE DEF back
<1>3. PICK j \in 1..n : back[j] \in S /\ \A k \in 1..n : back[k] \in S => j <= k
  BY <1>2, SmallestIndex
<1>4. \A k \in 1..n : l[k] \in S => back[n + 1 - k] \in S
  BY <1>1 DEF back
<1>5. l[n + 1 - j] \in S /\ \A k \in 1..n : l[k] \in S => k <= n + 1 - j
  BY <1>1, <1>3, <1>4 DEF back
<1> QED  BY <1>1, <1>5

\* Appending adds one element.
LEMMA AppendElements ==
  ASSUME NEW T, NEW q \in Seq(T), NEW e \in T
  PROVE  Elements(Append(q, e)) = Elements(q) \cup {e}
<1> DEFINE a == Append(q, e)
<1>1. /\ DOMAIN a = 1..(Len(q) + 1) /\ DOMAIN q = 1..Len(q) /\ Len(q) \in Nat
      /\ a[Len(q) + 1] = e
      /\ \A i \in 1..Len(q) : a[i] = q[i]
  OBVIOUS
<1> HIDE DEF a
<1>2. Elements(a) = Elements(q) \cup {e}
  BY <1>1 DEF Elements
<1> QED  BY <1>2 DEF a

\* The graph of the loop in Keep: kept is what the first i rounds leave.
IsKept(q, S, n, kept) ==
  kept = [i \in 0..n |-> IF i = 0 THEN <<>>
                         ELSE IF q[i] \in S THEN Append(kept[i-1], q[i])
                         ELSE kept[i-1]]

\* Such a function exists for every prefix of the list.
LEMMA KeptExists ==
  ASSUME NEW q, NEW S, NEW n \in Nat
  PROVE  \E f : IsKept(q, S, n, f)
<1> DEFINE W == {k \in Nat : \E f : IsKept(q, S, k, f)}
<1>1. 0 \in W
  <2> DEFINE f == [i \in 0..0 |-> <<>>]
  <2>1. IsKept(q, S, 0, f)
    BY DEF IsKept
  <2> QED  BY <2>1
<1>2. ASSUME NEW k \in W PROVE k + 1 \in W
  <2>1. PICK f : IsKept(q, S, k, f)
    BY <1>2
  <2> DEFINE g == [i \in 0..(k+1) |->
                     IF i <= k THEN f[i]
                     ELSE IF q[i] \in S THEN Append(f[i-1], q[i]) ELSE f[i-1]]
             h == [i \in 0..(k+1) |->
                     IF i = 0 THEN <<>>
                     ELSE IF q[i] \in S THEN Append(g[i-1], q[i]) ELSE g[i-1]]
  <2>2. ASSUME NEW i \in 0..k
        PROVE  f[i] = IF i = 0 THEN <<>>
                      ELSE IF q[i] \in S THEN Append(f[i-1], q[i]) ELSE f[i-1]
    BY <2>1 DEF IsKept
  <2>3. ASSUME NEW i \in 0..(k+1) PROVE g[i] = h[i]
    <3>1. CASE i = 0
      BY <3>1, <2>2, <1>2
    <3>2. CASE i # 0
      <4>1. i - 1 \in 0..k /\ k \in Nat
        BY <3>2, <1>2
      <4>2. g[i-1] = f[i-1]
        BY <4>1
      <4>3. CASE i <= k
        BY <4>1, <4>2, <4>3, <3>2, <2>2
      <4>4. CASE ~(i <= k)
        BY <4>1, <4>2, <4>4, <3>2
      <4> QED  BY <4>3, <4>4
    <3> QED  BY <3>1, <3>2
  <2>4. g = h
    BY <2>3
  <2>5. IsKept(q, S, k+1, g)
    BY <2>4 DEF IsKept
  <2> QED  BY <2>5, <1>2
<1>3. W = Nat
  <2> HIDE DEF W
  <2> QED  BY <1>1, <1>2, SetInduction DEF W
<1> QED  BY <1>3

\* Hence the function Keep is defined by satisfies its recursion equation.
LEMMA KeepUnfolds ==
  ASSUME NEW T, NEW q \in Seq(T), NEW S
  PROVE  \E f : IsKept(q, S, Len(q), f) /\ Keep(q, S) = f[Len(q)]
<1> DEFINE f == CHOOSE g : IsKept(q, S, Len(q), g)
<1>1. IsKept(q, S, Len(q), f)
  BY KeptExists
<1>2. Keep(q, S) = f[Len(q)]
  BY DEF Keep, IsKept
<1> QED  BY <1>1, <1>2

\* Keep drops exactly the elements outside S: the result is a list of the
\* elements of q that are in S.
THEOREM KeepType ==
  ASSUME NEW T, NEW q \in Seq(T), NEW S
  PROVE  /\ Keep(q, S) \in Seq(T)
         /\ Elements(Keep(q, S)) = Elements(q) \cap S
<1> DEFINE n == Len(q)
<1>1. PICK f : IsKept(q, S, n, f) /\ Keep(q, S) = f[n]
  BY KeepUnfolds
<1> DEFINE Upto(k) == {q[j] : j \in 1..k} \cap S
           Good(k) == f[k] \in Seq(T) /\ Elements(f[k]) = Upto(k)
           W == {k \in Nat : k <= n => Good(k)}
<1>2. 0 \in W
  <2>1. f[0] = <<>>
    BY <1>1 DEF IsKept
  <2>2. Elements(<<>>) = {} /\ {q[j] : j \in 1..0} = {} /\ <<>> \in Seq(T)
    BY DEF Elements
  <2>3. Good(0)
    BY <2>1, <2>2
  <2> QED  BY <2>3
<1>3. ASSUME NEW k \in W PROVE k + 1 \in W
  <2>1. k \in Nat
    BY <1>3
  <2>2. SUFFICES ASSUME k + 1 <= n PROVE Good(k + 1)
    BY <2>1
  <2>3. Good(k) /\ k + 1 \in 1..n
    BY <1>3, <2>1, <2>2
  <2>4. f[k+1] = IF q[k+1] \in S THEN Append(f[k], q[k+1]) ELSE f[k]
    <3>1. k + 1 \in 0..n /\ k + 1 # 0 /\ (k + 1) - 1 = k
      BY <2>1, <2>3
    <3> QED  BY <1>1, <3>1 DEF IsKept
  <2>5. q[k+1] \in T
    BY <2>3
  <2>6. {q[j] : j \in 1..(k+1)} = {q[j] : j \in 1..k} \cup {q[k+1]}
    BY <2>1
  <2>7. CASE q[k+1] \in S
    <3> DEFINE a == Append(f[k], q[k+1])
    <3>1. a \in Seq(T)
      BY <2>3, <2>5
    <3>2. Elements(a) = Elements(f[k]) \cup {q[k+1]}
      BY <2>3, <2>5, AppendElements
    <3> QED  BY <2>3, <2>4, <2>6, <2>7, <3>1, <3>2
  <2>8. CASE q[k+1] \notin S
    BY <2>3, <2>4, <2>6, <2>8
  <2> QED  BY <2>7, <2>8
<1>4. W = Nat
  <2> HIDE DEF W
  <2> QED  BY <1>2, <1>3, SetInduction DEF W
<1>5. Good(n)
  <2>1. n \in W /\ n <= n
    <3> HIDE DEF W
    <3> QED  BY <1>4
  <2> QED  BY <2>1
<1>6. {q[j] : j \in 1..n} = Elements(q)
  BY DEF Elements
<1> QED  BY <1>1, <1>5, <1>6

\* A list that holds nothing twice.
Distinct(q) == \A i, j \in DOMAIN q : q[i] = q[j] => i = j

\* Appending something new keeps a list without duplicates.
LEMMA AppendDistinct ==
  ASSUME NEW T, NEW q \in Seq(T), NEW e \in T, Distinct(q), e \notin Elements(q)
  PROVE  Distinct(Append(q, e))
<1> DEFINE a == Append(q, e)
<1>1. /\ DOMAIN a = 1..(Len(q) + 1) /\ DOMAIN q = 1..Len(q) /\ Len(q) \in Nat
      /\ a[Len(q) + 1] = e
      /\ \A i \in 1..Len(q) : a[i] = q[i]
  OBVIOUS
<1>2. \A i \in 1..Len(q) : q[i] # e
  BY <1>1 DEF Elements
<1>3. \A i, j \in 1..Len(q) : q[i] = q[j] => i = j
  BY <1>1 DEF Distinct
<1> HIDE DEF a
<1> SUFFICES ASSUME NEW i \in DOMAIN a, NEW j \in DOMAIN a, a[i] = a[j] PROVE i = j
  BY DEF Distinct, a
<1>4. CASE i \in 1..Len(q) /\ j \in 1..Len(q)
  BY <1>1, <1>3, <1>4
<1>5. CASE i \notin 1..Len(q) \/ j \notin 1..Len(q)
  BY <1>1, <1>2, <1>5
<1> QED  BY <1>4, <1>5

\* Taking the head of such a list removes that element.
LEMMA TailDistinct ==
  ASSUME NEW T, NEW q \in Seq(T), q # <<>>, Distinct(q)
  PROVE  /\ Head(q) \in T /\ Tail(q) \in Seq(T)
         /\ Distinct(Tail(q))
         /\ Elements(Tail(q)) = Elements(q) \ {Head(q)}
<1> DEFINE a == Tail(q)
<1>1. /\ Len(q) \in Nat \ {0} /\ DOMAIN q = 1..Len(q) /\ DOMAIN a = 1..(Len(q) - 1)
      /\ \A i \in 1..(Len(q) - 1) : a[i] = q[i + 1]
      /\ Head(q) = q[1] /\ a \in Seq(T) /\ q[1] \in T
  OBVIOUS
<1> HIDE DEF a
<1>2. \A i, j \in 1..Len(q) : q[i] = q[j] => i = j
  BY <1>1 DEF Distinct
<1>3. Distinct(a)
  <2> SUFFICES ASSUME NEW i \in 1..(Len(q) - 1), NEW j \in 1..(Len(q) - 1), a[i] = a[j]
               PROVE  i = j
    BY <1>1 DEF Distinct
  <2>1. i + 1 \in 1..Len(q) /\ j + 1 \in 1..Len(q) /\ q[i + 1] = q[j + 1]
    BY <1>1
  <2>2. i + 1 = j + 1
    BY <1>2, <2>1
  <2> QED  BY <2>2
<1>4. Elements(a) \subseteq Elements(q) \ {q[1]}
  <2> SUFFICES ASSUME NEW i \in 1..(Len(q) - 1) PROVE a[i] \in Elements(q) \ {q[1]}
    BY <1>1 DEF Elements
  <2>1. i + 1 \in 1..Len(q) /\ 1 \in 1..Len(q) /\ i + 1 # 1
    BY <1>1
  <2> QED  BY <1>1, <1>2, <2>1 DEF Elements
<1>5. Elements(q) \ {q[1]} \subseteq Elements(a)
  <2> SUFFICES ASSUME NEW i \in 1..Len(q), q[i] # q[1] PROVE q[i] \in Elements(a)
    BY <1>1 DEF Elements
  <2>1. i - 1 \in 1..(Len(q) - 1) /\ (i - 1) + 1 = i
    BY <1>1
  <2>2. a[i - 1] = q[i]
    BY <1>1, <2>1
  <2> QED  BY <1>1, <2>1, <2>2 DEF Elements
<1> QED  BY <1>1, <1>3, <1>4, <1>5 DEF a

\* Keep leaves a list without duplicates as one.
THEOREM KeepDistinct ==
  ASSUME NEW T, NEW q \in Seq(T), NEW S, Distinct(q)
  PROVE  Distinct(Keep(q, S))
<1> DEFINE n == Len(q)
<1>1. PICK f : IsKept(q, S, n, f) /\ Keep(q, S) = f[n]
  BY KeepUnfolds
<1> DEFINE Good(k) == /\ f[k] \in Seq(T) /\ Distinct(f[k])
                      /\ Elements(f[k]) \subseteq {q[j] : j \in 1..k}
           W == {k \in Nat : k <= n => Good(k)}
<1>2. 0 \in W
  <2>1. f[0] = <<>>
    BY <1>1 DEF IsKept
  <2>2. Good(0)
    BY <2>1 DEF Elements, Distinct
  <2> QED  BY <2>2
<1>3. ASSUME NEW k \in W PROVE k + 1 \in W
  <2>1. k \in Nat
    BY <1>3
  <2>2. SUFFICES ASSUME k + 1 <= n PROVE Good(k + 1)
    BY <2>1
  <2>3. Good(k) /\ k + 1 \in 1..n /\ k <= n
    BY <1>3, <2>1, <2>2
  <2>4. f[k+1] = IF q[k+1] \in S THEN Append(f[k], q[k+1]) ELSE f[k]
    <3>1. k + 1 \in 0..n /\ k + 1 # 0 /\ (k + 1) - 1 = k
      BY <2>1, <2>3
    <3> QED  BY <1>1, <3>1 DEF IsKept
  <2>5. q[k+1] \in T
    BY <2>3
  <2>6. {q[j] : j \in 1..(k+1)} = {q[j] : j \in 1..k} \cup {q[k+1]}
    BY <2>1
  <2>7. q[k+1] \notin {q[j] : j \in 1..k}
    <3>1. \A j \in 1..k : j \in DOMAIN q /\ k + 1 \in DOMAIN q /\ j # k + 1
      BY <2>1, <2>3
    <3> QED  BY <3>1 DEF Distinct
  <2>8. CASE q[k+1] \in S
    <3> DEFINE a == Append(f[k], q[k+1])
    <3>1. a \in Seq(T)
      BY <2>3, <2>5
    <3>2. Distinct(a)
      BY <2>3, <2>5, <2>7, AppendDistinct
    <3>3. Elements(a) = Elements(f[k]) \cup {q[k+1]}
      BY <2>3, <2>5, AppendElements
    <3> QED  BY <2>3, <2>4, <2>6, <2>8, <3>1, <3>2, <3>3
  <2>9. CASE q[k+1] \notin S
    BY <2>3, <2>4, <2>6, <2>9
  <2> QED  BY <2>8, <2>9
<1>4. W = Nat
  <2> HIDE DEF W
  <2> QED  BY <1>2, <1>3, SetInduction DEF W
<1>5. Good(n)
  <2>1. n \in W /\ n <= n
    <3> HIDE DEF W
    <3> QED  BY <1>4
  <2> QED  BY <2>1
<1> QED  BY <1>1, <1>5

\* What Keep leaves was in the list, in the same order: g says where.  All that
\* is in S is left.
THEOREM KeepEmbeds ==
  ASSUME NEW T, NEW q \in Seq(T), NEW S
  PROVE  /\ Keep(q, S) \in Seq(T)
         /\ \E g \in [DOMAIN Keep(q, S) -> DOMAIN q] :
              /\ \A i \in DOMAIN Keep(q, S) : Keep(q, S)[i] = q[g[i]]
              /\ \A i, j \in DOMAIN Keep(q, S) : i < j => g[i] < g[j]
              /\ \A j \in DOMAIN q : q[j] \in S => \E i \in DOMAIN Keep(q, S) : g[i] = j
<1> DEFINE n == Len(q)
<1>1. PICK f : IsKept(q, S, n, f) /\ Keep(q, S) = f[n]
  BY KeepUnfolds
<1> DEFINE From(g, l, k) == /\ g \in [DOMAIN l -> 1..k]
                            /\ \A i \in DOMAIN l : l[i] = q[g[i]]
                            /\ \A i, j \in DOMAIN l : i < j => g[i] < g[j]
                            /\ \A j \in 1..k : q[j] \in S => \E i \in DOMAIN l : g[i] = j
           Good(k) == f[k] \in Seq(T) /\ \E g : From(g, f[k], k)
           W == {k \in Nat : k <= n => Good(k)}
<1>2. 0 \in W
  <2>1. f[0] = <<>>
    BY <1>1 DEF IsKept
  <2>2. From([i \in {} |-> 0], f[0], 0)
    BY <2>1
  <2>3. f[0] \in Seq(T)
    BY <2>1
  <2>4. Good(0)
    <3> HIDE DEF From
    <3> QED  BY <2>2, <2>3
  <2> QED  BY <2>4
<1>3. ASSUME NEW k \in W PROVE k + 1 \in W
  <2>1. k \in Nat /\ (k <= n => Good(k))
    <3> HIDE DEF Good
    <3> QED  BY <1>3
  <2>2. SUFFICES ASSUME k + 1 <= n PROVE Good(k + 1)
    <3> HIDE DEF Good
    <3> QED  BY <2>1
  <2>3. Good(k) /\ k + 1 \in 1..n /\ k <= n
    <3> HIDE DEF Good
    <3> QED  BY <2>1, <2>2
  <2>4. f[k+1] = IF q[k+1] \in S THEN Append(f[k], q[k+1]) ELSE f[k]
    <3>1. k + 1 \in 0..n /\ k + 1 # 0 /\ (k + 1) - 1 = k
      BY <2>1, <2>3
    <3> HIDE DEF From
    <3> QED  BY <1>1, <3>1 DEF IsKept
  <2>5. q[k+1] \in T
    BY <2>3
  <2>6. PICK g : From(g, f[k], k)
    BY <2>3
  <2>7. CASE q[k+1] \in S
    <3> DEFINE l == f[k]
               a == Append(l, q[k+1])
               m == Len(l)
               h == [i \in 1..(m + 1) |-> IF i = m + 1 THEN k + 1 ELSE g[i]]
    <3>1. /\ a \in Seq(T) /\ m \in Nat /\ DOMAIN l = 1..m /\ DOMAIN a = 1..(m + 1)
          /\ a[m + 1] = q[k+1] /\ \A i \in 1..m : a[i] = l[i]
      BY <2>3, <2>5
    <3> HIDE DEF l, m, a
    <3>2. \A i \in 1..(m + 1) : i \in 1..m \/ i = m + 1
      BY <3>1
    <3>3. \A i \in 1..m : i # m + 1 /\ g[i] \in 1..k /\ h[i] = g[i] /\ i \in 1..(m + 1)
      BY <2>6, <3>1 DEF l
    <3>4. h[m + 1] = k + 1
      BY <3>1
    <3>5. h \in [1..(m + 1) -> 1..(k + 1)]
      <4>1. \A i \in 1..(m + 1) : h[i] \in 1..(k + 1)
        <5> SUFFICES ASSUME NEW i \in 1..(m + 1) PROVE h[i] \in 1..(k + 1)
          OBVIOUS
        <5> HIDE DEF h
        <5>1. CASE i \in 1..m
          <6>1. h[i] \in 1..k
            BY <3>3, <5>1
          <6> QED  BY <2>1, <6>1
        <5>2. CASE i = m + 1
          <6>1. k + 1 \in 1..(k + 1)
            BY <2>1
          <6> QED  BY <3>4, <5>2, <6>1
        <5> QED  BY <3>2, <5>1, <5>2
      <4> QED  BY <4>1
    <3> HIDE DEF h
    <3>6. \A i \in DOMAIN a : a[i] = q[h[i]]
      BY <2>6, <3>1, <3>2, <3>3, <3>4 DEF l
    <3>7. \A i, j \in DOMAIN a : i < j => h[i] < h[j]
      <4> SUFFICES ASSUME NEW i \in DOMAIN a, NEW j \in DOMAIN a, i < j PROVE h[i] < h[j]
        OBVIOUS
      <4>1. i \in 1..m
        BY <3>1
      <4>2. CASE j \in 1..m
        BY <2>6, <3>1, <3>3, <4>1, <4>2 DEF l
      <4>3. CASE j = m + 1
        BY <2>1, <3>3, <3>4, <4>1, <4>3
      <4> QED  BY <3>1, <3>2, <4>2, <4>3
    <3>8. f[k+1] = a
      BY <2>4, <2>7 DEF a, l
    <3>9. \A j \in 1..(k + 1) : q[j] \in S => \E i \in DOMAIN a : h[i] = j
      <4> SUFFICES ASSUME NEW j \in 1..(k + 1), q[j] \in S PROVE \E i \in DOMAIN a : h[i] = j
        OBVIOUS
      <4>1. CASE j = k + 1
        <5>1. m + 1 \in DOMAIN a
          BY <3>1
        <5> QED  BY <3>4, <4>1, <5>1
      <4>2. CASE j # k + 1
        <5>1. j \in 1..k
          BY <2>1, <4>2
        <5>2. PICK i \in 1..m : g[i] = j
          BY <2>6, <3>1, <5>1 DEF l
        <5> QED  BY <3>1, <3>3, <5>2
      <4> QED  BY <4>1, <4>2
    <3>10. From(h, a, k + 1)
      BY <3>1, <3>5, <3>6, <3>7, <3>9
    <3> HIDE DEF From
    <3> QED  BY <3>1, <3>8, <3>10
  <2>8. CASE q[k+1] \notin S
    <3>1. f[k+1] = f[k]
      BY <2>4, <2>8
    <3>2. \A i \in 1..k : i \in 1..(k + 1)
      BY <2>1
    <3>3. \A j \in 1..(k + 1) : q[j] \in S => j \in 1..k
      BY <2>1, <2>8
    <3>4. From(g, f[k], k + 1)
      BY <2>6, <3>2, <3>3
    <3> HIDE DEF From
    <3> QED  BY <2>3, <3>1, <3>4
  <2> QED  BY <2>7, <2>8
<1>4. W = Nat
  <2> HIDE DEF W
  <2> QED  BY <1>2, <1>3, SetInduction DEF W
<1>5. Good(n)
  <2>1. n \in W /\ n <= n
    <3> HIDE DEF W
    <3> QED  BY <1>4
  <2> QED  BY <2>1
<1>6. DOMAIN q = 1..n
  OBVIOUS
<1> QED  BY <1>1, <1>5, <1>6

-----------------------------------------------------------------------------

\* The graph of the loop in Iterate: after[i] is the state after i rounds.
IsRun(step, s, n, after) ==
  after = [i \in 0..n |-> IF i = 0 THEN s ELSE step[after[i-1]]]

\* Such a function exists for every number of rounds.
LEMMA RunExists ==
  ASSUME NEW step, NEW s, NEW n \in Nat
  PROVE  \E f : IsRun(step, s, n, f)
<1> DEFINE W == {k \in Nat : \E f : IsRun(step, s, k, f)}
<1>1. 0 \in W
  <2> DEFINE f == [i \in 0..0 |-> s]
  <2>1. IsRun(step, s, 0, f)
    BY DEF IsRun
  <2> QED  BY <2>1
<1>2. ASSUME NEW k \in W PROVE k + 1 \in W
  <2>1. PICK f : IsRun(step, s, k, f)
    BY <1>2
  <2> DEFINE g == [i \in 0..(k+1) |-> IF i <= k THEN f[i] ELSE step[f[i-1]]]
             h == [i \in 0..(k+1) |-> IF i = 0 THEN s ELSE step[g[i-1]]]
  <2>2. ASSUME NEW i \in 0..k
        PROVE  f[i] = IF i = 0 THEN s ELSE step[f[i-1]]
    BY <2>1 DEF IsRun
  <2>3. ASSUME NEW i \in 0..(k+1) PROVE g[i] = h[i]
    <3>1. CASE i = 0
      BY <3>1, <2>2, <1>2
    <3>2. CASE i # 0
      <4>1. i - 1 \in 0..k /\ k \in Nat
        BY <3>2, <1>2
      <4>2. g[i-1] = f[i-1]
        BY <4>1
      <4>3. CASE i <= k
        BY <4>1, <4>2, <4>3, <3>2, <2>2
      <4>4. CASE ~(i <= k)
        BY <4>1, <4>2, <4>4, <3>2
      <4> QED  BY <4>3, <4>4
    <3> QED  BY <3>1, <3>2
  <2>4. g = h
    BY <2>3
  <2>5. IsRun(step, s, k+1, g)
    BY <2>4 DEF IsRun
  <2> QED  BY <2>5, <1>2
<1>3. W = Nat
  <2> HIDE DEF W
  <2> QED  BY <1>1, <1>2, SetInduction DEF W
<1> QED  BY <1>3

\* What holds before a loop, and is carried from each round to the next, holds
\* after it: Holds[i] is the set of the states that are right after i rounds.
THEOREM IterateHolds ==
  ASSUME NEW n \in Nat, NEW Holds, NEW step, NEW s \in Holds[0],
         \A i \in 0..(n-1) : \A x \in Holds[i] : step[x] \in Holds[i+1]
  PROVE  Iterate(step, s, n) \in Holds[n]
<1> DEFINE f == CHOOSE g : IsRun(step, s, n, g)
<1>1. IsRun(step, s, n, f)
  BY RunExists
<1>2. Iterate(step, s, n) = f[n]
  BY DEF Iterate, IsRun
<1> HIDE DEF f
<1> DEFINE W == {k \in Nat : k <= n => f[k] \in Holds[k]}
<1>3. 0 \in W
  BY <1>1 DEF IsRun
<1>4. ASSUME NEW k \in W PROVE k + 1 \in W
  <2>1. SUFFICES ASSUME k + 1 <= n PROVE f[k+1] \in Holds[k+1]
    BY <1>4
  <2>2. k \in 0..(n-1) /\ k + 1 \in 0..n /\ k + 1 # 0 /\ (k + 1) - 1 = k
    BY <1>4, <2>1
  <2>3. f[k+1] = step[f[k]]
    BY <1>1, <2>2 DEF IsRun
  <2>4. f[k] \in Holds[k]
    BY <1>4, <2>2
  <2> QED  BY <2>2, <2>3, <2>4
<1>5. W = Nat
  <2> HIDE DEF W
  <2> QED  BY <1>3, <1>4, SetInduction DEF W
<1>6. n \in W
  <2> HIDE DEF W
  <2> QED  BY <1>5
<1> QED  BY <1>2, <1>6

\* A loop that erases makes no list longer, and one that finds nothing to erase
\* leaves the list as it was.
THEOREM KeepShortens ==
  ASSUME NEW T, NEW q \in Seq(T), NEW S
  PROVE  /\ Len(Keep(q, S)) <= Len(q)
         /\ T \subseteq S => Keep(q, S) = q
<1> DEFINE n == Len(q)
<1>1. PICK f : IsKept(q, S, n, f) /\ Keep(q, S) = f[n]
  BY KeepUnfolds
<1>2. n \in Nat
  OBVIOUS
<1> DEFINE Same(l, k) == /\ Len(l) = k
                         /\ \A i \in 1..k : l[i] = q[i]
           Good(k) == /\ f[k] \in Seq(T)
                      /\ Len(f[k]) <= k
                      /\ T \subseteq S => Same(f[k], k)
           W == {k \in Nat : k <= n => Good(k)}
<1>3. 0 \in W
  <2>1. f[0] = <<>>
    BY <1>1, <1>2 DEF IsKept
  <2>2. <<>> \in Seq(T) /\ Len(<<>>) = 0
    OBVIOUS
  <2>3. Good(0)
    BY <2>1, <2>2
  <2> QED  BY <2>3
<1>4. ASSUME NEW k \in W PROVE k + 1 \in W
  <2>1. k \in Nat
    BY <1>4
  <2>2. SUFFICES ASSUME k + 1 <= n PROVE Good(k + 1)
    BY <2>1
  <2>3. Good(k) /\ k + 1 \in 1..n
    BY <1>4, <2>1, <2>2
  <2>4. f[k+1] = IF q[k+1] \in S THEN Append(f[k], q[k+1]) ELSE f[k]
    <3>1. k + 1 \in 0..n /\ k + 1 # 0 /\ (k + 1) - 1 = k
      BY <2>1, <2>3
    <3> QED  BY <1>1, <3>1 DEF IsKept
  <2>5. q[k+1] \in T
    BY <2>3
  <2> DEFINE l == f[k]
             e == q[k+1]
             a == Append(l, e)
  <2>6. /\ l \in Seq(T) /\ Len(l) \in Nat /\ Len(l) <= k
        /\ T \subseteq S => Same(l, k)
    BY <2>3
  <2>7. /\ a \in Seq(T) /\ Len(a) = Len(l) + 1 /\ a[Len(l) + 1] = e
        /\ \A i \in 1..Len(l) : a[i] = l[i]
    <3> HIDE DEF l, e
    <3> QED  BY <2>5, <2>6 DEF e
  <2>8. f[k+1] = IF e \in S THEN a ELSE l
    BY <2>4
  <2>9. e \in T
    BY <2>5
  <2>10. T \subseteq S => Same(a, k + 1)
    <3>1. SUFFICES ASSUME T \subseteq S PROVE Same(a, k + 1)
      OBVIOUS
    <3>2. Len(l) = k /\ \A i \in 1..k : l[i] = q[i]
      BY <2>6, <3>1
    <3>3. \A i \in 1..(k+1) : i \in 1..k \/ i = k + 1
      BY <2>1
    <3> HIDE DEF l, a
    <3> QED  BY <2>7, <3>2, <3>3 DEF e
  <2> HIDE DEF l, e, a
  <2>11. CASE e \in S
    <3>1. Len(a) <= k + 1
      BY <2>1, <2>6, <2>7
    <3> QED  BY <2>7, <2>8, <2>10, <2>11, <3>1
  <2>12. CASE e \notin S
    <3>1. Len(l) <= k + 1 /\ ~(T \subseteq S)
      BY <2>1, <2>6, <2>9, <2>12
    <3> QED  BY <2>6, <2>8, <2>12, <3>1
  <2> QED  BY <2>11, <2>12
<1>5. W = Nat
  <2> HIDE DEF W
  <2> QED  BY <1>3, <1>4, SetInduction DEF W
<1>6. Good(n)
  <2>1. n \in W
    <3> HIDE DEF W
    <3> QED  BY <1>2, <1>5
  <2> QED  BY <1>2, <2>1
<1>7. Same(f[n], n) => f[n] = q
  <2> HIDE DEF n
  <2>1. f[n] \in Seq(T)
    BY <1>6
  <2>2. DOMAIN f[n] = 1..Len(f[n]) /\ DOMAIN q = 1..n
    BY <2>1 DEF n
  <2> QED  BY <2>1, <2>2, SeqEqual DEF n
<1> QED  BY <1>1, <1>6, <1>7
=============================================================================
