---------------------------- MODULE QueueProofs ----------------------------
(***************************************************************************)
(* What the operations on the drivers' lists do, for lists of any length.  *)
(*                                                                         *)
(* The facts about Only and Times are by induction on the list.  A         *)
(* property of lists is represented by the set X of the lists that have    *)
(* it: SeqSetInduction needs no operator as a parameter.                   *)
(***************************************************************************)
EXTENDS Queues, FiniteSetTheorems, TLAPS

\* Induction on the natural numbers, for a set: a least number outside X has a
\* predecessor in X.
LEMMA NatSetInduction ==
    ASSUME NEW X, 0 \in X, \A n \in Nat : n \in X => n + 1 \in X
    PROVE  Nat \subseteq X
<1>1. SUFFICES ASSUME Nat \ X # {} PROVE FALSE
  OBVIOUS
<1> DEFINE R == {ss \in Nat \X Nat : ss[1] < ss[2]}
<1>2. IsWellFoundedOn(R, Nat)
  BY NatLessThanWellFounded, Zenon DEF OpToRel
<1>3. \A x, y \in Nat : x < y => <<x, y>> \in R
  OBVIOUS
<1> HIDE DEF R
<1>4. PICK x \in Nat \ X : \A y \in Nat \ X : ~ (<<y, x>> \in R)
  BY <1>1, <1>2, WFMin
<1>5. x # 0 /\ x - 1 \in Nat /\ x - 1 < x
  BY <1>4
<1>6. x - 1 \in X
  BY <1>3, <1>4, <1>5
<1>7. x - 1 + 1 \in X
  BY <1>5, <1>6
<1> QED BY <1>4, <1>7

\* The empty list is a list, and the only one without entries.
LEMMA EmptyList ==
    ASSUME NEW T
    PROVE  /\ <<>> \in Seq(T) /\ Len(<<>>) = 0
           /\ \A s \in Seq(T) : s # <<>> => Len(s) \in Nat \ {0}
OBVIOUS

\* A list that is not empty has a last entry, and a list before it.
LEMMA EmptyOrAppend ==
    ASSUME NEW T, NEW s \in Seq(T), s # <<>>
    PROVE  \E r \in Seq(T), e \in T : s = Append(r, e)
<1> DEFINE n == Len(s)
           r == [i \in 1 .. n - 1 |-> s[i]]
           a == Append(r, s[n])
<1>1. n \in Nat \ {0} /\ s[n] \in T /\ \A i \in 1 .. n : s[i] \in T
  OBVIOUS
<1> HIDE DEF n
<1>2. r \in Seq(T) /\ Len(r) = n - 1 /\ \A i \in 1 .. n - 1 : r[i] = s[i]
  BY <1>1
<1> HIDE DEF r
<1>3. a \in Seq(T) /\ Len(a) = n /\ \A i \in 1 .. n : a[i] = s[i]
  BY <1>1, <1>2
<1> HIDE DEF a
<1>4. a = s
  BY <1>3 DEF n
<1> QED BY <1>1, <1>2, <1>4 DEF a

\* Induction on sequences, for a set: X has the empty sequence, and with a
\* sequence every longer one.
LEMMA SeqSetInduction ==
    ASSUME NEW T, NEW X, <<>> \in X,
           \A s \in Seq(T), e \in T : s \in X => Append(s, e) \in X
    PROVE  Seq(T) \subseteq X
<1> DEFINE N == {n \in Nat : \A s \in Seq(T) : Len(s) = n => s \in X}
<1>1. 0 \in N
  <2>1. ASSUME NEW s \in Seq(T), Len(s) = 0 PROVE s = <<>>
    BY <2>1
  <2> QED BY <2>1
<1>2. \A n \in Nat : n \in N => n + 1 \in N
  <2>1. ASSUME NEW n \in Nat, n \in N, NEW s \in Seq(T), Len(s) = n + 1
        PROVE  s \in X
    <3>1. s # <<>>
      BY <2>1
    <3>2. PICK r \in Seq(T), e \in T : s = Append(r, e)
      BY <3>1, EmptyOrAppend
    <3>3. Len(r) = n
      BY <2>1, <3>2
    <3>4. r \in X
      BY <2>1, <3>3
    <3> QED BY <3>2, <3>4
  <2> QED BY <2>1
<1>3. Nat \subseteq N
  <2> HIDE DEF N
  <2> QED BY <1>1, <1>2, NatSetInduction
<1>4. ASSUME NEW s \in Seq(T) PROVE s \in X
  <2>1. Len(s) \in N
    BY <1>3
  <2> QED BY <2>1
<1> QED BY <1>4

\* What makes f the function behind Only(s, S).
Filters(f, s, S) ==
    f = [i \in 0 .. Len(s) |->
            IF i = 0 THEN <<>>
            ELSE IF s[i] \in S THEN Append(f[i - 1], s[i]) ELSE f[i - 1]]

\* The recursive function that Only is made of exists, for every list.
LEMMA FilterExists ==
    ASSUME NEW T, NEW S, NEW s \in Seq(T)
    PROVE  \E f : Filters(f, s, S)
<1> DEFINE X == {r \in Seq(T) : \E f : Filters(f, r, S)}
<1>1. <<>> \in X
  <2> DEFINE f == [i \in 0 .. 0 |-> <<>>]
  <2>1. Filters(f, <<>>, S)
    BY DEF Filters
  <2> QED BY <2>1
<1>2. ASSUME NEW r \in Seq(T), NEW e \in T, r \in X
      PROVE  Append(r, e) \in X
  <2>1. PICK f : Filters(f, r, S)
    BY <1>2
  <2> DEFINE n == Len(r)
             a == Append(r, e)
             g == [i \in 0 .. n + 1 |->
                     IF i <= n THEN f[i]
                     ELSE IF e \in S THEN Append(f[n], e) ELSE f[n]]
  <2>2. n \in Nat /\ a \in Seq(T) /\ Len(a) = n + 1 /\ a[n + 1] = e
    OBVIOUS
  <2>3. \A i \in 1 .. n : a[i] = r[i]
    OBVIOUS
  <2> HIDE DEF a, n
  <2>4. \A i \in 0 .. n : f[i] = IF i = 0 THEN <<>>
                                  ELSE IF r[i] \in S THEN Append(f[i - 1], r[i]) ELSE f[i - 1]
    BY <2>1 DEF Filters, n
  <2>5. \A i \in 0 .. n + 1 : g[i] = IF i = 0 THEN <<>>
                                  ELSE IF a[i] \in S THEN Append(g[i - 1], a[i]) ELSE g[i - 1]
    <3>1. ASSUME NEW i \in 1 .. n PROVE g[i] = f[i] /\ g[i - 1] = f[i - 1] /\ a[i] = r[i]
      BY <2>2, <2>3
    <3>2. g[0] = <<>>
      BY <2>2, <2>4
    <3>3. g[n + 1] = IF a[n + 1] \in S THEN Append(g[n], a[n + 1]) ELSE g[n]
      BY <2>2
    <3> HIDE DEF g
    <3>4. ASSUME NEW i \in 1 .. n
          PROVE  g[i] = IF a[i] \in S THEN Append(g[i - 1], a[i]) ELSE g[i - 1]
      <4>1. i \in 0 .. n /\ i # 0
        BY <2>2
      <4>2. f[i] = IF r[i] \in S THEN Append(f[i - 1], r[i]) ELSE f[i - 1]
        BY <2>4, <4>1, Zenon
      <4>3. g[i] = f[i] /\ g[i - 1] = f[i - 1] /\ a[i] = r[i]
        BY <3>1
      <4> QED BY <4>2, <4>3, Zenon
    <3>5. ASSUME NEW i \in 0 .. n + 1 PROVE i = 0 \/ i = n + 1 \/ i \in 1 .. n
      BY <2>2
    <3>6. n + 1 # 0 /\ n + 1 - 1 = n /\ \A i \in 1 .. n : i # 0
      BY <2>2
    <3>7. ASSUME NEW i \in 0 .. n + 1
          PROVE  g[i] = IF i = 0 THEN <<>>
                        ELSE IF a[i] \in S THEN Append(g[i - 1], a[i]) ELSE g[i - 1]
      <4>1. CASE i = 0
        BY <3>2, <4>1, Zenon
      <4>2. CASE i = n + 1
        <5>1. i # 0 /\ i - 1 = n
          BY <2>2, <4>2
        <5>2. g[i] = IF a[i] \in S THEN Append(g[n], a[i]) ELSE g[n]
          BY <3>3, <4>2
        <5> QED BY <5>1, <5>2, Zenon
      <4>3. CASE i \in 1 .. n
        BY <3>4, <3>6, <4>3, Zenon
      <4> QED BY <3>5, <4>1, <4>2, <4>3
    <3> QED BY <3>7, Zenon
  <2>6. g = [i \in 0 .. n + 1 |-> IF i = 0 THEN <<>>
                                  ELSE IF a[i] \in S THEN Append(g[i - 1], a[i]) ELSE g[i - 1]]
    <3>1. g = [i \in 0 .. n + 1 |-> g[i]]
      OBVIOUS
    <3> HIDE DEF g
    <3> QED BY <2>5, <3>1
  <2>7. Filters(g, a, S)
    <3> HIDE DEF g
    <3> QED BY <2>2, <2>6 DEF Filters
  <2> QED BY <2>2, <2>7 DEF a
<1> HIDE DEF X
<1>3. Seq(T) \subseteq X
  BY <1>1, <1>2, SeqSetInduction
<1> QED BY <1>3 DEF X

\* Its recursive equation, behind the start of the list.
LEMMA FilterStep ==
    ASSUME NEW S, NEW s, NEW f, Filters(f, s, S), NEW j \in 0 .. Len(s), j # 0,
           NEW i, i = j - 1
    PROVE  /\ s[j] \in S => f[j] = Append(f[i], s[j])
           /\ s[j] \notin S => f[j] = f[i]
<1>1. f[j] = IF s[j] \in S THEN Append(f[i], s[j]) ELSE f[i]
  BY Zenon DEF Filters
<1> QED BY <1>1

\* Only is the value of that function at the end of the list.
LEMMA OnlyIsFilter ==
    ASSUME NEW T, NEW S, NEW s \in Seq(T)
    PROVE  \E f : Filters(f, s, S) /\ Only(s, S) = f[Len(s)]
<1> DEFINE g == CHOOSE f : Filters(f, s, S)
<1>1. Filters(g, s, S)
  BY FilterExists
<1>2. Only(s, S) = g[Len(s)]
  BY DEF Only, Filters
<1> QED BY <1>1, <1>2

\* The function of a list and the one of the list with one more member agree on
\* the members they share.
LEMMA FilterAgrees ==
    ASSUME NEW T, NEW S, NEW s \in Seq(T), NEW e \in T, NEW f, NEW g,
           Filters(f, s, S), Filters(g, Append(s, e), S)
    PROVE  \A i \in 0 .. Len(s) : f[i] = g[i]
<1> DEFINE a == Append(s, e)
           X == {i \in Nat : i <= Len(s) => f[i] = g[i]}
<1>1. Len(s) \in Nat /\ Len(a) = Len(s) + 1 /\ \A i \in 1 .. Len(s) : a[i] = s[i]
  OBVIOUS
<1>2. Filters(g, a, S)
  OBVIOUS
<1> HIDE DEF a
<1>3. 0 \in X
  BY <1>1, <1>2 DEF Filters
<1>4. ASSUME NEW i \in Nat, i \in X PROVE i + 1 \in X
  <2>1. CASE i + 1 <= Len(s)
    <3>1. i + 1 \in 0 .. Len(s) /\ i + 1 \in 0 .. Len(a) /\ i + 1 # 0 /\ i + 1 - 1 = i
      BY <1>1, <2>1
    <3> DEFINE j == i + 1
    <3>a. j \in 0 .. Len(s) /\ j \in 0 .. Len(a) /\ j # 0 /\ i = j - 1
      BY <3>1
    <3> HIDE DEF j
    <3>2. (s[j] \in S => f[j] = Append(f[i], s[j])) /\ (s[j] \notin S => f[j] = f[i])
      BY <3>a, FilterStep
    <3>3. (a[j] \in S => g[j] = Append(g[i], a[j])) /\ (a[j] \notin S => g[j] = g[i])
      BY <1>2, <3>a, FilterStep
    <3>4. a[j] = s[j] /\ f[i] = g[i]
      BY <1>1, <1>4, <2>1 DEF j
    <3>5. f[j] = g[j]
      BY <3>2, <3>3, <3>4, Zenon
    <3> QED BY <3>5 DEF j
  <2> QED BY <2>1
<1> HIDE DEF X
<1>5. Nat \subseteq X
  BY <1>3, <1>4, NatSetInduction
<1> QED BY <1>1, <1>5 DEF X

\* Nothing is taken from an empty list.
LEMMA OnlyEmpty ==
    ASSUME NEW S
    PROVE  Only(<<>>, S) = <<>>
<1>1. PICK f : Filters(f, <<>>, S) /\ Only(<<>>, S) = f[Len(<<>>)]
  BY OnlyIsFilter, EmptyList
<1> QED BY <1>1, EmptyList DEF Filters

\* The last member of the list is the last one taken, if it is in S.
LEMMA OnlyAppend ==
    ASSUME NEW T, NEW S, NEW s \in Seq(T), NEW e \in T
    PROVE  /\ e \in S => Only(Append(s, e), S) = Append(Only(s, S), e)
           /\ e \notin S => Only(Append(s, e), S) = Only(s, S)
<1> DEFINE a == Append(s, e)
<1>1. a \in Seq(T) /\ Len(s) \in Nat /\ Len(a) = Len(s) + 1 /\ a[Len(s) + 1] = e
  OBVIOUS
<1>2. PICK f : Filters(f, s, S) /\ Only(s, S) = f[Len(s)]
  BY OnlyIsFilter
<1>3. PICK g : Filters(g, a, S) /\ Only(a, S) = g[Len(a)]
  BY <1>1, OnlyIsFilter
<1>4. f[Len(s)] = g[Len(s)]
  BY <1>1, <1>2, <1>3, FilterAgrees
<1> HIDE DEF a
<1>5. g[Len(s) + 1] = IF e \in S THEN Append(g[Len(s)], e) ELSE g[Len(s)]
  <2> DEFINE j == Len(s) + 1
  <2>1. j \in 0 .. Len(a) /\ j # 0 /\ Len(s) = j - 1
    BY <1>1
  <2> HIDE DEF j
  <2>2. /\ a[j] \in S => g[j] = Append(g[Len(s)], a[j])
        /\ a[j] \notin S => g[j] = g[Len(s)]
    BY <1>3, <2>1, FilterStep
  <2>3. a[j] = e
    BY <1>1 DEF j
  <2>4. g[j] = IF e \in S THEN Append(g[Len(s)], e) ELSE g[Len(s)]
    BY <2>2, <2>3, Zenon
  <2> QED BY <2>4 DEF j
<1> QED BY <1>1, <1>2, <1>3, <1>4, <1>5 DEF a

\* Who is on a list, after each of the list operations.
LEMMA SetOfQueue ==
    ASSUME NEW T, NEW s \in Seq(T)
    PROVE  /\ SeqSet(s) \subseteq T
           /\ SeqSet(s) = {} <=> s = <<>>
           /\ \A e \in T : SeqSet(Append(s, e)) = SeqSet(s) \cup {e}
           /\ \A t \in Seq(T) : SeqSet(s \o t) = SeqSet(s) \cup SeqSet(t)
           /\ s # <<>> => SeqSet(s) = {Head(s)} \cup SeqSet(Tail(s))
<1>1. SeqSet(s) \subseteq T
  BY DEF SeqSet
<1>2. SeqSet(s) = {} <=> s = <<>>
  <2>1. s = <<>> => SeqSet(s) = {}
    BY DEF SeqSet
  <2>2. s # <<>> => 1 \in 1 .. Len(s)
    OBVIOUS
  <2> QED BY <2>1, <2>2 DEF SeqSet
<1>3. ASSUME NEW e \in T PROVE SeqSet(Append(s, e)) = SeqSet(s) \cup {e}
  <2> DEFINE a == Append(s, e)
             n == Len(s)
  <2>1. n \in Nat /\ Len(a) = n + 1 /\ a[n + 1] = e /\ \A i \in 1 .. n : a[i] = s[i]
    OBVIOUS
  <2> HIDE DEF a
  <2>2. 1 .. Len(a) = (1 .. n) \cup {n + 1}
    BY <2>1
  <2>3. SeqSet(a) = {s[i] : i \in 1 .. n} \cup {e}
    BY <2>1, <2>2 DEF SeqSet
  <2> QED BY <2>3 DEF SeqSet, a
<1>4. ASSUME NEW t \in Seq(T) PROVE SeqSet(s \o t) = SeqSet(s) \cup SeqSet(t)
  <2> DEFINE n == Len(s)
             m == Len(t)
             c == s \o t
  <2>1. /\ n \in Nat /\ m \in Nat /\ Len(c) = n + m
        /\ \A i \in 1 .. n + m : c[i] = IF i <= n THEN s[i] ELSE t[i - n]
    OBVIOUS
  <2> HIDE DEF c, n, m
  <2>2. ASSUME NEW x \in SeqSet(c) PROVE x \in SeqSet(s) \cup SeqSet(t)
    <3>1. PICK i \in 1 .. n + m : x = c[i]
      BY <2>1, <2>2 DEF SeqSet
    <3>2. CASE i <= n
      BY <2>1, <3>1, <3>2 DEF SeqSet, n
    <3>3. CASE i > n
      <4>1. i - n \in 1 .. m /\ x = t[i - n]
        BY <2>1, <3>1, <3>3
      <4> QED BY <4>1 DEF SeqSet, m
    <3> QED BY <2>1, <3>2, <3>3
  <2>3. ASSUME NEW x \in SeqSet(s) PROVE x \in SeqSet(c)
    <3>1. PICK i \in 1 .. n : x = s[i]
      BY <2>3 DEF SeqSet, n
    <3>2. i \in 1 .. n + m /\ x = c[i]
      BY <2>1, <3>1
    <3> QED BY <2>1, <3>2 DEF SeqSet
  <2>4. ASSUME NEW x \in SeqSet(t) PROVE x \in SeqSet(c)
    <3>1. PICK i \in 1 .. m : x = t[i]
      BY <2>4 DEF SeqSet, m
    <3>2. n + i \in 1 .. n + m /\ x = c[n + i]
      BY <2>1, <3>1
    <3> QED BY <2>1, <3>2 DEF SeqSet
  <2> QED BY <2>2, <2>3, <2>4 DEF c
<1>5. ASSUME s # <<>> PROVE SeqSet(s) = {Head(s)} \cup SeqSet(Tail(s))
  <2> DEFINE n == Len(s)
             t == Tail(s)
  <2>1. /\ n \in Nat /\ n > 0 /\ Len(t) = n - 1 /\ Head(s) = s[1]
        /\ \A i \in 1 .. n - 1 : t[i] = s[i + 1]
    BY <1>5
  <2> HIDE DEF t, n
  <2>2. ASSUME NEW x \in SeqSet(s) PROVE x = s[1] \/ x \in SeqSet(t)
    <3>1. PICK i \in 1 .. n : x = s[i]
      BY <2>2 DEF SeqSet, n
    <3>2. CASE i # 1
      <4>1. i - 1 \in 1 .. n - 1 /\ t[i - 1] = s[i]
        BY <2>1, <3>2
      <4> QED BY <2>1, <3>1, <4>1 DEF SeqSet
    <3> QED BY <3>1, <3>2
  <2>3. ASSUME NEW x \in SeqSet(t) PROVE x \in SeqSet(s)
    <3>1. PICK i \in 1 .. n - 1 : x = s[i + 1]
      BY <2>1, <2>3 DEF SeqSet
    <3>2. i + 1 \in 1 .. n
      BY <2>1, <3>1
    <3> QED BY <3>1, <3>2 DEF SeqSet, n
  <2>4. s[1] \in SeqSet(s)
    BY <2>1 DEF SeqSet, n
  <2> QED BY <2>1, <2>2, <2>3, <2>4 DEF t
<1> QED BY <1>1, <1>2, <1>3, <1>4, <1>5

\* The first of a list is on it.
LEMMA HeadIsIn ==
    ASSUME NEW T, NEW s \in Seq(T), s # <<>>
    PROVE  Head(s) \in SeqSet(s)
BY SetOfQueue

\* What Only takes are the members of the list in S.
LEMMA OnlyType ==
    ASSUME NEW T, NEW S, NEW s \in Seq(T)
    PROVE  /\ Only(s, S) \in Seq(T)
           /\ SeqSet(Only(s, S)) = SeqSet(s) \cap S
<1> DEFINE X == {r \in Seq(T) : /\ Only(r, S) \in Seq(T)
                                /\ SeqSet(Only(r, S)) = SeqSet(r) \cap S}
<1>1. <<>> \in X
  <2>1. <<>> \in Seq(T) /\ SeqSet(<<>>) = {}
    BY EmptyList, SetOfQueue
  <2> QED BY <2>1, OnlyEmpty
<1>2. ASSUME NEW r \in Seq(T), NEW e \in T, r \in X
      PROVE  Append(r, e) \in X
  <2> DEFINE a == Append(r, e)
             o == Only(r, S)
  <2>1. a \in Seq(T) /\ SeqSet(a) = SeqSet(r) \cup {e}
    BY SetOfQueue
  <2>2. o \in Seq(T) /\ SeqSet(o) = SeqSet(r) \cap S
    BY <1>2
  <2> HIDE DEF a, o
  <2>3. CASE e \in S
    <3>1. Only(a, S) = Append(o, e)
      BY <2>3, OnlyAppend DEF a, o
    <3>2. Append(o, e) \in Seq(T) /\ SeqSet(Append(o, e)) = SeqSet(o) \cup {e}
      BY <2>2, SetOfQueue
    <3>3. SeqSet(Only(a, S)) = SeqSet(a) \cap S
      BY <2>1, <2>2, <2>3, <3>1, <3>2
    <3> QED BY <2>1, <3>1, <3>2, <3>3 DEF a
  <2>4. CASE e \notin S
    <3>1. Only(a, S) = o
      BY <2>4, OnlyAppend DEF a, o
    <3>2. SeqSet(Only(a, S)) = SeqSet(a) \cap S
      BY <2>1, <2>2, <2>4, <3>1
    <3> QED BY <2>1, <2>2, <3>1, <3>2 DEF a
  <2> QED BY <2>3, <2>4
<1> HIDE DEF X
<1>3. Seq(T) \subseteq X
  BY <1>1, <1>2, SeqSetInduction
<1> QED BY <1>3 DEF X

\* Splicing, then appending, is appending to the second list first.
LEMMA ConcatAppend ==
    ASSUME NEW T, NEW s \in Seq(T), NEW t \in Seq(T), NEW e \in T
    PROVE  s \o Append(t, e) = Append(s \o t, e)
<1>1. Append(t, e) = t \o <<e>> /\ Append(s \o t, e) = (s \o t) \o <<e>>
  OBVIOUS
<1>2. <<e>> \in Seq(T)
  OBVIOUS
<1> QED BY <1>1, <1>2

\* Taking from a spliced list is taking from its two parts.
LEMMA OnlyConcat ==
    ASSUME NEW T, NEW S, NEW s \in Seq(T), NEW t \in Seq(T)
    PROVE  Only(s \o t, S) = Only(s, S) \o Only(t, S)
<1> DEFINE X == {r \in Seq(T) : Only(s \o r, S) = Only(s, S) \o Only(r, S)}
<1>1. <<>> \in X
  <2>1. Only(s, S) \in Seq(T)
    BY OnlyType
  <2>2. s \o <<>> = s /\ Only(s, S) \o <<>> = Only(s, S)
    BY <2>1
  <2> QED BY <2>2, OnlyEmpty, EmptyList
<1>2. ASSUME NEW r \in Seq(T), NEW e \in T, r \in X
      PROVE  Append(r, e) \in X
  <2> DEFINE a == Append(r, e)
  <2>1. a \in Seq(T) /\ s \o r \in Seq(T) /\ Only(s, S) \in Seq(T) /\ Only(r, S) \in Seq(T)
    BY OnlyType
  <2>2. s \o a = Append(s \o r, e)
    BY ConcatAppend
  <2>3. /\ e \in S => Only(s \o a, S) = Append(Only(s \o r, S), e)
        /\ e \notin S => Only(s \o a, S) = Only(s \o r, S)
    BY <2>1, <2>2, OnlyAppend, Zenon
  <2>4. /\ e \in S => Only(a, S) = Append(Only(r, S), e)
        /\ e \notin S => Only(a, S) = Only(r, S)
    BY OnlyAppend
  <2>5. Only(s, S) \o Append(Only(r, S), e) = Append(Only(s, S) \o Only(r, S), e)
    BY <2>1, ConcatAppend
  <2>6. Only(s \o r, S) = Only(s, S) \o Only(r, S)
    BY <1>2
  <2> HIDE DEF a
  <2>7. Only(s \o a, S) = Only(s, S) \o Only(a, S)
    BY <2>3, <2>4, <2>5, <2>6, Zenon
  <2> QED BY <2>1, <2>7 DEF a
<1> HIDE DEF X
<1>3. Seq(T) \subseteq X
  BY <1>1, <1>2, SeqSetInduction
<1> QED BY <1>3 DEF X

\* Taking in two rounds is taking what both rounds match.
LEMMA OnlyOnly ==
    ASSUME NEW T, NEW S, NEW R, NEW s \in Seq(T)
    PROVE  Only(Only(s, S), R) = Only(s, S \cap R)
<1> DEFINE X == {r \in Seq(T) : Only(Only(r, S), R) = Only(r, S \cap R)}
<1>1. <<>> \in X
  BY OnlyEmpty
<1>2. ASSUME NEW r \in Seq(T), NEW e \in T, r \in X
      PROVE  Append(r, e) \in X
  <2> DEFINE a == Append(r, e)
             o == Only(r, S)
  <2>1. a \in Seq(T) /\ o \in Seq(T)
    BY OnlyType
  <2>2. (e \in S => Only(a, S) = Append(o, e)) /\ (e \notin S => Only(a, S) = o)
    BY OnlyAppend
  <2>3. /\ e \in S \cap R => Only(a, S \cap R) = Append(Only(r, S \cap R), e)
        /\ e \notin S \cap R => Only(a, S \cap R) = Only(r, S \cap R)
    BY OnlyAppend
  <2>4. /\ e \in R => Only(Append(o, e), R) = Append(Only(o, R), e)
        /\ e \notin R => Only(Append(o, e), R) = Only(o, R)
    BY <2>1, OnlyAppend
  <2>5. Only(o, R) = Only(r, S \cap R)
    BY <1>2
  <2> HIDE DEF a, o
  <2>6. Only(Only(a, S), R) = Only(a, S \cap R)
    BY <2>2, <2>3, <2>4, <2>5, Zenon
  <2> QED BY <2>1, <2>6 DEF a
<1> HIDE DEF X
<1>3. Seq(T) \subseteq X
  BY <1>1, <1>2, SeqSetInduction
<1> QED BY <1>3 DEF X

\* A member is on a list as often as Only takes it.
LEMMA TimesLen ==
    ASSUME NEW T, NEW x, NEW s \in Seq(T)
    PROVE  Times(s, x) = Len(Only(s, {x}))
<1> DEFINE X == {r \in Seq(T) : /\ IsFiniteSet({i \in 1 .. Len(r) : r[i] = x})
                                /\ Times(r, x) = Len(Only(r, {x}))}
<1>1. <<>> \in X
  <2>1. Len(<<>>) = 0 /\ <<>> \in Seq(T)
    OBVIOUS
  <2>2. {i \in 1 .. Len(<<>>) : <<>>[i] = x} = {}
    BY <2>1
  <2> QED BY <2>1, <2>2, OnlyEmpty, FS_EmptySet DEF Times
<1>2. ASSUME NEW r \in Seq(T), NEW e \in T, r \in X
      PROVE  Append(r, e) \in X
  <2> DEFINE a == Append(r, e)
             n == Len(r)
             o == Only(r, {x})
             A == {i \in 1 .. Len(r) : r[i] = x}
             B == {i \in 1 .. Len(a) : a[i] = x}
  <2>1. a \in Seq(T) /\ n \in Nat /\ Len(a) = n + 1 /\ a[n + 1] = e /\ o \in Seq(T)
    BY OnlyType
  <2>2. \A i \in 1 .. n : a[i] = r[i]
    OBVIOUS
  <2>3. IsFiniteSet(A) /\ Cardinality(A) = Len(o)
    BY <1>2 DEF Times
  <2>4. (e = x => Only(a, {x}) = Append(o, e)) /\ (e # x => Only(a, {x}) = o)
    BY OnlyAppend
  <2>5. Len(Append(o, e)) = Len(o) + 1
    BY <2>1
  <2>6. n + 1 \notin A /\ B = IF e = x THEN A \cup {n + 1} ELSE A
    <3> HIDE DEF a
    <3> QED BY <2>1, <2>2
  <2> HIDE DEF a, n, o, A, B
  <2>7. CASE e = x
    <3>1. IsFiniteSet(B) /\ Cardinality(B) = Cardinality(A) + 1
      BY <2>3, <2>6, <2>7, FS_AddElement
    <3>2. Cardinality(B) = Len(Only(a, {x}))
      BY <2>3, <2>4, <2>5, <2>7, <3>1
    <3> QED BY <2>1, <3>1, <3>2 DEF Times, a, B
  <2>8. CASE e # x
    <3>1. IsFiniteSet(B) /\ Cardinality(B) = Len(Only(a, {x}))
      BY <2>3, <2>4, <2>6, <2>8
    <3> QED BY <2>1, <3>1 DEF Times, a, B
  <2> QED BY <2>7, <2>8
<1> HIDE DEF X
<1>3. Seq(T) \subseteq X
  BY <1>1, <1>2, SeqSetInduction
<1> QED BY <1>3 DEF X

\* A list is its first member and the rest.
LEMMA QueueOfHead ==
    ASSUME NEW T, NEW s \in Seq(T), s # <<>>
    PROVE  s = <<Head(s)>> \o Tail(s)
OBVIOUS

\* Only, on a list of one.
LEMMA OnlyOne ==
    ASSUME NEW S, NEW e
    PROVE  /\ e \in S => Only(<<e>>, S) = <<e>>
           /\ e \notin S => Only(<<e>>, S) = <<>>
<1> DEFINE t == <<>>
<1>1. t \in Seq({e}) /\ <<e>> = Append(t, e) /\ Only(t, S) = t
  BY OnlyEmpty
<1> HIDE DEF t
<1>2. /\ e \in S => Only(<<e>>, S) = Append(t, e)
      /\ e \notin S => Only(<<e>>, S) = t
  BY <1>1, OnlyAppend, Zenon
<1> QED BY <1>1, <1>2 DEF t

\* A member is on the list at least once, anything else never.
LEMMA TimesType ==
    ASSUME NEW T, NEW s \in Seq(T), NEW x
    PROVE  /\ Times(s, x) \in Nat
           /\ Times(s, x) # 0 <=> x \in SeqSet(s)
<1> DEFINE o == Only(s, {x})
<1>1. o \in Seq(T) /\ SeqSet(o) = SeqSet(s) \cap {x}
  BY OnlyType
<1>2. Times(s, x) = Len(o)
  BY TimesLen
<1> HIDE DEF o
<1>3. Len(o) \in Nat /\ (Len(o) # 0 <=> o # <<>>)
  BY <1>1
<1>4. o = <<>> <=> SeqSet(o) = {}
  BY <1>1, SetOfQueue
<1> QED BY <1>1, <1>2, <1>3, <1>4

\* Nothing is on an empty list.
LEMMA TimesEmpty ==
    ASSUME NEW x
    PROVE  Times(<<>>, x) = 0
BY TimesLen, OnlyEmpty, EmptyList

\* list_add_tail() puts its argument on the list once more.
LEMMA TimesAppend ==
    ASSUME NEW T, NEW s \in Seq(T), NEW e \in T, NEW x
    PROVE  Times(Append(s, e), x) = Times(s, x) + (IF e = x THEN 1 ELSE 0)
<1> DEFINE a == Append(s, e)
           o == Only(s, {x})
<1>1. a \in Seq(T) /\ o \in Seq(T)
  BY OnlyType
<1>2. Times(s, x) = Len(o) /\ Times(a, x) = Len(Only(a, {x}))
  BY <1>1, TimesLen
<1>3. (e = x => Only(a, {x}) = Append(o, e)) /\ (e # x => Only(a, {x}) = o)
  BY OnlyAppend
<1>4. Len(Append(o, e)) = Len(o) + 1 /\ Len(o) \in Nat
  BY <1>1
<1> HIDE DEF a, o
<1>5. Times(a, x) = Times(s, x) + (IF e = x THEN 1 ELSE 0)
  BY <1>2, <1>3, <1>4
<1> QED BY <1>5 DEF a

\* list_splice_tail_init() adds up.
LEMMA TimesConcat ==
    ASSUME NEW T, NEW s \in Seq(T), NEW t \in Seq(T), NEW x
    PROVE  Times(s \o t, x) = Times(s, x) + Times(t, x)
<1> DEFINE o == Only(s, {x})
           p == Only(t, {x})
<1>1. s \o t \in Seq(T) /\ o \in Seq(T) /\ p \in Seq(T)
  BY OnlyType
<1>2. Times(s \o t, x) = Len(o \o p)
  <2>1. Times(s \o t, x) = Len(Only(s \o t, {x}))
    BY <1>1, TimesLen, Zenon
  <2> QED BY <2>1, OnlyConcat
<1>3. Times(s, x) = Len(o) /\ Times(t, x) = Len(p)
  BY TimesLen
<1> HIDE DEF o, p
<1>4. Len(o \o p) = Len(o) + Len(p)
  BY <1>1
<1> QED BY <1>2, <1>3, <1>4

\* Taking the first member off.
LEMMA TimesTail ==
    ASSUME NEW T, NEW s \in Seq(T), s # <<>>, NEW x
    PROVE  Times(s, x) = Times(Tail(s), x) + (IF Head(s) = x THEN 1 ELSE 0)
<1> DEFINE h == <<Head(s)>>
           t == Tail(s)
           k == IF Head(s) = x THEN 1 ELSE 0
<1>1. h \in Seq(T) /\ t \in Seq(T) /\ s = h \o t
  BY QueueOfHead
<1>2. Times(h, x) = k
  <2>1. Times(h, x) = Len(Only(h, {x}))
    BY <1>1, TimesLen
  <2>2. /\ Head(s) = x => Only(h, {x}) = h
        /\ Head(s) # x => Only(h, {x}) = <<>>
    BY OnlyOne
  <2>3. Len(h) = 1 /\ Len(<<>>) = 0
    OBVIOUS
  <2> QED BY <2>1, <2>2, <2>3
<1>3. Times(t, x) \in Nat
  BY <1>1, TimesType
<1> HIDE DEF h, t, k
<1>4. Times(s, x) = k + Times(t, x) /\ k \in Nat
  <2>1. k \in Nat
    BY DEF k
  <2> QED BY <1>1, <1>2, <2>1, TimesConcat
<1>5. Times(s, x) = Times(t, x) + k
  BY <1>3, <1>4
<1> QED BY <1>5 DEF t, k

\* Only takes the members in S as often as they are on the list, and no others.
LEMMA TimesOnly ==
    ASSUME NEW T, NEW s \in Seq(T), NEW S, NEW x
    PROVE  Times(Only(s, S), x) = IF x \in S THEN Times(s, x) ELSE 0
<1>1. Only(s, S) \in Seq(T)
  BY OnlyType
<1>2. Times(Only(s, S), x) = Len(Only(s, S \cap {x}))
  <2>1. Times(Only(s, S), x) = Len(Only(Only(s, S), {x}))
    BY <1>1, TimesLen, Zenon
  <2> QED BY <2>1, OnlyOnly
<1>3. CASE x \in S
  <2>1. S \cap {x} = {x}
    BY <1>3
  <2>2. Times(s, x) = Len(Only(s, {x}))
    BY TimesLen
  <2> QED BY <1>2, <1>3, <2>1, <2>2
<1>4. CASE x \notin S
  <2> DEFINE o == Only(s, {})
  <2>1. S \cap {x} = {}
    BY <1>4
  <2>2. o \in Seq(T) /\ SeqSet(o) = {}
    BY OnlyType
  <2>3. o = <<>>
    <3> HIDE DEF o
    <3> QED BY <2>2, SetOfQueue
  <2> QED BY <1>2, <1>4, <2>1, <2>3, EmptyList
<1> QED BY <1>3, <1>4

\* A list with one more in front.
LEMMA Front ==
    ASSUME NEW T, NEW e \in T, NEW t \in Seq(T)
    PROVE  /\ <<e>> \o t \in Seq(T) /\ <<e>> \o t # <<>>
           /\ Head(<<e>> \o t) = e /\ Tail(<<e>> \o t) = t
<1> DEFINE f == <<e>>
           s == f \o t
<1>1. f \in Seq(T) /\ Len(f) = 1 /\ f[1] = e
  OBVIOUS
<1> HIDE DEF f
<1>a. Len(t) \in Nat /\ s \in Seq(T) /\ Len(s) = 1 + Len(t)
  <2>1. Len(t) \in Nat
    OBVIOUS
  <2>2. s \in Seq(T)
    BY <1>1
  <2>3. Len(s) = Len(f) + Len(t)
    <3>1. \A x \in Seq(T) : Len(x \o t) = Len(x) + Len(t)
      OBVIOUS
    <3> QED BY <1>1, <3>1, Zenon
  <2> QED BY <1>1, <2>1, <2>2, <2>3
<1>b. s[1] = f[1]
  BY <1>1
<1>c. ASSUME NEW i \in 2 .. 1 + Len(t) PROVE s[i] = t[i - 1]
  BY <1>1, <1>a
<1>2. /\ s \in Seq(T) /\ Len(s) = 1 + Len(t) /\ Len(t) \in Nat
      /\ \A i \in 1 .. 1 + Len(t) : s[i] = IF i <= 1 THEN f[i] ELSE t[i - 1]
  <2> HIDE DEF s
  <2> QED BY <1>a, <1>b, <1>c
<1> HIDE DEF s
<1>3. s # <<>> /\ Head(s) = s[1]
  BY <1>2
<1>4. s[1] = e
  BY <1>1, <1>2
<1>5. /\ Tail(s) \in Seq(T) /\ Len(Tail(s)) = Len(t)
      /\ \A i \in 1 .. Len(Tail(s)) : Tail(s)[i] = s[i + 1]
  BY <1>2, <1>3
<1>6. \A i \in 1 .. Len(t) : s[i + 1] = t[i]
  <2> SUFFICES ASSUME NEW i \in 1 .. Len(t) PROVE s[i + 1] = t[i]
    OBVIOUS
  <2>1. i + 1 \in 1 .. 1 + Len(t) /\ ~(i + 1 <= 1) /\ (i + 1) - 1 = i
    BY <1>2
  <2> QED BY <1>2, <2>1
<1>7. Tail(s) = t
  BY <1>5, <1>6
<1> QED BY <1>2, <1>3, <1>4, <1>7 DEF s, f

\* Only, of what is behind the head.
LEMMA OnlyHead ==
    ASSUME NEW T, NEW S, NEW s \in Seq(T), s # <<>>
    PROVE  /\ Head(s) \in S => Only(s, S) = <<Head(s)>> \o Only(Tail(s), S)
           /\ Head(s) \notin S => Only(s, S) = Only(Tail(s), S)
<1> DEFINE h == Head(s)
           t == Tail(s)
<1>1. h \in T /\ t \in Seq(T) /\ s = <<h>> \o t
  BY QueueOfHead
<1> HIDE DEF h, t
<1>2. <<h>> \in Seq(T) /\ Only(t, S) \in Seq(T)
  BY <1>1, OnlyType
<1>3. Only(s, S) = Only(<<h>>, S) \o Only(t, S)
  BY <1>1, <1>2, OnlyConcat
<1>4. <<>> \o Only(t, S) = Only(t, S)
  BY <1>2
<1>5. h \in S => Only(s, S) = <<h>> \o Only(t, S)
  BY <1>3, OnlyOne
<1>6. h \notin S => Only(s, S) = Only(t, S)
  BY <1>3, <1>4, OnlyOne
<1> QED BY <1>5, <1>6 DEF h, t

\* The head of a list goes to the end of the list ahead of it.
LEMMA Shift ==
    ASSUME NEW T, NEW s \in Seq(T), NEW t \in Seq(T), NEW e \in T
    PROVE  Append(s, e) \o t = s \o (<<e>> \o t)
<1>1. Append(s, e) = s \o <<e>> /\ <<e>> \in Seq(T)
  OBVIOUS
<1> QED BY <1>1

\* A list has finitely many members.
LEMMA QueueFinite ==
    ASSUME NEW T, NEW s \in Seq(T)
    PROVE  IsFiniteSet(SeqSet(s))
<1> DEFINE X == {r \in Seq(T) : IsFiniteSet(SeqSet(r))}
<1>1. <<>> \in X
  BY EmptyList, SetOfQueue, FS_EmptySet
<1>2. ASSUME NEW r \in Seq(T), NEW e \in T, r \in X PROVE Append(r, e) \in X
  <2>1. Append(r, e) \in Seq(T) /\ SeqSet(Append(r, e)) = SeqSet(r) \cup {e}
    BY SetOfQueue
  <2> QED BY <1>2, <2>1, FS_AddElement
<1>3. Seq(T) \subseteq X
  <2> HIDE DEF X
  <2> QED BY <1>1, <1>2, SeqSetInduction
<1> QED BY <1>3

\* A list is what is taken out of it and what is left.
LEMMA OnlySplit ==
    ASSUME NEW T, NEW S, NEW s \in Seq(T)
    PROVE  Len(Only(s, S)) + Len(Only(s, T \ S)) = Len(s)
<1> DEFINE X == {r \in Seq(T) : Len(Only(r, S)) + Len(Only(r, T \ S)) = Len(r)}
<1>1. <<>> \in X
  BY OnlyEmpty
<1>2. ASSUME NEW r \in Seq(T), NEW e \in T, r \in X PROVE Append(r, e) \in X
  <2> DEFINE o == Only(r, S)
             q == Only(r, T \ S)
             a == Append(r, e)
  <2>1. o \in Seq(T) /\ q \in Seq(T) /\ a \in Seq(T)
    BY OnlyType
  <2>2. /\ Len(o) \in Nat /\ Len(q) \in Nat /\ Len(r) \in Nat /\ Len(a) = Len(r) + 1
        /\ Len(Append(o, e)) = Len(o) + 1 /\ Len(Append(q, e)) = Len(q) + 1
    BY <2>1
  <2>3. /\ e \in S => Only(a, S) = Append(o, e) /\ Only(a, T \ S) = q
        /\ e \notin S => Only(a, S) = o /\ Only(a, T \ S) = Append(q, e)
    BY OnlyAppend
  <2>4. Len(o) + Len(q) = Len(r)
    BY <1>2
  <2> HIDE DEF o, q, a
  <2>5. CASE e \in S
    <3>1. Len(Only(a, S)) = Len(o) + 1 /\ Len(Only(a, T \ S)) = Len(q)
      BY <2>2, <2>3, <2>5
    <3> QED BY <2>1, <2>2, <2>4, <3>1 DEF a
  <2>6. CASE e \notin S
    <3>1. Len(Only(a, S)) = Len(o) /\ Len(Only(a, T \ S)) = Len(q) + 1
      BY <2>2, <2>3, <2>6
    <3> QED BY <2>1, <2>2, <2>4, <3>1 DEF a
  <2> QED BY <2>5, <2>6
<1>3. Seq(T) \subseteq X
  <2> HIDE DEF X
  <2> QED BY <1>1, <1>2, SeqSetInduction
<1> QED BY <1>3

\* A list of which no member is there twice, without its head.
LEMMA OnceTail ==
    ASSUME NEW T, NEW s \in Seq(T), s # <<>>, \A x \in T : Times(s, x) <= 1
    PROVE  /\ Head(s) \in T /\ Head(s) \notin SeqSet(Tail(s))
           /\ SeqSet(Tail(s)) \subseteq SeqSet(s)
           /\ \A x \in T : Times(Tail(s), x) <= 1
<1>1. Head(s) \in T /\ Tail(s) \in Seq(T) /\ SeqSet(Tail(s)) \subseteq SeqSet(s)
  BY SetOfQueue
<1>2. ASSUME NEW x \in T
      PROVE  Times(Tail(s), x) <= 1 /\ (Head(s) = x => Times(Tail(s), x) = 0)
  <2> DEFINE a == Times(s, x)
             b == Times(Tail(s), x)
             k == IF Head(s) = x THEN 1 ELSE 0
  <2>1. a = b + k /\ a <= 1
    BY TimesTail
  <2>2. a \in Nat /\ b \in Nat
    BY <1>1, TimesType
  <2>3. k \in {0, 1} /\ (Head(s) = x => k = 1)
    OBVIOUS
  <2> HIDE DEF a, b, k
  <2>4. b <= 1 /\ (k = 1 => b = 0)
    BY <2>1, <2>2, <2>3
  <2> QED BY <2>3, <2>4 DEF b
<1>3. Head(s) \notin SeqSet(Tail(s))
  BY <1>1, <1>2, TimesType
<1> QED BY <1>1, <1>2, <1>3

\* The same, for a new member and for a part of the list.
LEMMA OnceMore ==
    ASSUME NEW T, NEW s \in Seq(T), \A x \in T : Times(s, x) <= 1
    PROVE  /\ \A e \in T : e \notin SeqSet(s) => \A x \in T : Times(Append(s, e), x) <= 1
           /\ \A S : \A x \in T : Times(Only(s, S), x) <= 1
<1>1. ASSUME NEW e \in T, e \notin SeqSet(s), NEW x \in T PROVE Times(Append(s, e), x) <= 1
  <2> DEFINE k == IF e = x THEN 1 ELSE 0
  <2>1. Times(Append(s, e), x) = Times(s, x) + k
    BY TimesAppend
  <2>2. Times(s, x) \in Nat /\ Times(s, x) <= 1 /\ (e = x => Times(s, x) = 0)
    BY <1>1, TimesType
  <2>3. CASE e = x
    <3>1. k = 1 /\ Times(s, x) = 0
      BY <2>2, <2>3
    <3> QED BY <2>1, <3>1
  <2>4. CASE e # x
    <3>1. k = 0
      BY <2>4
    <3> QED BY <2>1, <2>2, <3>1
  <2> QED BY <2>3, <2>4
<1>2. ASSUME NEW S, NEW x \in T PROVE Times(Only(s, S), x) <= 1
  BY TimesOnly
<1> QED BY <1>1, <1>2

\* Three lists put together.
Join(a, b, d) == (a \o b) \o d

\* One in front of a list.
Push(e, a) == <<e>> \o a

\* They make a list, and the second is in it.
LEMMA JoinType ==
    ASSUME NEW T, NEW a \in Seq(T), NEW b \in Seq(T), NEW d \in Seq(T)
    PROVE  Join(a, b, d) \in Seq(T) /\ SeqSet(b) \subseteq SeqSet(Join(a, b, d))
<1> DEFINE w == a \o b
<1>1. w \in Seq(T) /\ SeqSet(w) = SeqSet(a) \cup SeqSet(b)
  BY SetOfQueue
<1> HIDE DEF w
<1>2. w \o d \in Seq(T) /\ SeqSet(w \o d) = SeqSet(w) \cup SeqSet(d)
  BY <1>1, SetOfQueue
<1> QED BY <1>1, <1>2 DEF Join, w

\* The first of a list goes to the end of the list ahead of it.
LEMMA JoinPass ==
    ASSUME NEW T, NEW a \in Seq(T), NEW e \in T, NEW b \in Seq(T), NEW d \in Seq(T)
    PROVE  Join(Append(a, e), b, d) = Join(a, <<e>> \o b, d)
BY Shift DEF Join

\* The same, for the third list.
LEMMA JoinTake ==
    ASSUME NEW T, NEW a \in Seq(T), NEW b \in Seq(T), NEW e \in T, NEW d \in Seq(T)
    PROVE  Join(a, Append(b, e), d) = Join(a, b, <<e>> \o d)
<1> DEFINE w == a \o b
<1>1. w \in Seq(T) /\ a \o Append(b, e) = Append(w, e)
  BY ConcatAppend
<1> HIDE DEF w
<1>2. Append(w, e) \o d = w \o (<<e>> \o d)
  BY <1>1, Shift
<1> QED BY <1>1, <1>2 DEF Join, w

\* One more at the end.
LEMMA JoinAdd ==
    ASSUME NEW T, NEW a \in Seq(T), NEW b \in Seq(T), NEW d \in Seq(T), NEW e \in T
    PROVE  Join(a, b, Append(d, e)) = Append(Join(a, b, d), e)
<1> DEFINE w == a \o b
<1>1. w \in Seq(T)
  OBVIOUS
<1> HIDE DEF w
<1>2. w \o Append(d, e) = Append(w \o d, e)
  BY <1>1, ConcatAppend
<1> QED BY <1>2 DEF Join, w

\* One more in front.
LEMMA JoinFront ==
    ASSUME NEW T, NEW e \in T, NEW a \in Seq(T), NEW b \in Seq(T), NEW d \in Seq(T)
    PROVE  /\ Join(Push(e, a), b, d) # <<>>
           /\ Head(Join(Push(e, a), b, d)) = e
           /\ Tail(Join(Push(e, a), b, d)) = Join(a, b, d)
<1> DEFINE f == <<e>>
           w == a \o b
           m == w \o d
<1>1. f \in Seq(T) /\ w \in Seq(T)
  OBVIOUS
<1> HIDE DEF f
<1>2. (f \o a) \o b = f \o w
  <2>1. \A s \in Seq(T) : (s \o a) \o b = s \o (a \o b)
    OBVIOUS
  <2> QED BY <1>1, <2>1, Zenon
<1> HIDE DEF w
<1>3. (f \o w) \o d = f \o m
  BY <1>1
<1>4. m \in Seq(T)
  BY <1>1
<1> HIDE DEF m
<1>5. <<e>> \o m # <<>> /\ Head(<<e>> \o m) = e /\ Tail(<<e>> \o m) = m
  BY <1>4, Front
<1>6. Join(Push(e, a), b, d) = <<e>> \o m
  BY <1>2, <1>3, Zenon DEF Join, Push, f
<1>7. Join(a, b, d) = m
  BY DEF Join, m, w
<1> QED BY <1>5, <1>6, <1>7
=============================================================================
