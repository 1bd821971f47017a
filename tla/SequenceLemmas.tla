--------------------------- MODULE SequenceLemmas ---------------------------
(***************************************************************************)
(* Lemmas about sequences: what FlattenSeq puts together, and sequences of *)
(* integers that are sorted.                                               *)
(*                                                                         *)
(* NatInductive states induction for a set of numbers, not for an operator *)
(* of them: it follows from < being well-founded on Nat, and is used for   *)
(* the set of the lengths for which a lemma holds.                         *)
(***************************************************************************)
EXTENDS Integers, SequencesExt, SequenceTheorems, WellFoundedInduction, TLAPS

\* A set of numbers that is not empty has a least one.
LEMMA NatMin ==
    ASSUME NEW T, T \subseteq Nat, T # {}
    PROVE  \E m \in T : \A n \in T : m <= n
<1> DEFINE R == OpToRel(<, Nat)
<1>1. IsWellFoundedOn(R, Nat)
  BY NatLessThanWellFounded
<1>2. \A x, y \in Nat : x < y => <<x, y>> \in R
  BY DEF OpToRel
<1> HIDE DEF R
<1>3. PICK m \in T : \A n \in T : ~ (<<n, m>> \in R)
  BY <1>1, WFMin, Zenon
<1>4. ASSUME NEW n \in T PROVE m <= n
  <2>1. ~ (n < m)
    BY <1>2, <1>3
  <2> QED  BY <2>1
<1> QED  BY <1>4

\* A set that holds zero and with every number the next one holds them all.
LEMMA NatInductive ==
    ASSUME NEW T, 0 \in T, \A n \in Nat : n \in T => n + 1 \in T
    PROVE  Nat \subseteq T
<1> SUFFICES ASSUME Nat \ T # {} PROVE FALSE
  OBVIOUS
<1>1. PICK m \in Nat \ T : \A n \in Nat \ T : m <= n
  BY NatMin
<1>2. m # 0 /\ m - 1 \in Nat
  BY <1>1
<1>3. m - 1 \in T
  BY <1>1, <1>2
<1> QED BY <1>1, <1>2, <1>3

-----------------------------------------------------------------------------
(* FlattenSeq.                                                             *)
\* The sequences FlattenSeq puts together one after the other, up to the n-th.
Flattens(s, n, g) == g = [i \in 1 .. n |-> IF i = 1 THEN s[i] ELSE g[i - 1] \o s[i]]

\* They are extended by one more.
LEMMA FlattensExtended ==
    ASSUME NEW s, NEW n \in Nat, NEW g, Flattens(s, n, g)
    PROVE  Flattens(s, n + 1, [i \in 1 .. n + 1 |-> IF i <= n THEN g[i]
                                  ELSE IF n = 0 THEN s[1] ELSE g[n] \o s[n + 1]])
<1> DEFINE h == [i \in 1 .. n + 1 |-> IF i <= n THEN g[i]
                                  ELSE IF n = 0 THEN s[1] ELSE g[n] \o s[n + 1]]
           e(i) == IF i = 1 THEN s[i] ELSE h[i - 1] \o s[i]
<1>1. ASSUME NEW i \in 1 .. n + 1 PROVE h[i] = e(i)
  <2>1. CASE i <= n
    <3>1. i \in 1 .. n /\ h[i] = g[i]  BY <2>1
    <3>2. g[i] = IF i = 1 THEN s[i] ELSE g[i - 1] \o s[i]  BY <3>1 DEF Flattens
    <3>3. i # 1 => i - 1 \in 1 .. n + 1 /\ h[i - 1] = g[i - 1]  BY <2>1
    <3> QED  BY <3>1, <3>2, <3>3
  <2>2. CASE i = n + 1
    <3>1. i # 1 => n # 0 /\ i - 1 = n /\ n \in 1 .. n + 1 /\ h[n] = g[n]  BY <2>2
    <3>2. h[i] = IF n = 0 THEN s[1] ELSE g[n] \o s[n + 1]  BY <2>2
    <3> QED  BY <2>2, <3>1, <3>2
  <2> QED  BY <2>1, <2>2
<1>2. h = [i \in 1 .. n + 1 |-> h[i]]
  OBVIOUS
<1> HIDE DEF h
<1>3. h = [i \in 1 .. n + 1 |-> e(i)]
  BY <1>1, <1>2
<1> QED  BY <1>3 DEF Flattens, h

\* There are such sequences, for every n.
LEMMA FlattensExists ==
    ASSUME NEW s, NEW n \in Nat
    PROVE  \E g : Flattens(s, n, g)
<1> DEFINE T == {m \in Nat : \E g : Flattens(s, m, g)}
<1>1. 0 \in T
  <2>1. Flattens(s, 0, <<>>)
    BY DEF Flattens
  <2> QED  BY <2>1
<1>2. ASSUME NEW m \in Nat, m \in T PROVE m + 1 \in T
  <2>1. PICK g : Flattens(s, m, g)  BY <1>2
  <2>2. \E h : Flattens(s, m + 1, h)  BY <2>1, FlattensExtended
  <2> QED  BY <2>2
<1> HIDE DEF T
<1>3. Nat \subseteq T  BY <1>1, <1>2, NatInductive
<1> QED  BY <1>3 DEF T

\* They are the same, however far they go.
LEMMA FlattensUnique ==
    ASSUME NEW s, NEW n \in Nat, NEW m \in Nat, n <= m,
           NEW g, Flattens(s, n, g), NEW h, Flattens(s, m, h)
    PROVE  \A i \in 1 .. n : g[i] = h[i]
<1> DEFINE T == {k \in Nat : k + 1 <= n => g[k + 1] = h[k + 1]}
<1>0. \A i \in 1 .. n : g[i] = IF i = 1 THEN s[i] ELSE g[i - 1] \o s[i]
  BY DEF Flattens
<1>1. \A i \in 1 .. m : h[i] = IF i = 1 THEN s[i] ELSE h[i - 1] \o s[i]
  BY DEF Flattens
<1>2. 0 \in T
  <2>1. CASE 1 <= n
    <3>1. g[1] = s[1] /\ h[1] = s[1]  BY <1>0, <1>1, <2>1
    <3> QED  BY <3>1
  <2>2. CASE ~ (1 <= n)
    BY <2>2
  <2> QED  BY <2>1, <2>2
<1>3. ASSUME NEW k \in Nat, k \in T PROVE k + 1 \in T
  <2> SUFFICES ASSUME k + 2 <= n PROVE g[k + 2] = h[k + 2]
    OBVIOUS
  <2>1. g[k + 1] = h[k + 1]  BY <1>3
  <2>2. g[k + 2] = g[k + 1] \o s[k + 2]
    <3>1. k + 2 \in 1 .. n /\ k + 2 # 1 /\ (k + 2) - 1 = k + 1  OBVIOUS
    <3> QED  BY <3>1, <1>0
  <2>3. h[k + 2] = h[k + 1] \o s[k + 2]
    <3>1. k + 2 \in 1 .. m /\ k + 2 # 1 /\ (k + 2) - 1 = k + 1  OBVIOUS
    <3> QED  BY <3>1, <1>1
  <2> QED  BY <2>1, <2>2, <2>3
<1>4. Nat \subseteq T
  <2> HIDE DEF T
  <2> QED  BY <1>2, <1>3, NatInductive
<1>5. ASSUME NEW i \in 1 .. n PROVE g[i] = h[i]
  <2>1. i - 1 \in T  BY <1>4
  <2> QED  BY <2>1
<1> QED  BY <1>5

\* FlattenSeq is the last of them.
LEMMA FlattenIs ==
    ASSUME NEW s, Len(s) \in Nat, Len(s) # 0
    PROVE  \E g : Flattens(s, Len(s), g) /\ FlattenSeq(s) = g[Len(s)]
<1> DEFINE f == CHOOSE g : Flattens(s, Len(s), g)
<1>1. Flattens(s, Len(s), f)
  BY FlattensExists
<1>2. FlattenSeq(s) = f[Len(s)]
  BY DEF FlattenSeq, Flattens
<1> QED  BY <1>1, <1>2

\* Nothing put together.
LEMMA FlattenEmpty == FlattenSeq(<<>>) = <<>>
  BY DEF FlattenSeq

\* One sequence put together is itself.
LEMMA FlattenOne ==
    ASSUME NEW S, NEW x \in Seq(S)
    PROVE  FlattenSeq(<<x>>) = x
<1> DEFINE s == <<x>>
<1>1. Len(s) = 1 /\ s[1] = x
  OBVIOUS
<1> HIDE DEF s
<1>2. Len(s) \in Nat /\ Len(s) # 0
  BY <1>1
<1>3. PICK g : Flattens(s, Len(s), g) /\ FlattenSeq(s) = g[Len(s)]
  BY <1>2, FlattenIs
<1>4. FlattenSeq(s) = x
  BY <1>1, <1>3 DEF Flattens
<1> QED  BY <1>4 DEF s

\* What is appended comes last.
LEMMA FlattenAppend ==
    ASSUME NEW S, NEW s \in Seq(Seq(S)), NEW x \in Seq(S)
    PROVE  FlattenSeq(Append(s, x)) = FlattenSeq(s) \o x
<1> DEFINE t == Append(s, x)
<1>1. /\ Len(s) \in Nat /\ Len(t) = Len(s) + 1
      /\ t[Len(s) + 1] = x /\ \A i \in 1 .. Len(s) : t[i] = s[i]
  BY AppendProperties
<1>2. CASE s = <<>>
  <2>1. t = <<x>>  BY <1>2
  <2> QED  BY <1>2, <2>1, FlattenOne, FlattenEmpty, ConcatEmptySeq
<1>3. CASE s # <<>>
  <2>1. Len(s) # 0  BY <1>3
  <2> HIDE DEF t
  <2>2. PICK g : Flattens(s, Len(s), g) /\ FlattenSeq(s) = g[Len(s)]
    BY <1>1, <2>1, FlattenIs
  <2>3. PICK h : Flattens(t, Len(t), h) /\ FlattenSeq(t) = h[Len(t)]
    <3>1. Len(t) \in Nat /\ Len(t) # 0  BY <1>1
    <3> QED  BY <3>1, FlattenIs
  <2>4. h[Len(t)] = h[Len(s)] \o x
    <3>1. Len(t) \in 1 .. Len(t) /\ Len(t) # 1 /\ Len(t) - 1 = Len(s)  BY <1>1, <2>1
    <3>2. h[Len(t)] = h[Len(t) - 1] \o t[Len(t)]  BY <2>3, <3>1 DEF Flattens
    <3> QED  BY <1>1, <3>1, <3>2
  <2>5. Flattens(s, Len(s), [i \in 1 .. Len(s) |-> h[i]])
    <3> DEFINE k == [i \in 1 .. Len(s) |-> h[i]]
    <3>1. ASSUME NEW i \in 1 .. Len(s)
          PROVE  k[i] = IF i = 1 THEN s[i] ELSE k[i - 1] \o s[i]
      <4>1. i \in 1 .. Len(t)  BY <1>1
      <4>2. h[i] = IF i = 1 THEN t[i] ELSE h[i - 1] \o t[i]
        BY <2>3, <4>1 DEF Flattens
      <4>3. i # 1 => i - 1 \in 1 .. Len(s)  BY <1>1
      <4> QED  BY <1>1, <4>2, <4>3
    <3>2. k = [i \in 1 .. Len(s) |-> k[i]]  OBVIOUS
    <3> HIDE DEF k
    <3>3. k = [i \in 1 .. Len(s) |-> IF i = 1 THEN s[i] ELSE k[i - 1] \o s[i]]
      BY <3>1, <3>2
    <3> QED  BY <3>3 DEF Flattens, k
  <2>6. g[Len(s)] = h[Len(s)]
    <3>1. \A i \in 1 .. Len(s) : g[i] = [j \in 1 .. Len(s) |-> h[j]][i]
      BY <1>1, <2>2, <2>5, FlattensUnique
    <3> QED  BY <1>1, <2>1, <3>1
  <2> QED  BY <2>2, <2>3, <2>4, <2>6 DEF t
<1> QED  BY <1>2, <1>3

\* What is put together has the elements of its parts.
LEMMA FlattenType ==
    ASSUME NEW S
    PROVE  \A s \in Seq(Seq(S)) : FlattenSeq(s) \in Seq(S)
<1> DEFINE T == {n \in Nat : \A s \in Seq(Seq(S)) : Len(s) = n => FlattenSeq(s) \in Seq(S)}
<1>1. 0 \in T
  <2>1. ASSUME NEW s \in Seq(Seq(S)), Len(s) = 0 PROVE FlattenSeq(s) \in Seq(S)
    <3>1. s = <<>>  BY <2>1
    <3> QED  BY <3>1, FlattenEmpty, EmptySeq
  <2> QED  BY <2>1
<1>2. ASSUME NEW n \in Nat, n \in T PROVE n + 1 \in T
  <2>1. ASSUME NEW s \in Seq(Seq(S)), Len(s) = n + 1 PROVE FlattenSeq(s) \in Seq(S)
    <3>1. PICK t \in Seq(Seq(S)), x \in Seq(S) : s = Append(t, x)
      <4>1. s # <<>>  BY <2>1
      <4> QED  BY <4>1, SequenceEmptyOrAppend
    <3>2. Len(t) = n  BY <2>1, <3>1, AppendProperties
    <3>3. FlattenSeq(t) \in Seq(S)  BY <1>2, <3>2
    <3> QED  BY <3>1, <3>3, FlattenAppend, ConcatProperties
  <2> QED  BY <2>1
<1> HIDE DEF T
<1>3. Nat \subseteq T  BY <1>1, <1>2, NatInductive
<1> QED  BY <1>3, LenProperties DEF T

\* What is put together by appending comes apart from the front as well.
LEMMA FlattenHead ==
    ASSUME NEW S
    PROVE  \A s \in Seq(Seq(S)) : s # <<>> => FlattenSeq(s) = Head(s) \o FlattenSeq(Tail(s))
<1> DEFINE Good(s) == FlattenSeq(s) = Head(s) \o FlattenSeq(Tail(s))
           T == {n \in Nat : \A s \in Seq(Seq(S)) : Len(s) = n /\ s # <<>> => Good(s)}
<1>1. 0 \in T
  OBVIOUS
<1>2. ASSUME NEW n \in Nat, n \in T PROVE n + 1 \in T
  <2>1. ASSUME NEW s \in Seq(Seq(S)), Len(s) = n + 1, s # <<>> PROVE Good(s)
    <3>1. PICK t \in Seq(Seq(S)), x \in Seq(S) : s = Append(t, x)
      BY <2>1, SequenceEmptyOrAppend
    <3>2. Len(t) = n  BY <2>1, <3>1, AppendProperties
    <3>3. FlattenSeq(s) = FlattenSeq(t) \o x  BY <3>1, FlattenAppend
    <3>4. CASE t = <<>>
      <4>1. Head(s) = x /\ Tail(s) = <<>>  BY <3>1, <3>4, HeadTailAppend
      <4>2. FlattenSeq(s) = x  BY <3>3, <3>4, FlattenEmpty, ConcatEmptySeq
      <4> QED  BY <4>1, <4>2, FlattenEmpty, ConcatEmptySeq
    <3>5. CASE t # <<>>
      <4>1. Head(s) = Head(t) /\ Tail(s) = Append(Tail(t), x)  BY <3>1, <3>5, HeadTailAppend
      <4>2. Head(t) \in Seq(S) /\ Tail(t) \in Seq(Seq(S))  BY <3>5, HeadTailProperties
      <4>3. FlattenSeq(Tail(t)) \in Seq(S)  BY <4>2, FlattenType
      <4>4. FlattenSeq(Tail(s)) = FlattenSeq(Tail(t)) \o x  BY <4>1, <4>2, FlattenAppend
      <4>5. FlattenSeq(t) = Head(t) \o FlattenSeq(Tail(t))  BY <1>2, <3>2, <3>5
      <4>6. (Head(t) \o FlattenSeq(Tail(t))) \o x = Head(t) \o (FlattenSeq(Tail(t)) \o x)
        <5> DEFINE h == Head(t)  f == FlattenSeq(Tail(t))
        <5>1. h \in Seq(S) /\ f \in Seq(S)  BY <4>2, <4>3
        <5> HIDE DEF h, f
        <5>2. (h \o f) \o x = h \o (f \o x)  BY <5>1, ConcatAssociative
        <5> QED  BY <5>2 DEF h, f
      <4> QED  BY <3>3, <4>1, <4>4, <4>5, <4>6
    <3> QED  BY <3>4, <3>5
  <2> QED  BY <2>1
<1> HIDE DEF T
<1>3. Nat \subseteq T  BY <1>1, <1>2, NatInductive
<1> QED  BY <1>3, LenProperties DEF T

-----------------------------------------------------------------------------
(* Sequences of integers in their order.                                   *)
Sorted(s) == \A i, j \in 1 .. Len(s) : i < j => s[i] < s[j]

Below(a, b) == \A i \in 1 .. Len(a), j \in 1 .. Len(b) : a[i] < b[j]

UpTo(s, n) == \A i \in 1 .. Len(s) : s[i] <= n

\* The length of two sequences, one behind the other.
LEMMA ConcatLength ==
    ASSUME NEW S, NEW a \in Seq(S), NEW b \in Seq(S)
    PROVE  Len(a \o b) = Len(a) + Len(b) /\ Len(a) \in Nat /\ Len(b) \in Nat
  BY ConcatProperties

\* Their places.
LEMMA ConcatIndex ==
    ASSUME NEW S, NEW a \in Seq(S), NEW b \in Seq(S)
    PROVE  /\ \A i \in 1 .. Len(a) : i \in 1 .. Len(a \o b) /\ (a \o b)[i] = a[i]
           /\ \A i \in 1 .. Len(b) : /\ Len(a) + i \in 1 .. Len(a \o b)
                                     /\ (a \o b)[Len(a) + i] = b[i]
           /\ \A k \in 1 .. Len(a \o b) :
                 \/ k \in 1 .. Len(a) /\ (a \o b)[k] = a[k]
                 \/ k > Len(a) /\ k - Len(a) \in 1 .. Len(b) /\ (a \o b)[k] = b[k - Len(a)]
  BY ConcatProperties

\* They are sorted if each of them is, and the first lies below the second.
LEMMA ConcatSorted ==
    ASSUME NEW a \in Seq(Int), NEW b \in Seq(Int)
    PROVE  Sorted(a \o b) <=> Sorted(a) /\ Sorted(b) /\ Below(a, b)
<1> DEFINE c == a \o b
<1>1. /\ \A i \in 1 .. Len(a) : i \in 1 .. Len(c) /\ c[i] = a[i]
      /\ \A i \in 1 .. Len(b) : Len(a) + i \in 1 .. Len(c) /\ c[Len(a) + i] = b[i]
      /\ \A k \in 1 .. Len(c) : \/ k \in 1 .. Len(a) /\ c[k] = a[k]
                                \/ /\ k > Len(a) /\ k - Len(a) \in 1 .. Len(b)
                                   /\ c[k] = b[k - Len(a)]
  BY ConcatIndex
<1>2. Len(a) \in Nat /\ Len(b) \in Nat
  OBVIOUS
<1> HIDE DEF c
<1>3. ASSUME Sorted(c) PROVE Sorted(a) /\ Sorted(b) /\ Below(a, b)
  <2>1. Sorted(a)  BY <1>1, <1>3 DEF Sorted
  <2>2. ASSUME NEW i \in 1 .. Len(b), NEW j \in 1 .. Len(b), i < j PROVE b[i] < b[j]
    <3>1. Len(a) + i < Len(a) + j  BY <1>2, <2>2
    <3> QED  BY <1>1, <1>3, <3>1 DEF Sorted
  <2>3. ASSUME NEW i \in 1 .. Len(a), NEW j \in 1 .. Len(b) PROVE a[i] < b[j]
    <3>1. i < Len(a) + j  BY <1>2
    <3> QED  BY <1>1, <1>3, <3>1 DEF Sorted
  <2> QED  BY <2>1, <2>2, <2>3 DEF Sorted, Below
<1>4. ASSUME Sorted(a), Sorted(b), Below(a, b) PROVE Sorted(c)
  <2> SUFFICES ASSUME NEW i \in 1 .. Len(c), NEW j \in 1 .. Len(c), i < j PROVE c[i] < c[j]
    BY DEF Sorted
  <2>1. CASE j \in 1 .. Len(a) /\ c[j] = a[j]
    <3>1. i \in 1 .. Len(a)  BY <1>2, <2>1
    <3> QED  BY <1>1, <1>4, <2>1, <3>1 DEF Sorted
  <2>2. CASE j > Len(a) /\ j - Len(a) \in 1 .. Len(b) /\ c[j] = b[j - Len(a)]
    <3>1. CASE i \in 1 .. Len(a) /\ c[i] = a[i]
      BY <1>4, <2>2, <3>1 DEF Below
    <3>2. CASE i > Len(a) /\ i - Len(a) \in 1 .. Len(b) /\ c[i] = b[i - Len(a)]
      <4>1. i - Len(a) < j - Len(a)  BY <1>2
      <4> QED  BY <1>4, <2>2, <3>2, <4>1 DEF Sorted
    <3> QED  BY <1>1, <3>1, <3>2
  <2> QED  BY <1>1, <2>1, <2>2
<1> QED  BY <1>3, <1>4 DEF c

\* They lie below, and above, what both do.
LEMMA ConcatBelow ==
    ASSUME NEW a \in Seq(Int), NEW b \in Seq(Int), NEW c \in Seq(Int)
    PROVE  /\ Below(a \o b, c) <=> Below(a, c) /\ Below(b, c)
           /\ Below(c, a \o b) <=> Below(c, a) /\ Below(c, b)
<1> DEFINE d == a \o b
<1>1. /\ \A i \in 1 .. Len(a) : i \in 1 .. Len(d) /\ d[i] = a[i]
      /\ \A i \in 1 .. Len(b) : Len(a) + i \in 1 .. Len(d) /\ d[Len(a) + i] = b[i]
      /\ \A k \in 1 .. Len(d) : \/ k \in 1 .. Len(a) /\ d[k] = a[k]
                                \/ k - Len(a) \in 1 .. Len(b) /\ d[k] = b[k - Len(a)]
  BY ConcatIndex
<1> HIDE DEF d
<1>2. Below(d, c) => Below(a, c) /\ Below(b, c)
  BY <1>1 DEF Below
<1>3. Below(a, c) /\ Below(b, c) => Below(d, c)
  BY <1>1 DEF Below
<1>4. Below(c, d) => Below(c, a) /\ Below(c, b)
  BY <1>1 DEF Below
<1>5. Below(c, a) /\ Below(c, b) => Below(c, d)
  BY <1>1 DEF Below
<1> QED  BY <1>2, <1>3, <1>4, <1>5 DEF d

\* They reach as far as both.
LEMMA ConcatUpTo ==
    ASSUME NEW a \in Seq(Int), NEW b \in Seq(Int), NEW n \in Int
    PROVE  UpTo(a \o b, n) <=> UpTo(a, n) /\ UpTo(b, n)
<1> DEFINE d == a \o b
<1>1. /\ \A i \in 1 .. Len(a) : i \in 1 .. Len(d) /\ d[i] = a[i]
      /\ \A i \in 1 .. Len(b) : Len(a) + i \in 1 .. Len(d) /\ d[Len(a) + i] = b[i]
      /\ \A k \in 1 .. Len(d) : \/ k \in 1 .. Len(a) /\ d[k] = a[k]
                                \/ k - Len(a) \in 1 .. Len(b) /\ d[k] = b[k - Len(a)]
  BY ConcatIndex
<1> HIDE DEF d
<1>2. UpTo(d, n) => UpTo(a, n) /\ UpTo(b, n)
  BY <1>1 DEF UpTo
<1>3. UpTo(a, n) /\ UpTo(b, n) => UpTo(d, n)
  BY <1>1 DEF UpTo
<1> QED  BY <1>2, <1>3 DEF d

\* A sequence in two parts.
LEMMA SplitSeq ==
    ASSUME NEW S, NEW s \in Seq(S), NEW n \in 0 .. Len(s)
    PROVE  /\ SubSeq(s, 1, n) \in Seq(S) /\ SubSeq(s, n + 1, Len(s)) \in Seq(S)
           /\ Len(SubSeq(s, 1, n)) = n /\ Len(SubSeq(s, n + 1, Len(s))) = Len(s) - n
           /\ SubSeq(s, 1, n) \o SubSeq(s, n + 1, Len(s)) = s
           /\ \A i \in 1 .. n : SubSeq(s, 1, n)[i] = s[i]
           /\ \A i \in 1 .. Len(s) - n : SubSeq(s, n + 1, Len(s))[i] = s[n + i]
<1>1. Len(s) \in Nat /\ \A i \in 1 .. Len(s) : s[i] \in S
  OBVIOUS
<1>2. /\ SubSeq(s, 1, n) \in Seq(S) /\ Len(SubSeq(s, 1, n)) = n
      /\ \A i \in 1 .. n : SubSeq(s, 1, n)[i] = s[i]
  BY <1>1, SubSeqProperties
<1>3. /\ SubSeq(s, n + 1, Len(s)) \in Seq(S) /\ Len(SubSeq(s, n + 1, Len(s))) = Len(s) - n
      /\ \A i \in 1 .. Len(s) - n : SubSeq(s, n + 1, Len(s))[i] = s[n + i]
  BY <1>1, SubSeqProperties
<1>4. SubSeq(s, 1, n) \o SubSeq(s, n + 1, Len(s)) = s
  <2> DEFINE a == SubSeq(s, 1, n)  b == SubSeq(s, n + 1, Len(s))
  <2>1. a \in Seq(S) /\ Len(a) = n /\ \A i \in 1 .. n : a[i] = s[i]
    BY <1>2, Zenon
  <2>2. b \in Seq(S) /\ Len(b) = Len(s) - n /\ \A i \in 1 .. Len(s) - n : b[i] = s[n + i]
    BY <1>3, Zenon
  <2> HIDE DEF a, b
  <2>3. Len(a) + Len(b) = Len(s)
    BY <1>1, <2>1, <2>2
  <2>4. /\ a \o b \in Seq(S) /\ Len(a \o b) = Len(s)
        /\ \A i \in 1 .. Len(s) : (a \o b)[i] = IF i <= n THEN a[i] ELSE b[i - n]
    BY <2>1, <2>2, <2>3, ConcatProperties
  <2>5. ASSUME NEW i \in 1 .. Len(s) PROVE (a \o b)[i] = s[i]
    <3>1. CASE i <= n
      BY <2>1, <2>4, <3>1
    <3>2. CASE ~ (i <= n)
      <4>1. i - n \in 1 .. Len(s) - n /\ n + (i - n) = i  BY <1>1, <3>2
      <4>2. b[i - n] = s[n + (i - n)]  BY <2>2, <4>1
      <4> QED  BY <2>4, <3>2, <4>1, <4>2
    <3> QED  BY <3>1, <3>2
  <2>6. a \o b = s  BY <2>4, <2>5, SeqEqual
  <2> QED  BY <2>6 DEF a, b
<1> QED  BY <1>2, <1>3, <1>4

\* The two parts, without their elements.
LEMMA SplitParts ==
    ASSUME NEW S, NEW s \in Seq(S), NEW n \in 0 .. Len(s)
    PROVE  /\ SubSeq(s, 1, n) \in Seq(S) /\ SubSeq(s, n + 1, Len(s)) \in Seq(S)
           /\ Len(SubSeq(s, 1, n)) = n /\ Len(SubSeq(s, n + 1, Len(s))) = Len(s) - n
           /\ SubSeq(s, 1, n) \o SubSeq(s, n + 1, Len(s)) = s
BY SplitSeq, Zenon

\* Every element of two sequences put together is one of the first or of the second.
HasTheirs(c, a, b) ==
    \A k \in 1 .. Len(c) : \/ k \in 1 .. Len(a) /\ c[k] = a[k]
                           \/ /\ k > Len(a) /\ k - Len(a) \in 1 .. Len(b)
                              /\ c[k] = b[k - Len(a)]

LEMMA ConcatHasTheirs ==
    ASSUME NEW S, NEW a \in Seq(S), NEW b \in Seq(S)
    PROVE  HasTheirs(a \o b, a, b)
BY ConcatIndex DEF HasTheirs

\* It does not matter which of three sequences are put together first.
Regroups(a, b, c) == (a \o b) \o c = a \o (b \o c)

LEMMA SequencesRegroup ==
    ASSUME NEW S, NEW a \in Seq(S), NEW b \in Seq(S), NEW c \in Seq(S)
    PROVE  Regroups(a, b, c)
BY ConcatAssociative DEF Regroups

=============================================================================
