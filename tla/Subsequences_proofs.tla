-------------------------- MODULE Subsequences_proofs --------------------------
(***************************************************************************)
(* What recursive definitions on sequences compute, for every sequence:    *)
(* the lemmas that the proofs about the components cite.                   *)
(*                                                                         *)
(* The theorems of induction in the library take an operator, which the    *)
(* provers cannot instantiate.  UpTo and Recursion say the same of sets    *)
(* and functions: the induction is on a set of numbers, and the recursion  *)
(* is given as a function; both rest on the order of Nat being well        *)
(* founded.                                                                *)
(***************************************************************************)
EXTENDS Subsequences, SequencesExt, SequenceTheorems, WellFoundedInduction, NaturalsInduction,
        TLAPS

-----------------------------------------------------------------------------
(* Induction.                                                              *)

\* Induction up to N, over the set of the numbers that have the property.
LEMMA UpTo ==
    ASSUME NEW N \in Nat, NEW T, 0 \in T, \A n \in 1..N : n - 1 \in T => n \in T
    PROVE  0..N \subseteq T
  <1> DEFINE R == {ss \in Nat \X Nat : ss[1] < ss[2]}
             Out == (0..N) \ T
  <1>1. OpToRel(<, Nat) = R
    BY DEF OpToRel
  <1>2. IsWellFoundedOn(R, Nat)
    BY <1>1, NatLessThanWellFounded
  <1>3. SUFFICES ASSUME Out # {} PROVE FALSE
    OBVIOUS
  <1>4. \E x \in Out : \A y \in Out : ~(<<y, x>> \in R)
    <2>1. Out \subseteq Nat
      OBVIOUS
    <2> QED
      BY <1>2, <1>3, <2>1, WFMin
  <1>5. PICK x \in Out : \A y \in Out : ~(<<y, x>> \in R)
    BY <1>4
  <1>6. x \in 1..N /\ x - 1 \in Nat /\ x - 1 < x /\ x - 1 \in 0..N
    OBVIOUS
  <1>7. x - 1 \in Out
    BY <1>6
  <1>8. <<x - 1, x>> \in R
    BY <1>6
  <1> HIDE DEF R, Out
  <1> QED
    BY <1>5, <1>7, <1>8

\* f begins with a, and step makes its value at n of that at n - 1.
Steps(f, N, a, step) == f[0] = a /\ \A n \in 1..N : f[n] = step[n][f[n - 1]]

\* A function can be defined step by step.
LEMMA Recursion ==
    ASSUME NEW N \in Nat, NEW S, NEW a \in S, NEW step \in [1..N -> [S -> S]]
    PROVE  \E f \in [0..N -> S] : Steps(f, N, a, step)
  <1> DEFINE T == {n \in 0..N : \E f \in [0..n -> S] :
                                  f[0] = a /\ \A m \in 1..n : f[m] = step[m][f[m - 1]]}
  <1>1. 0 \in T
    <2> DEFINE z == [n \in 0..0 |-> a]
    <2>1. z \in [0..0 -> S] /\ z[0] = a /\ 0 \in 0..N
      OBVIOUS
    <2>2. \A m \in 1..0 : z[m] = step[m][z[m - 1]]
      OBVIOUS
    <2> HIDE DEF z
    <2> QED
      BY <2>1, <2>2
  <1>2. ASSUME NEW n \in 1..N, n - 1 \in T PROVE n \in T
    <2>1. PICK f \in [0..(n - 1) -> S] :
              f[0] = a /\ \A m \in 1..(n - 1) : f[m] = step[m][f[m - 1]]
      BY <1>2
    <2> DEFINE g == [m \in 0..n |-> IF m = n THEN step[n][f[n - 1]] ELSE f[m]]
    <2>2. f[n - 1] \in S /\ step[n][f[n - 1]] \in S
      <3>1. n - 1 \in 0..(n - 1) /\ n \in 1..N
        OBVIOUS
      <3>2. f[n - 1] \in S
        BY <3>1
      <3>3. step[n] \in [S -> S]
        BY <3>1
      <3> QED
        BY <3>2, <3>3
    <2>3. g \in [0..n -> S]
      <3>1. \A m \in 0..n : m # n => m \in 0..(n - 1)
        OBVIOUS
      <3> QED
        BY <2>2, <3>1
    <2>4. g[0] = a
      BY <2>1
    <2>5. ASSUME NEW m \in 1..n PROVE g[m] = step[m][g[m - 1]]
      <3>1. m \in 0..n /\ m - 1 \in 0..n /\ m - 1 # n
        OBVIOUS
      <3>2. g[m - 1] = f[m - 1]
        BY <3>1
      <3>3. m # n => m \in 1..(n - 1) /\ g[m] = f[m]
        BY <3>1
      <3>4. m = n => g[m] = step[n][f[n - 1]]
        BY <3>1
      <3> QED
        BY <2>1, <3>2, <3>3, <3>4
    <2>6. n \in 0..N
      OBVIOUS
    <2> HIDE DEF g
    <2> QED
      BY <2>3, <2>4, <2>5, <2>6
  <1>3. 0..N \subseteq T
    <2> HIDE DEF T
    <2> QED
      BY <1>1, <1>2, UpTo
  <1>4. N \in T
    BY <1>3
  <1> QED
    BY <1>4 DEF Steps

\* Two functions begin alike, and go on alike.
Alike(f, g, N) == f[0] = g[0] /\ \A n \in 1..N : f[n - 1] = g[n - 1] => f[n] = g[n]

\* Then they are alike.
LEMMA StepsAgree ==
    ASSUME NEW N \in Nat, NEW f, NEW g, Alike(f, g, N)
    PROVE  \A n \in 0..N : f[n] = g[n]
  <1> USE DEF Alike
  <1> DEFINE T == {n \in 0..N : f[n] = g[n]}
  <1>1. 0 \in T
    OBVIOUS
  <1>2. \A n \in 1..N : n - 1 \in T => n \in T
    OBVIOUS
  <1>3. 0..N \subseteq T
    <2> HIDE DEF T
    <2> QED
      BY <1>1, <1>2, UpTo
  <1> QED
    BY <1>3

-----------------------------------------------------------------------------
(* The elements of a sequence.                                             *)

\* An element of a sequence is one of its values.
LEMMA ElementAt ==
    ASSUME NEW T, NEW s \in Seq(T)
    PROVE  /\ ToSet(s) \subseteq T
           /\ \A x : x \in ToSet(s) <=> \E i \in 1..Len(s) : s[i] = x
  BY DEF ToSet

\* Appending, joining and taking the head of sequences, by their elements.
LEMMA AppendElements ==
    ASSUME NEW T, NEW s \in Seq(T), NEW x \in T
    PROVE  ToSet(Append(s, x)) = ToSet(s) \cup {x}
  <1>1. Append(s, x) \in Seq(T) /\ Len(Append(s, x)) = Len(s) + 1
    OBVIOUS
  <1>2. \A i \in 1..Len(s) : Append(s, x)[i] = s[i]
    OBVIOUS
  <1>3. Append(s, x)[Len(s) + 1] = x
    OBVIOUS
  <1>4. ASSUME NEW y \in ToSet(Append(s, x)) PROVE y \in ToSet(s) \cup {x}
    BY <1>1, <1>2, <1>3 DEF ToSet
  <1>5. ASSUME NEW y \in ToSet(s) PROVE y \in ToSet(Append(s, x))
    BY <1>1, <1>2 DEF ToSet
  <1>6. x \in ToSet(Append(s, x))
    BY <1>1, <1>3 DEF ToSet
  <1> QED
    BY <1>4, <1>5, <1>6

\* See AppendElements.
LEMMA ConcatElements ==
    ASSUME NEW T, NEW s \in Seq(T), NEW t \in Seq(T)
    PROVE  ToSet(s \o t) = ToSet(s) \cup ToSet(t)
  <1>1. s \o t \in Seq(T) /\ Len(s \o t) = Len(s) + Len(t)
    OBVIOUS
  <1>2. \A i \in 1..Len(s) : (s \o t)[i] = s[i]
    OBVIOUS
  <1>3. \A i \in 1..Len(t) : (s \o t)[i + Len(s)] = t[i]
    OBVIOUS
  <1>4. ASSUME NEW y \in ToSet(s \o t) PROVE y \in ToSet(s) \cup ToSet(t)
    <2>1. PICK i \in 1..(Len(s) + Len(t)) : (s \o t)[i] = y
      BY <1>1, ElementAt
    <2>2. CASE i <= Len(s)
      BY <2>1, <2>2, <1>2, ElementAt
    <2>3. CASE i > Len(s)
      <3>1. i - Len(s) \in 1..Len(t) /\ t[i - Len(s)] = y
        BY <2>1, <2>3
      <3>2. DOMAIN t = 1..Len(t)
        OBVIOUS
      <3>3. t[i - Len(s)] \in ToSet(t)
        BY <3>1, <3>2, Zenon DEF ToSet
      <3> QED
        BY <3>1, <3>3
    <2> QED
      BY <2>2, <2>3
  <1>5. ASSUME NEW y \in ToSet(s) PROVE y \in ToSet(s \o t)
    BY <1>1, <1>2 DEF ToSet
  <1>6. ASSUME NEW y \in ToSet(t) PROVE y \in ToSet(s \o t)
    <2>1. PICK i \in 1..Len(t) : t[i] = y
      BY ElementAt
    <2>2. i + Len(s) \in 1..Len(s \o t) /\ (s \o t)[i + Len(s)] = y
      BY <2>1, <1>1, <1>3
    <2> QED
      BY <2>2, <1>1, ElementAt
  <1> QED
    BY <1>4, <1>5, <1>6

\* See AppendElements.
LEMMA HeadTailElements ==
    ASSUME NEW T, NEW s \in Seq(T), s # <<>>
    PROVE  ToSet(s) = {Head(s)} \cup ToSet(Tail(s))
  <1>1. Tail(s) \in Seq(T) /\ Len(Tail(s)) = Len(s) - 1 /\ 1 \in 1..Len(s) /\ Head(s) = s[1]
    OBVIOUS
  <1>2. \A i \in 1..Len(Tail(s)) : Tail(s)[i] = s[i + 1]
    OBVIOUS
  <1>3. ASSUME NEW y \in ToSet(s) PROVE y \in {Head(s)} \cup ToSet(Tail(s))
    <2>1. PICK i \in 1..Len(s) : s[i] = y
      BY ElementAt
    <2>2. CASE i = 1
      BY <2>1, <2>2
    <2>3. CASE i > 1
      <3>1. i - 1 \in 1..Len(Tail(s)) /\ Tail(s)[i - 1] = y
        BY <2>1, <2>3, <1>1, <1>2
      <3>2. DOMAIN Tail(s) = 1..Len(Tail(s))
        BY <1>1
      <3> QED
        BY <3>1, <3>2, Zenon DEF ToSet
    <2> QED
      BY <2>2, <2>3
  <1>4. ASSUME NEW y \in ToSet(Tail(s)) PROVE y \in ToSet(s)
    <2>1. PICK i \in 1..Len(Tail(s)) : Tail(s)[i] = y
      BY <1>1, ElementAt
    <2>2. i + 1 \in 1..Len(s) /\ s[i + 1] = y
      BY <2>1, <1>1, <1>2
    <2> QED
      BY <2>2, ElementAt
  <1>5. Head(s) \in ToSet(s)
    BY <1>1, ElementAt
  <1> QED
    BY <1>3, <1>4, <1>5

\* No value is twice in a sequence that is joined of two: not in either, nor in both.
LEMMA ConcatDisjoint ==
    ASSUME NEW T, NEW s \in Seq(T), NEW t \in Seq(T),
           IsInjective(s), IsInjective(t), ToSet(s) \cap ToSet(t) = {}
    PROVE  IsInjective(s \o t)
  <1>1. s \o t \in Seq(T) /\ Len(s \o t) = Len(s) + Len(t)
    OBVIOUS
  <1>2. \A i \in 1..Len(s) : (s \o t)[i] = s[i] /\ s[i] \in ToSet(s)
    BY DEF ToSet
  <1>3. \A i \in 1..Len(s \o t) : i > Len(s) =>
            /\ i - Len(s) \in 1..Len(t)
            /\ (s \o t)[i] = t[i - Len(s)]
            /\ t[i - Len(s)] \in ToSet(t)
    BY <1>1 DEF ToSet
  <1>4. \A i, j \in 1..Len(s) : s[i] = s[j] => i = j
    BY DEF IsInjective
  <1>5. \A i, j \in 1..Len(t) : t[i] = t[j] => i = j
    BY DEF IsInjective
  <1>6. ASSUME NEW i \in 1..Len(s \o t), NEW j \in 1..Len(s \o t), (s \o t)[i] = (s \o t)[j]
        PROVE  i = j
    <2>1. i \in Nat /\ j \in Nat /\ Len(s) \in Nat
      BY <1>1
    <2>2. CASE i <= Len(s) /\ j <= Len(s)
      BY <1>2, <1>4, <1>6, <2>1, <2>2
    <2>3. CASE i > Len(s) /\ j > Len(s)
      <3>1. i - Len(s) = j - Len(s)
        BY <1>3, <1>5, <1>6, <2>3
      <3> QED
        BY <3>1, <2>1
    <2>4. CASE i <= Len(s) /\ j > Len(s)
      <3>1. (s \o t)[i] \in ToSet(s)
        BY <1>2, <2>1, <2>4
      <3>2. (s \o t)[j] \in ToSet(t)
        BY <1>3, <2>4
      <3> QED
        BY <1>6, <3>1, <3>2
    <2>5. CASE i > Len(s) /\ j <= Len(s)
      <3>1. (s \o t)[j] \in ToSet(s)
        BY <1>2, <2>1, <2>5
      <3>2. (s \o t)[i] \in ToSet(t)
        BY <1>3, <2>5
      <3> QED
        BY <1>6, <3>1, <3>2
    <2> QED
      BY <2>1, <2>2, <2>3, <2>4, <2>5
  <1> QED
    BY <1>1, <1>6 DEF IsInjective

\* A new value, put at the end.
LEMMA AppendNew ==
    ASSUME NEW T, NEW s \in Seq(T), NEW x \in T, IsInjective(s), x \notin ToSet(s)
    PROVE  IsInjective(Append(s, x))
  <1>1. Append(s, x) \in Seq(T) /\ Len(Append(s, x)) = Len(s) + 1 /\ Len(s) \in Nat
    OBVIOUS
  <1>2. \A i \in 1..Len(s) : Append(s, x)[i] = s[i] /\ s[i] \in ToSet(s)
    BY DEF ToSet
  <1>3. Append(s, x)[Len(s) + 1] = x
    OBVIOUS
  <1>4. \A i, j \in 1..Len(s) : s[i] = s[j] => i = j
    BY DEF IsInjective
  <1>5. \A i \in 1..(Len(s) + 1) : i \in 1..Len(s) \/ i = Len(s) + 1
    BY <1>1
  <1>6. ASSUME NEW i \in 1..(Len(s) + 1), NEW j \in 1..(Len(s) + 1),
               Append(s, x)[i] = Append(s, x)[j]
        PROVE  i = j
    BY <1>2, <1>3, <1>4, <1>5, <1>6
  <1>7. DOMAIN Append(s, x) = 1..(Len(s) + 1)
    BY <1>1
  <1> QED
    BY <1>6, <1>7 DEF IsInjective

\* What is left of a sequence after its first element.
LEMMA TailDistinct ==
    ASSUME NEW T, NEW s \in Seq(T), s # <<>>, IsInjective(s)
    PROVE  IsInjective(Tail(s)) /\ Head(s) \notin ToSet(Tail(s))
  <1>1. Tail(s) \in Seq(T) /\ Len(Tail(s)) = Len(s) - 1 /\ 1 \in 1..Len(s) /\ Head(s) = s[1]
    OBVIOUS
  <1>2. \A i \in 1..Len(Tail(s)) : i + 1 \in 1..Len(s) /\ Tail(s)[i] = s[i + 1] /\ i + 1 # 1
    BY <1>1
  <1>3. \A i, j \in 1..Len(s) : s[i] = s[j] => i = j
    BY DEF IsInjective
  <1>4. Head(s) \notin ToSet(Tail(s))
    BY <1>1, <1>2, <1>3 DEF ToSet
  <1>5. ASSUME NEW i \in 1..Len(Tail(s)), NEW j \in 1..Len(Tail(s)), Tail(s)[i] = Tail(s)[j]
        PROVE  i = j
    <2>1. i + 1 = j + 1
      BY <1>2, <1>3, <1>5
    <2> QED
      BY <2>1
  <1> QED
    BY <1>1, <1>4, <1>5 DEF IsInjective

\* A sequence, split in two.
LEMMA SplitAt ==
    ASSUME NEW T, NEW s \in Seq(T), NEW m \in 0..Len(s)
    PROVE  /\ SubSeq(s, 1, m) \in Seq(T)
           /\ SubSeq(s, m + 1, Len(s)) \in Seq(T)
           /\ SubSeq(s, 1, m) \o SubSeq(s, m + 1, Len(s)) = s
  <1>1. Len(s) \in Nat /\ m \in Nat
    OBVIOUS
  <1>2. 1 \in 1..(Len(s) + 1) /\ m \in (1 - 1)..Len(s) /\ Len(s) \in m..Len(s)
    BY <1>1
  <1>3. SubSeq(s, 1, m) \o SubSeq(s, m + 1, Len(s)) = SubSeq(s, 1, Len(s))
    BY <1>2, ConcatAdjacentSubSeq, ZenonT(20)
  <1>4. SubSeq(s, 1, m) \in Seq(T) /\ SubSeq(s, m + 1, Len(s)) \in Seq(T)
    BY <1>1
  <1> QED
    BY <1>3, <1>4, SubSeqFull

-----------------------------------------------------------------------------
(* Filter.                                                                 *)

\* The steps of the function that Filter is defined by.
Keeps(kept, s, S) ==
    /\ kept[0] = <<>>
    /\ \A n \in 1..Len(s) :
          kept[n] = IF s[n] \in S THEN Append(kept[n - 1], s[n]) ELSE kept[n - 1]

\* That function exists, and Filter is the last of its values.
LEMMA FilterSteps ==
    ASSUME NEW T, NEW s \in Seq(T), NEW S
    PROVE  \E kept \in [0..Len(s) -> Seq(T)] :
              Keeps(kept, s, S) /\ Filter(s, S) = kept[Len(s)]
  <1> DEFINE Is(f) == f = [n \in 0..Len(s) |->
                             IF n = 0 THEN <<>>
                             ELSE IF s[n] \in S THEN Append(f[n - 1], s[n]) ELSE f[n - 1]]
             step == [n \in 1..Len(s) |->
                        [t \in Seq(T) |-> IF s[n] \in S THEN Append(t, s[n]) ELSE t]]
             K == CHOOSE f : Is(f)
  <1>1. step \in [1..Len(s) -> [Seq(T) -> Seq(T)]]
    <2>1. \A n \in 1..Len(s) : step[n] \in [Seq(T) -> Seq(T)]
      OBVIOUS
    <2> QED
      BY <2>1
  <1>2. PICK f \in [0..Len(s) -> Seq(T)] : Steps(f, Len(s), <<>>, step)
    <2>1. <<>> \in Seq(T) /\ Len(s) \in Nat
      OBVIOUS
    <2> HIDE DEF step
    <2> QED
      BY <1>1, <2>1, Recursion
  <1>3. ASSUME NEW n \in 1..Len(s)
        PROVE  f[n] = IF s[n] \in S THEN Append(f[n - 1], s[n]) ELSE f[n - 1]
    <2>1. n - 1 \in 0..Len(s) /\ f[n - 1] \in Seq(T)
      OBVIOUS
    <2> QED
      BY <1>2, <2>1 DEF Steps
  <1>4. Is(f)
    <2>1. ASSUME NEW n \in 0..Len(s)
          PROVE  f[n] = IF n = 0 THEN <<>>
                        ELSE IF s[n] \in S THEN Append(f[n - 1], s[n]) ELSE f[n - 1]
      <3>1. n # 0 => n \in 1..Len(s)
        OBVIOUS
      <3> QED
        BY <1>2, <1>3, <3>1 DEF Steps
    <2> QED
      BY <2>1
  <1>5. Is(K)
    BY <1>4
  <1>6. Filter(s, S) = K[Len(s)]
    BY DEF Filter
  <1> HIDE DEF K
  <1>7. \A n \in 0..Len(s) : K[n] = IF n = 0 THEN <<>>
                          ELSE IF s[n] \in S THEN Append(K[n - 1], s[n]) ELSE K[n - 1]
    BY <1>5
  <1>8. Keeps(K, s, S)
    BY <1>7 DEF Keeps
  <1>9. \A n \in 0..Len(s) : K[n] \in Seq(T)
    <2> DEFINE G == {n \in 0..Len(s) : K[n] \in Seq(T)}
    <2>1. 0 \in G
      <3>1. 0 \in 0..Len(s) /\ <<>> \in Seq(T)
        OBVIOUS
      <3> QED
        BY <1>8, <3>1 DEF Keeps
    <2>2. ASSUME NEW n \in 1..Len(s), n - 1 \in G PROVE n \in G
      <3>1. n \in 0..Len(s) /\ K[n - 1] \in Seq(T) /\ s[n] \in T
        BY <2>2
      <3>2. Append(K[n - 1], s[n]) \in Seq(T)
        BY <3>1
      <3>3. K[n] = IF s[n] \in S THEN Append(K[n - 1], s[n]) ELSE K[n - 1]
        BY <1>8 DEF Keeps
      <3> QED
        BY <3>1, <3>2, <3>3
    <2>3. Len(s) \in Nat
      OBVIOUS
    <2>4. 0..Len(s) \subseteq G
      <3> HIDE DEF G
      <3> QED
        BY <2>1, <2>2, <2>3, UpTo
    <2> QED
      BY <2>4
  <1>10. K \in [0..Len(s) -> Seq(T)]
    BY <1>5, <1>9
  <1> QED
    BY <1>6, <1>8, <1>10

\* Filter keeps the elements that are in S, and those only; no value is twice in what it
\* keeps if none was twice in the sequence.
LEMMA FilterElements ==
    ASSUME NEW T, NEW s \in Seq(T), NEW S
    PROVE  /\ Filter(s, S) \in Seq(T)
           /\ ToSet(Filter(s, S)) = ToSet(s) \cap S
           /\ IsInjective(s) => IsInjective(Filter(s, S))
  <1>1. PICK kept \in [0..Len(s) -> Seq(T)] :
              Keeps(kept, s, S) /\ Filter(s, S) = kept[Len(s)]
    BY FilterSteps
  <1> DEFINE Upto(n) == {s[i] : i \in 1..n} \cap S
             G == {n \in 0..Len(s) : /\ ToSet(kept[n]) = Upto(n)
                                     /\ IsInjective(s) => IsInjective(kept[n])}
  <1>2. 0 \in G
    BY <1>1 DEF Keeps, ToSet, IsInjective
  <1>3. ASSUME NEW n \in 1..Len(s), n - 1 \in G PROVE n \in G
    <2>1. /\ n - 1 \in 0..Len(s) /\ n \in 0..Len(s)
          /\ kept[n - 1] \in Seq(T) /\ s[n] \in T
          /\ ToSet(kept[n - 1]) = Upto(n - 1)
          /\ IsInjective(s) => IsInjective(kept[n - 1])
      BY <1>3
    <2>2. Upto(n) = Upto(n - 1) \cup ({s[n]} \cap S)
      <3>1. \A i \in 1..n : i \in 1..(n - 1) \/ i = n
        OBVIOUS
      <3>2. \A i \in 1..(n - 1) : i \in 1..n
        OBVIOUS
      <3> QED
        BY <3>1, <3>2
    <2>3. IsInjective(s) => s[n] \notin Upto(n - 1)
      BY DEF IsInjective
    <2>4. kept[n] = IF s[n] \in S THEN Append(kept[n - 1], s[n]) ELSE kept[n - 1]
      BY <1>1 DEF Keeps
    <2> HIDE DEF Upto
    <2>5. CASE s[n] \in S
      <3>1. ToSet(kept[n]) = Upto(n)
        BY <2>1, <2>2, <2>4, <2>5, AppendElements
      <3>2. ASSUME IsInjective(s) PROVE IsInjective(kept[n])
        <4>1. IsInjective(kept[n - 1]) /\ s[n] \notin ToSet(kept[n - 1])
          BY <2>1, <2>3, <3>2
        <4>2. kept[n - 1] \in Seq(T) /\ s[n] \in T
          BY <2>1
        <4>3. IsInjective(Append(kept[n - 1], s[n]))
          BY <4>1, <4>2, AppendNew
        <4> QED
          BY <2>4, <2>5, <4>3
      <3> QED
        BY <2>1, <3>1, <3>2
    <2>6. CASE s[n] \notin S
      <3>1. Upto(n) = Upto(n - 1)
        BY <2>2, <2>6
      <3> QED
        BY <2>1, <2>4, <2>6, <3>1
    <2> QED
      BY <2>5, <2>6
  <1>4. Len(s) \in 0..Len(s) /\ Len(s) \in Nat
    OBVIOUS
  <1>5. Len(s) \in G
    <2> HIDE DEF G
    <2> QED
      BY <1>2, <1>3, <1>4, UpTo
  <1>6. Upto(Len(s)) = ToSet(s) \cap S
    BY DEF ToSet
  <1> QED
    BY <1>1, <1>4, <1>5, <1>6

-----------------------------------------------------------------------------
(* Total.                                                                  *)

\* The steps of the function that Total is defined by.
Adds(sum, f, s) ==
    sum[0] = 0 /\ \A n \in 1..Len(s) : sum[n] = sum[n - 1] + f[s[n]]

\* That function exists, and Total is the last of its values.
LEMMA TotalSteps ==
    ASSUME NEW T, NEW f \in [T -> Nat], NEW s \in Seq(T)
    PROVE  \E sum \in [0..Len(s) -> Nat] : Adds(sum, f, s) /\ Total(f, s) = sum[Len(s)]
  <1> DEFINE Is(g) == g = [n \in 0..Len(s) |-> IF n = 0 THEN 0 ELSE g[n - 1] + f[s[n]]]
             step == [n \in 1..Len(s) |-> [t \in Nat |-> t + f[s[n]]]]
             K == CHOOSE g : Is(g)
  <1>1. step \in [1..Len(s) -> [Nat -> Nat]]
    <2>1. \A n \in 1..Len(s) : f[s[n]] \in Nat
      OBVIOUS
    <2>2. \A n \in 1..Len(s) : step[n] \in [Nat -> Nat]
      BY <2>1
    <2> QED
      BY <2>2
  <1>2. PICK g \in [0..Len(s) -> Nat] : Steps(g, Len(s), 0, step)
    <2>1. 0 \in Nat /\ Len(s) \in Nat
      OBVIOUS
    <2> HIDE DEF step
    <2> QED
      BY <1>1, <2>1, Recursion
  <1>3. ASSUME NEW n \in 0..Len(s)
        PROVE  g[n] = IF n = 0 THEN 0 ELSE g[n - 1] + f[s[n]]
    <2>1. n # 0 => n \in 1..Len(s) /\ n - 1 \in 0..Len(s) /\ g[n - 1] \in Nat
      OBVIOUS
    <2> QED
      BY <1>2, <2>1 DEF Steps
  <1>4. Is(g)
    BY <1>3
  <1>5. Is(K)
    BY <1>4
  <1>6. Total(f, s) = K[Len(s)]
    BY DEF Total
  <1> HIDE DEF K
  <1>7. \A n \in 0..Len(s) : K[n] = IF n = 0 THEN 0 ELSE K[n - 1] + f[s[n]]
    BY <1>5
  <1>8. \A n \in 0..Len(s) : K[n] = g[n]
    <2>1. Alike(K, g, Len(s))
      BY <1>3, <1>7 DEF Alike
    <2>2. Len(s) \in Nat
      OBVIOUS
    <2> QED
      BY <2>1, <2>2, StepsAgree
  <1>9. K \in [0..Len(s) -> Nat]
    BY <1>5, <1>8
  <1>10. Adds(K, f, s)
    BY <1>7 DEF Adds
  <1> QED
    BY <1>6, <1>9, <1>10

\* The sum over an empty sequence, and over one with one element more.
LEMMA TotalAppend ==
    ASSUME NEW T, NEW f \in [T -> Nat]
    PROVE  /\ Total(f, <<>>) = 0
           /\ \A s \in Seq(T), x \in T :
                 Total(f, s) \in Nat /\ Total(f, Append(s, x)) = Total(f, s) + f[x]
  <1>1. Total(f, <<>>) = 0
    <2>1. <<>> \in Seq(T) /\ Len(<<>>) = 0
      OBVIOUS
    <2>2. PICK sum \in [0..Len(<<>>) -> Nat] : Adds(sum, f, <<>>) /\ Total(f, <<>>) = sum[Len(<<>>)]
      BY <2>1, TotalSteps
    <2> QED
      BY <2>1, <2>2 DEF Adds
  <1>2. ASSUME NEW s \in Seq(T), NEW x \in T
        PROVE  Total(f, s) \in Nat /\ Total(f, Append(s, x)) = Total(f, s) + f[x]
    <2> DEFINE t == Append(s, x)
    <2>1. /\ t \in Seq(T) /\ Len(t) = Len(s) + 1 /\ Len(s) \in Nat
          /\ t[Len(s) + 1] = x /\ \A n \in 1..Len(s) : t[n] = s[n]
      OBVIOUS
    <2> HIDE DEF t
    <2>2. PICK sum \in [0..Len(s) -> Nat] : Adds(sum, f, s) /\ Total(f, s) = sum[Len(s)]
      BY TotalSteps
    <2>3. PICK all \in [0..Len(t) -> Nat] : Adds(all, f, t) /\ Total(f, t) = all[Len(t)]
      BY <2>1, TotalSteps
    <2>4. Alike(sum, all, Len(s))
      <3>1. ASSUME NEW n \in 1..Len(s), sum[n - 1] = all[n - 1] PROVE sum[n] = all[n]
        <4>1. t[n] = s[n]
          BY <2>1
        <4>2. n \in 1..Len(t)
          <5>1. Len(t) = Len(s) + 1 /\ Len(s) \in Nat
            BY <2>1
          <5> QED
            BY <5>1
        <4> QED
          BY <2>2, <2>3, <3>1, <4>1, <4>2 DEF Adds
      <3> QED
        BY <2>2, <2>3, <3>1 DEF Adds, Alike
    <2>5. sum[Len(s)] = all[Len(s)]
      <3>1. \A n \in 0..Len(s) : sum[n] = all[n]
        BY <2>1, <2>4, StepsAgree
      <3> QED
        BY <2>1, <3>1
    <2>6. all[Len(t)] = all[Len(s)] + f[x]
      <3>1. Len(t) \in 1..Len(t) /\ Len(t) - 1 = Len(s)
        BY <2>1
      <3> QED
        BY <2>1, <2>3, <3>1 DEF Adds
    <2>7. sum[Len(s)] \in Nat
      BY <2>1
    <2> QED
      BY <2>2, <2>3, <2>5, <2>6, <2>7 DEF t
  <1> QED
    BY <1>1, <1>2

-----------------------------------------------------------------------------
(* FlattenSeq.                                                             *)

\* The steps of the function that FlattenSeq is defined by, begun with the empty sequence.
Joins(joined, ss) ==
    joined[0] = <<>> /\ \A n \in 1..Len(ss) : joined[n] = joined[n - 1] \o ss[n]

\* That function exists, and FlattenSeq is the last of its values.
LEMMA FlattenSteps ==
    ASSUME NEW T, NEW ss \in Seq(Seq(T))
    PROVE  \E joined \in [0..Len(ss) -> Seq(T)] :
              Joins(joined, ss) /\ FlattenSeq(ss) = joined[Len(ss)]
  <1> DEFINE Is(g) == g = [n \in 1..Len(ss) |-> IF n = 1 THEN ss[n] ELSE g[n - 1] \o ss[n]]
             step == [n \in 1..Len(ss) |-> [t \in Seq(T) |-> t \o ss[n]]]
             K == CHOOSE g : Is(g)
  <1>1. step \in [1..Len(ss) -> [Seq(T) -> Seq(T)]]
    <2>1. \A n \in 1..Len(ss) : ss[n] \in Seq(T)
      OBVIOUS
    <2>2. \A n \in 1..Len(ss) : step[n] \in [Seq(T) -> Seq(T)]
      BY <2>1
    <2> QED
      BY <2>2
  <1>2. PICK g \in [0..Len(ss) -> Seq(T)] : Steps(g, Len(ss), <<>>, step)
    <2>1. <<>> \in Seq(T) /\ Len(ss) \in Nat
      OBVIOUS
    <2> HIDE DEF step
    <2> QED
      BY <1>1, <2>1, Recursion
  <1>3. ASSUME NEW n \in 1..Len(ss) PROVE g[n] = g[n - 1] \o ss[n]
    <2>1. n - 1 \in 0..Len(ss)
      OBVIOUS
    <2>2. g[n - 1] \in Seq(T)
      BY <2>1
    <2> QED
      BY <1>2, <2>1, <2>2 DEF Steps
  <1>4. g[0] = <<>>
    BY <1>2 DEF Steps
  <1> HIDE DEF step
  <1>5. ASSUME NEW n \in 1..Len(ss) PROVE g[n] = IF n = 1 THEN ss[n] ELSE g[n - 1] \o ss[n]
    <2>1. ss[n] \in Seq(T)
      OBVIOUS
    <2>2. <<>> \o ss[n] = ss[n]
      BY <2>1
    <2>3. n = 1 => n - 1 = 0
      OBVIOUS
    <2> QED
      BY <1>3, <1>4, <2>2, <2>3
  <1>6. Is([n \in 1..Len(ss) |-> g[n]])
    <2> DEFINE h == [n \in 1..Len(ss) |-> g[n]]
    <2>1. ASSUME NEW n \in 1..Len(ss) PROVE h[n] = IF n = 1 THEN ss[n] ELSE h[n - 1] \o ss[n]
      <3>1. n # 1 => n - 1 \in 1..Len(ss)
        OBVIOUS
      <3> QED
        BY <1>5, <3>1
    <2> QED
      BY <2>1
  <1>7. Is(K)
    BY <1>6
  <1>8. FlattenSeq(ss) = IF Len(ss) = 0 THEN ss ELSE K[Len(ss)]
    BY DEF FlattenSeq
  <1> HIDE DEF K
  <1>9. ASSUME NEW n \in 1..Len(ss) PROVE K[n] = IF n = 1 THEN ss[n] ELSE K[n - 1] \o ss[n]
    BY <1>7
  <1> DEFINE J == [n \in 0..Len(ss) |-> IF n = 0 THEN <<>> ELSE K[n]]
  <1>10. ASSUME NEW n \in 1..Len(ss) PROVE J[n] = J[n - 1] \o ss[n]
    <2>1. ss[n] \in Seq(T) /\ n \in 0..Len(ss) /\ n - 1 \in 0..Len(ss)
      OBVIOUS
    <2>2. <<>> \o ss[n] = ss[n]
      BY <2>1
    <2>3. n = 1 => J[n - 1] = <<>>
      BY <2>1
    <2>4. n # 1 => J[n - 1] = K[n - 1]
      BY <2>1
    <2>5. J[n] = K[n]
      BY <2>1
    <2> QED
      BY <1>9, <2>2, <2>3, <2>4, <2>5
  <1>11. J[0] = <<>>
    OBVIOUS
  <1>12. FlattenSeq(ss) = J[Len(ss)]
    <2>1. Len(ss) \in 0..Len(ss) /\ (Len(ss) = 0 => ss = <<>>)
      OBVIOUS
    <2> QED
      BY <1>8, <2>1
  <1>13. DOMAIN J = 0..Len(ss) /\ J = [n \in 0..Len(ss) |-> J[n]]
    OBVIOUS
  <1> HIDE DEF J
  <1>14. \A n \in 0..Len(ss) : J[n] = g[n]
    <2>1. Alike(J, g, Len(ss))
      BY <1>3, <1>4, <1>10, <1>11 DEF Alike
    <2>2. Len(ss) \in Nat
      OBVIOUS
    <2> QED
      BY <2>1, <2>2, StepsAgree
  <1>15. J \in [0..Len(ss) -> Seq(T)]
    BY <1>13, <1>14
  <1>16. Joins(J, ss)
    BY <1>10, <1>11 DEF Joins
  <1> QED
    BY <1>12, <1>15, <1>16

\* The join of no sequence, and of one sequence more.
LEMMA FlattenAppend ==
    ASSUME NEW T
    PROVE  /\ FlattenSeq(<<>>) = <<>>
           /\ \A ss \in Seq(Seq(T)), t \in Seq(T) :
                 /\ FlattenSeq(ss) \in Seq(T)
                 /\ FlattenSeq(Append(ss, t)) = FlattenSeq(ss) \o t
  <1>1. FlattenSeq(<<>>) = <<>>
    BY DEF FlattenSeq
  <1>2. ASSUME NEW ss \in Seq(Seq(T)), NEW t \in Seq(T)
        PROVE  FlattenSeq(ss) \in Seq(T) /\ FlattenSeq(Append(ss, t)) = FlattenSeq(ss) \o t
    <2> DEFINE tt == Append(ss, t)
    <2>1. /\ tt \in Seq(Seq(T)) /\ Len(tt) = Len(ss) + 1 /\ Len(ss) \in Nat
          /\ tt[Len(ss) + 1] = t /\ \A n \in 1..Len(ss) : tt[n] = ss[n]
      OBVIOUS
    <2> HIDE DEF tt
    <2>2. PICK part \in [0..Len(ss) -> Seq(T)] : Joins(part, ss) /\ FlattenSeq(ss) = part[Len(ss)]
      BY FlattenSteps
    <2>3. PICK all \in [0..Len(tt) -> Seq(T)] : Joins(all, tt) /\ FlattenSeq(tt) = all[Len(tt)]
      BY <2>1, FlattenSteps
    <2>4. Alike(part, all, Len(ss))
      <3>1. ASSUME NEW n \in 1..Len(ss), part[n - 1] = all[n - 1] PROVE part[n] = all[n]
        <4>1. tt[n] = ss[n]
          BY <2>1
        <4>2. n \in 1..Len(tt)
          <5>1. Len(tt) = Len(ss) + 1 /\ Len(ss) \in Nat
            BY <2>1
          <5> QED
            BY <5>1
        <4> QED
          BY <2>2, <2>3, <3>1, <4>1, <4>2 DEF Joins
      <3> QED
        BY <2>2, <2>3, <3>1 DEF Joins, Alike
    <2>5. part[Len(ss)] = all[Len(ss)]
      <3>1. Len(ss) \in Nat
        BY <2>1, Zenon
      <3>2. \A n \in 0..Len(ss) : part[n] = all[n]
        BY <3>1, <2>4, StepsAgree, ZenonT(30)
      <3>3. ASSUME NEW n \in Nat PROVE n \in 0..n
        OBVIOUS
      <3> QED
        BY <3>1, <3>2, <3>3, Zenon
    <2>6. all[Len(tt)] = all[Len(ss)] \o t
      <3>1. Len(tt) \in 1..Len(tt) /\ Len(tt) - 1 = Len(ss)
        BY <2>1
      <3> QED
        BY <2>1, <2>3, <3>1 DEF Joins
    <2>7. part[Len(ss)] \in Seq(T)
      <3>1. Len(ss) \in 0..Len(ss)
        BY <2>1
      <3>2. \A n \in 0..Len(ss) : part[n] \in Seq(T)
        OBVIOUS
      <3> QED
        BY <3>1, <3>2, Zenon
    <2> QED
      BY <2>2, <2>3, <2>5, <2>6, <2>7 DEF tt
  <1> QED
    BY <1>1, <1>2

-----------------------------------------------------------------------------
(* Sums over sequences that are joined, filtered or taken apart.           *)

\* The sum of two sequences joined is the sum of theirs.
LEMMA TotalConcat ==
    ASSUME NEW T, NEW f \in [T -> Nat], NEW s \in Seq(T), NEW t \in Seq(T)
    PROVE  Total(f, s \o t) = Total(f, s) + Total(f, t)
  <1> DEFINE u == s \o t
  <1>1. /\ u \in Seq(T) /\ Len(u) = Len(s) + Len(t) /\ Len(s) \in Nat /\ Len(t) \in Nat
        /\ \A n \in 1..Len(s) : u[n] = s[n]
        /\ \A n \in 1..Len(t) : u[Len(s) + n] = t[n] /\ t[n] \in T
    OBVIOUS
  <1> HIDE DEF u
  <1>2. PICK first \in [0..Len(s) -> Nat] : Adds(first, f, s) /\ Total(f, s) = first[Len(s)]
    BY TotalSteps
  <1>3. PICK second \in [0..Len(t) -> Nat] : Adds(second, f, t) /\ Total(f, t) = second[Len(t)]
    BY TotalSteps
  <1>4. PICK all \in [0..Len(u) -> Nat] : Adds(all, f, u) /\ Total(f, u) = all[Len(u)]
    BY <1>1, TotalSteps
  <1>5. all[Len(s)] = Total(f, s) /\ Total(f, s) \in Nat
    <2>1. Alike(first, all, Len(s))
      <3>1. ASSUME NEW n \in 1..Len(s), first[n - 1] = all[n - 1] PROVE first[n] = all[n]
        <4>1. n \in 1..Len(u) /\ u[n] = s[n]
          BY <1>1
        <4> QED
          BY <1>2, <1>4, <3>1, <4>1 DEF Adds
      <3>2. first[0] = 0 /\ all[0] = 0
        BY <1>2, <1>4 DEF Adds
      <3> QED
        BY <3>1, <3>2, Zenon DEF Alike
    <2>2. \A n \in 0..Len(s) : first[n] = all[n]
      <3>1. Len(s) \in Nat
        OBVIOUS
      <3> QED
        BY <2>1, <3>1, StepsAgree, SMTT(30)
    <2>3. Len(s) \in 0..Len(s)
      BY <1>1
    <2> QED
      BY <1>2, <2>2, <2>3
  <1> DEFINE G == {n \in 0..Len(t) : all[Len(s) + n] = Total(f, s) + second[n]}
  <1>6. 0 \in G
    BY <1>1, <1>3, <1>5 DEF Adds
  <1>7. ASSUME NEW n \in 1..Len(t), n - 1 \in G PROVE n \in G
    <2>1. n - 1 \in 0..Len(t) /\ n \in 0..Len(t) /\ n \in Nat
      BY <1>1
    <2>2. all[Len(s) + (n - 1)] = Total(f, s) + second[n - 1]
      BY <1>7
    <2>3. second[n] = second[n - 1] + f[t[n]] /\ second[n - 1] \in Nat
      BY <1>3, <2>1 DEF Adds
    <2>4. all[Len(s) + n] = all[Len(s) + (n - 1)] + f[t[n]]
      <3>1. Len(s) + n \in 1..Len(u) /\ (Len(s) + n) - 1 = Len(s) + (n - 1)
        BY <1>1, <2>1
      <3>2. u[Len(s) + n] = t[n]
        BY <1>1
      <3>3. all[Len(s) + n] = all[(Len(s) + n) - 1] + f[u[Len(s) + n]]
        BY <1>4, <3>1 DEF Adds
      <3> QED
        BY <3>1, <3>2, <3>3
    <2>5. f[t[n]] \in Nat
      BY <1>1
    <2>6. all[Len(s) + n] = Total(f, s) + second[n]
      <3> DEFINE w == f[t[n]] x == Total(f, s) y == second[n - 1]
      <3>1. w \in Nat /\ x \in Nat /\ y \in Nat
        BY <1>5, <2>3, <2>5
      <3>2. all[Len(s) + n] = (x + y) + w /\ second[n] = y + w
        BY <2>2, <2>3, <2>4
      <3> HIDE DEF w, x, y
      <3>3. (x + y) + w = x + (y + w)
        BY <3>1
      <3> QED
        BY <3>2, <3>3 DEF x
    <2> QED
      BY <2>1, <2>6
  <1>8. Len(t) \in 0..Len(t) /\ Len(t) \in Nat
    BY <1>1
  <1>9. Len(t) \in G
    <2> HIDE DEF G
    <2> QED
      BY <1>1, <1>6, <1>7, <1>8, UpTo
  <1> QED
    BY <1>1, <1>3, <1>4, <1>9 DEF u

\* The sum of one element, and of a first element and the others.
LEMMA TotalHeadTail ==
    ASSUME NEW T, NEW f \in [T -> Nat]
    PROVE  /\ \A x \in T : Total(f, <<x>>) = f[x]
           /\ \A s \in Seq(T) : s # <<>> => Total(f, s) = f[Head(s)] + Total(f, Tail(s))
  <1>1. ASSUME NEW x \in T PROVE Total(f, <<x>>) = f[x]
    <2>1. <<x>> = Append(<<>>, x) /\ <<>> \in Seq(T) /\ f[x] \in Nat
      OBVIOUS
    <2>2. Total(f, Append(<<>>, x)) = Total(f, <<>>) + f[x] /\ Total(f, <<>>) = 0
      BY <2>1, TotalAppend
    <2> QED
      BY <2>1, <2>2
  <1>2. ASSUME NEW s \in Seq(T), s # <<>>
        PROVE  Total(f, s) = f[Head(s)] + Total(f, Tail(s))
    <2>1. /\ Head(s) \in T /\ <<Head(s)>> \in Seq(T) /\ Tail(s) \in Seq(T)
          /\ Len(<<Head(s)>> \o Tail(s)) = Len(s)
          /\ \A i \in 1..Len(s) : (<<Head(s)>> \o Tail(s))[i] = s[i]
      BY <1>2
    <2>2. <<Head(s)>> \o Tail(s) = s
      BY <2>1, SeqEqual
    <2> QED
      BY <1>1, <2>1, <2>2, TotalConcat
  <1> QED
    BY <1>1, <1>2

\* The sum of two elements.
LEMMA TotalTwo ==
    ASSUME NEW T, NEW f \in [T -> Nat], NEW x \in T, NEW y \in T
    PROVE  <<x, y>> \in Seq(T) /\ Total(f, <<x, y>>) = f[x] + f[y]
  <1>1. <<x>> \in Seq(T) /\ <<x, y>> = Append(<<x>>, y) /\ <<x, y>> \in Seq(T)
    OBVIOUS
  <1>2. Total(f, Append(<<x>>, y)) = Total(f, <<x>>) + f[y]
    BY <1>1, TotalAppend
  <1>3. Total(f, <<x>>) = f[x]
    BY TotalHeadTail
  <1> QED
    BY <1>1, <1>2, <1>3

\* What two filters that share no element keep weighs no more than the sequence.
LEMMA TotalFilter ==
    ASSUME NEW T, NEW f \in [T -> Nat], NEW s \in Seq(T), NEW S, NEW R, S \cap R = {}
    PROVE  Total(f, Filter(s, S)) + Total(f, Filter(s, R)) <= Total(f, s)
  <1>1. PICK a \in [0..Len(s) -> Seq(T)] : Keeps(a, s, S) /\ Filter(s, S) = a[Len(s)]
    BY FilterSteps
  <1>2. PICK b \in [0..Len(s) -> Seq(T)] : Keeps(b, s, R) /\ Filter(s, R) = b[Len(s)]
    BY FilterSteps
  <1>3. PICK sum \in [0..Len(s) -> Nat] : Adds(sum, f, s) /\ Total(f, s) = sum[Len(s)]
    BY TotalSteps
  <1> DEFINE G == {n \in 0..Len(s) : Total(f, a[n]) + Total(f, b[n]) <= sum[n]}
  <1>4. Total(f, <<>>) = 0
    BY TotalAppend
  <1>5. 0 \in G
    BY <1>1, <1>2, <1>3, <1>4 DEF Keeps, Adds
  <1>6. ASSUME NEW n \in 1..Len(s), n - 1 \in G PROVE n \in G
    <2>1. /\ n - 1 \in 0..Len(s) /\ n \in 0..Len(s) /\ s[n] \in T
          /\ a[n - 1] \in Seq(T) /\ b[n - 1] \in Seq(T) /\ sum[n - 1] \in Nat
          /\ Total(f, a[n - 1]) + Total(f, b[n - 1]) <= sum[n - 1]
      <3>1. n - 1 \in 0..Len(s) /\ n \in 0..Len(s)
        OBVIOUS
      <3>2. Total(f, a[n - 1]) + Total(f, b[n - 1]) <= sum[n - 1]
        BY <1>6
      <3>3. a[n - 1] \in Seq(T) /\ b[n - 1] \in Seq(T) /\ sum[n - 1] \in Nat
        BY <3>1, Zenon
      <3>4. s[n] \in T
        OBVIOUS
      <3> QED
        BY <3>1, <3>2, <3>3, <3>4
    <2>2. /\ a[n] = IF s[n] \in S THEN Append(a[n - 1], s[n]) ELSE a[n - 1]
          /\ b[n] = IF s[n] \in R THEN Append(b[n - 1], s[n]) ELSE b[n - 1]
          /\ sum[n] = sum[n - 1] + f[s[n]]
      BY <1>1, <1>2, <1>3 DEF Keeps, Adds
    <2>3. f[s[n]] \in Nat
      BY <2>1
    <2>4. /\ Total(f, a[n - 1]) \in Nat /\ Total(f, b[n - 1]) \in Nat
          /\ Total(f, Append(a[n - 1], s[n])) = Total(f, a[n - 1]) + f[s[n]]
          /\ Total(f, Append(b[n - 1], s[n])) = Total(f, b[n - 1]) + f[s[n]]
      <3>1. s[n] \in T /\ a[n - 1] \in Seq(T) /\ b[n - 1] \in Seq(T)
        BY <2>1
      <3>2. \A c \in Seq(T), x \in T :
               Total(f, c) \in Nat /\ Total(f, Append(c, x)) = Total(f, c) + f[x]
        BY TotalAppend
      <3> QED
        BY <3>1, <3>2, Zenon
    <2>5. ~(s[n] \in S /\ s[n] \in R)
      OBVIOUS
    <2>6. Total(f, a[n]) + Total(f, b[n]) <= sum[n]
      <3> DEFINE w == f[s[n]] x == Total(f, a[n - 1]) y == Total(f, b[n - 1])
      <3>1. w \in Nat /\ x \in Nat /\ y \in Nat /\ sum[n - 1] \in Nat /\ x + y <= sum[n - 1]
            /\ sum[n] = sum[n - 1] + w
        BY <2>1, <2>2, <2>3, <2>4
      <3>2. Total(f, a[n]) = IF s[n] \in S THEN x + w ELSE x
        BY <2>2, <2>4
      <3>3. Total(f, b[n]) = IF s[n] \in R THEN y + w ELSE y
        BY <2>2, <2>4
      <3> HIDE DEF w, x, y
      <3> QED
        BY <2>5, <3>1, <3>2, <3>3
    <2> QED
      BY <2>1, <2>6
  <1>7. Len(s) \in 0..Len(s) /\ Len(s) \in Nat
    OBVIOUS
  <1>8. Len(s) \in G
    <2> HIDE DEF G
    <2> QED
      BY <1>5, <1>6, <1>7, UpTo
  <1> QED
    BY <1>1, <1>2, <1>3, <1>8

\* An element weighs no more than its sequence; where no element weighs anything, the
\* sequence does not either.
LEMMA TotalElement ==
    ASSUME NEW T, NEW f \in [T -> Nat], NEW s \in Seq(T)
    PROVE  /\ Total(f, s) \in Nat
           /\ \A x \in ToSet(s) : f[x] <= Total(f, s)
           /\ (\A x \in ToSet(s) : f[x] = 0) => Total(f, s) = 0
  <1>1. PICK sum \in [0..Len(s) -> Nat] : Adds(sum, f, s) /\ Total(f, s) = sum[Len(s)]
    BY TotalSteps
  <1> DEFINE G == {n \in 0..Len(s) : /\ \A k \in 1..n : f[s[k]] <= sum[n]
                                     /\ (\A k \in 1..n : f[s[k]] = 0) => sum[n] = 0}
  <1>2. 0 \in G
    BY <1>1 DEF Adds
  <1>3. ASSUME NEW n \in 1..Len(s), n - 1 \in G PROVE n \in G
    <2>1. /\ n - 1 \in 0..Len(s) /\ n \in 0..Len(s) /\ s[n] \in T
          /\ sum[n - 1] \in Nat /\ sum[n] = sum[n - 1] + f[s[n]]
          /\ \A k \in 1..(n - 1) : f[s[k]] <= sum[n - 1]
          /\ (\A k \in 1..(n - 1) : f[s[k]] = 0) => sum[n - 1] = 0
      <3>1. n - 1 \in 0..Len(s) /\ n \in 0..Len(s) /\ s[n] \in T
        OBVIOUS
      <3>2. sum[n - 1] \in Nat /\ sum[n] = sum[n - 1] + f[s[n]]
        BY <1>1, <3>1 DEF Adds
      <3>3. /\ \A k \in 1..(n - 1) : f[s[k]] <= sum[n - 1]
            /\ (\A k \in 1..(n - 1) : f[s[k]] = 0) => sum[n - 1] = 0
        BY <1>3
      <3> HIDE DEF G
      <3> QED
        BY <3>1, <3>2, <3>3
    <2>2. f[s[n]] \in Nat
      BY <2>1
    <2>3. \A k \in 1..n : k \in 1..(n - 1) \/ k = n
      OBVIOUS
    <2>4. \A k \in 1..(n - 1) : k \in 1..n /\ f[s[k]] \in Nat
      OBVIOUS
    <2>5. ASSUME NEW k \in 1..n PROVE f[s[k]] <= sum[n]
      <3>1. CASE k = n
        BY <2>1, <2>2, <3>1
      <3>2. CASE k \in 1..(n - 1)
        <4>1. f[s[k]] \in Nat /\ f[s[k]] <= sum[n - 1]
          BY <2>1, <2>4, <3>2
        <4>2. sum[n - 1] \in Nat /\ sum[n - 1] <= sum[n] /\ sum[n] \in Nat
          BY <2>1, <2>2
        <4>3. \A x, y, z \in Nat : x <= y /\ y <= z => x <= z
          OBVIOUS
        <4> QED
          BY <4>1, <4>2, <4>3, Zenon
      <3> QED
        BY <2>3, <3>1, <3>2
    <2>6. (\A k \in 1..n : f[s[k]] = 0) => sum[n] = 0
      <3>1. n \in 1..n
        OBVIOUS
      <3> QED
        BY <2>1, <2>4, <3>1
    <2> QED
      BY <2>1, <2>5, <2>6
  <1>4. Len(s) \in 0..Len(s) /\ Len(s) \in Nat
    OBVIOUS
  <1>5. Len(s) \in G
    <2> HIDE DEF G
    <2> QED
      BY <1>2, <1>3, <1>4, UpTo
  <1>6. /\ \A k \in 1..Len(s) : f[s[k]] <= sum[Len(s)]
        /\ (\A k \in 1..Len(s) : f[s[k]] = 0) => sum[Len(s)] = 0
        /\ sum[Len(s)] \in Nat
    BY <1>4, <1>5
  <1>7. \A k \in 1..Len(s) : s[k] \in ToSet(s)
    BY ElementAt
  <1> QED
    BY <1>1, <1>6, <1>7, ElementAt

-----------------------------------------------------------------------------
(* How often a number is in a sequence.                                    *)

IsOne(i) == [x \in Nat |-> IF x = i THEN 1 ELSE 0]

CountIn(i, s) == Total(IsOne(i), s)

\* A number that is in a sequence is there at least once, and one that is not, never.
LEMMA CopiesOf ==
    ASSUME NEW i \in Nat, NEW s \in Seq(Nat)
    PROVE  /\ IsOne(i) \in [Nat -> Nat] /\ CountIn(i, s) \in Nat
           /\ i \in ToSet(s) => CountIn(i, s) >= 1
           /\ i \notin ToSet(s) => CountIn(i, s) = 0
  <1>1. IsOne(i) \in [Nat -> Nat] /\ \A x \in Nat : IsOne(i)[x] = IF x = i THEN 1 ELSE 0
    BY DEF IsOne
  <1>2. ToSet(s) \subseteq Nat
    BY ElementAt
  <1>3. /\ CountIn(i, s) \in Nat
        /\ \A x \in ToSet(s) : IsOne(i)[x] <= CountIn(i, s)
        /\ (\A x \in ToSet(s) : IsOne(i)[x] = 0) => CountIn(i, s) = 0
    BY <1>1, TotalElement DEF CountIn
  <1> QED
    BY <1>1, <1>2, <1>3

\* Where no value is twice, a number is there once at most.
LEMMA CopiesOfDistinct ==
    ASSUME NEW i \in Nat, NEW s \in Seq(Nat), IsInjective(s)
    PROVE  CountIn(i, s) <= 1
  <1>1. IsOne(i) \in [Nat -> Nat] /\ \A x \in Nat : IsOne(i)[x] = IF x = i THEN 1 ELSE 0
    BY DEF IsOne
  <1>2. PICK sum \in [0..Len(s) -> Nat] : Adds(sum, IsOne(i), s) /\ CountIn(i, s) = sum[Len(s)]
    BY <1>1, TotalSteps DEF CountIn
  <1> DEFINE G == {n \in 0..Len(s) : /\ sum[n] <= 1
                                     /\ sum[n] = 0 \/ \E k \in 1..n : s[k] = i}
  <1>3. 0 \in G
    BY <1>2 DEF Adds
  <1>4. ASSUME NEW n \in 1..Len(s), n - 1 \in G PROVE n \in G
    <2>1. /\ n - 1 \in 0..Len(s) /\ n \in 0..Len(s) /\ s[n] \in Nat
          /\ sum[n - 1] \in Nat /\ sum[n] = sum[n - 1] + IsOne(i)[s[n]]
          /\ sum[n - 1] <= 1
          /\ sum[n - 1] = 0 \/ \E k \in 1..(n - 1) : s[k] = i
      <3>1. n - 1 \in 0..Len(s) /\ n \in 0..Len(s) /\ s[n] \in Nat
        OBVIOUS
      <3>2. sum[n - 1] \in Nat /\ sum[n] = sum[n - 1] + IsOne(i)[s[n]]
        BY <1>2, <3>1 DEF Adds
      <3>3. sum[n - 1] <= 1 /\ (sum[n - 1] = 0 \/ \E k \in 1..(n - 1) : s[k] = i)
        BY <1>4
      <3> HIDE DEF G
      <3> QED
        BY <3>1, <3>2, <3>3
    <2>2. IsOne(i)[s[n]] = IF s[n] = i THEN 1 ELSE 0
      BY <1>1, <2>1
    <2>3. CASE s[n] = i
      <3>1. ~ \E k \in 1..(n - 1) : s[k] = i
        <4>1. \A k \in 1..(n - 1) : k \in 1..Len(s) /\ k # n
          OBVIOUS
        <4>2. \A k, m \in 1..Len(s) : s[k] = s[m] => k = m
          BY DEF IsInjective
        <4> QED
          BY <2>3, <4>1, <4>2
      <3>2. sum[n] = 1 /\ n \in 1..n
        BY <2>1, <2>2, <2>3, <3>1
      <3> QED
        BY <2>1, <2>3, <3>2
    <2>4. CASE s[n] # i
      <3>1. sum[n] = sum[n - 1] /\ \A k \in 1..(n - 1) : k \in 1..n
        BY <2>1, <2>2, <2>4
      <3> QED
        BY <2>1, <3>1
    <2> QED
      BY <2>3, <2>4
  <1>5. Len(s) \in 0..Len(s) /\ Len(s) \in Nat
    OBVIOUS
  <1>6. Len(s) \in G
    <2> HIDE DEF G
    <2> QED
      BY <1>3, <1>4, <1>5, UpTo
  <1> QED
    BY <1>2, <1>6

\* How often, in sequences that are joined, extended or taken apart.
LEMMA CopiesLaws ==
    ASSUME NEW i \in Nat
    PROVE  /\ CountIn(i, <<>>) = 0
           /\ \A s \in Seq(Nat) : CountIn(i, s) \in Nat
           /\ \A s, t \in Seq(Nat) : CountIn(i, s \o t) = CountIn(i, s) + CountIn(i, t)
           /\ \A s \in Seq(Nat), x \in Nat :
                 CountIn(i, Append(s, x)) = CountIn(i, s) + CountIn(i, <<x>>)
           /\ \A s \in Seq(Nat) :
                 s # <<>> => CountIn(i, s) = CountIn(i, <<Head(s)>>) + CountIn(i, Tail(s))
  <1> DEFINE f == IsOne(i)
  <1>1. f \in [Nat -> Nat]
    BY DEF IsOne
  <1> HIDE DEF f
  <1>2. \A s : CountIn(i, s) = Total(f, s)
    BY DEF CountIn, f
  <1>3. \A x \in Nat : Total(f, <<x>>) = f[x]
    BY <1>1, TotalHeadTail
  <1>4. \A s \in Seq(Nat) : s # <<>> => Total(f, s) = f[Head(s)] + Total(f, Tail(s))
    BY <1>1, TotalHeadTail
  <1>5. \A s \in Seq(Nat) : s # <<>> => Head(s) \in Nat
    OBVIOUS
  <1>6. Total(f, <<>>) = 0
    BY <1>1, TotalAppend
  <1>7. \A s \in Seq(Nat), x \in Nat :
           Total(f, s) \in Nat /\ Total(f, Append(s, x)) = Total(f, s) + f[x]
    BY <1>1, TotalAppend
  <1>8. \A s \in Seq(Nat) : Total(f, s) \in Nat
    BY <1>7
  <1>9. \A s, t \in Seq(Nat) : Total(f, s \o t) = Total(f, s) + Total(f, t)
    BY <1>1, TotalConcat
  <1>10. \A s \in Seq(Nat) : s # <<>> => Total(f, s) = Total(f, <<Head(s)>>) + Total(f, Tail(s))
    <2> SUFFICES ASSUME NEW s \in Seq(Nat), s # <<>>
                 PROVE  Total(f, s) = Total(f, <<Head(s)>>) + Total(f, Tail(s))
      OBVIOUS
    <2>1. Head(s) \in Nat
      OBVIOUS
    <2>2. Total(f, <<Head(s)>>) = f[Head(s)]
      BY <1>3, <2>1
    <2> QED
      BY <1>4, <2>2
  <1>11. \A s \in Seq(Nat), x \in Nat : Total(f, Append(s, x)) = Total(f, s) + Total(f, <<x>>)
    BY <1>3, <1>7
  <1> QED
    BY <1>2, <1>6, <1>8, <1>9, <1>10, <1>11

\* How often, in what is filtered by two conditions that exclude each other, and in what
\* is filtered by one.
LEMMA CopiesFilter ==
    ASSUME NEW i \in Nat, NEW s \in Seq(Nat), NEW S, NEW R, S \cap R = {}
    PROVE  /\ CountIn(i, Filter(s, S)) + CountIn(i, Filter(s, R)) <= CountIn(i, s)
           /\ CountIn(i, Filter(s, S)) <= CountIn(i, s)
  <1>1. IsOne(i) \in [Nat -> Nat]
    BY DEF IsOne
  <1>2. CountIn(i, Filter(s, S)) + CountIn(i, Filter(s, R)) <= CountIn(i, s)
    BY <1>1, TotalFilter DEF CountIn
  <1>3. Filter(s, S) \in Seq(Nat) /\ Filter(s, R) \in Seq(Nat)
    BY FilterElements
  <1>4. CountIn(i, Filter(s, S)) \in Nat /\ CountIn(i, Filter(s, R)) \in Nat /\ CountIn(i, s) \in Nat
    BY <1>3, CopiesLaws
  <1> QED
    BY <1>2, <1>4

-----------------------------------------------------------------------------
(* The end of a sequence.                                                  *)

\* The elements after the first n.
After(s, n) == SubSeq(s, n + 1, Len(s))

\* All of them, none of them, and one fewer.
LEMMA AfterOf ==
    ASSUME NEW T, NEW s \in Seq(T)
    PROVE  /\ After(s, 0) = s /\ After(s, Len(s)) = <<>>
           /\ \A n \in 0..Len(s) : After(s, n) \in Seq(T)
           /\ \A n \in 0..(Len(s) - 1) : /\ After(s, n) # <<>>
                                         /\ Head(After(s, n)) = s[n + 1]
                                         /\ Tail(After(s, n)) = After(s, n + 1)
  <1>1. Len(s) \in Nat
    OBVIOUS
  <1>2. After(s, 0) = s /\ After(s, Len(s)) = <<>>
    BY DEF After
  <1>3. ASSUME NEW n \in 0..Len(s) PROVE After(s, n) \in Seq(T)
    BY SplitAt DEF After
  <1>4. ASSUME NEW n \in 0..(Len(s) - 1)
        PROVE  /\ After(s, n) # <<>> /\ Head(After(s, n)) = s[n + 1]
               /\ Tail(After(s, n)) = After(s, n + 1)
    <2>1. n \in 0..Len(s) /\ n + 1 \in 0..Len(s) /\ n + 1 \in 1..Len(s)
      BY <1>1
    <2>2. After(s, n) \in Seq(T) /\ After(s, n + 1) \in Seq(T)
      BY <1>3, <2>1
    <2>3. /\ Len(After(s, n)) = Len(s) - n /\ Len(After(s, n + 1)) = Len(s) - n - 1
          /\ \A k \in 1..(Len(s) - n) : After(s, n)[k] = s[n + k]
          /\ \A k \in 1..(Len(s) - n - 1) : After(s, n + 1)[k] = s[n + 1 + k]
      <3>1. \A m \in 0..Len(s) : /\ Len(After(s, m)) = Len(s) - m
                                 /\ \A k \in 1..(Len(s) - m) : After(s, m)[k] = s[m + k]
        BY DEF After
      <3> QED
        BY <2>1, <3>1
    <2>4. After(s, n) # <<>> /\ Head(After(s, n)) = s[n + 1]
      <3>1. 1 \in 1..(Len(s) - n) /\ Len(After(s, n)) # 0 /\ n \in Nat
        BY <1>1, <2>1, <2>3
      <3> QED
        BY <2>2, <2>3, <3>1
    <2>5. Tail(After(s, n)) = After(s, n + 1)
      <3> DEFINE t == Tail(After(s, n))
      <3>1. /\ t \in Seq(T) /\ Len(t) = Len(s) - n - 1
            /\ \A k \in 1..(Len(s) - n - 1) : t[k] = After(s, n)[k + 1]
        BY <2>2, <2>3, <2>4
      <3> HIDE DEF t
      <3>2. ASSUME NEW k \in 1..(Len(s) - n - 1)
            PROVE  k + 1 \in 1..(Len(s) - n) /\ n + (k + 1) = n + 1 + k
        BY <1>1
      <3>3. ASSUME NEW k \in 1..(Len(s) - n - 1) PROVE t[k] = After(s, n + 1)[k]
        <4>1. t[k] = After(s, n)[k + 1]
          BY <3>1
        <4>2. After(s, n)[k + 1] = s[n + (k + 1)]
          BY <2>3, <3>2
        <4>3. After(s, n + 1)[k] = s[n + 1 + k]
          BY <2>3
        <4> QED
          BY <3>2, <4>1, <4>2, <4>3
      <3>4. t = After(s, n + 1)
        BY <2>2, <2>3, <3>1, <3>3, SeqEqual
      <3> QED
        BY <3>4 DEF t
    <2> QED
      BY <2>4, <2>5
  <1> QED
    BY <1>2, <1>3, <1>4
=============================================================================
