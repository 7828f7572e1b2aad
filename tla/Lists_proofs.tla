----------------------------- MODULE Lists_proofs -----------------------------
(***************************************************************************)
(* What the operators of Lists return.                                     *)
(***************************************************************************)
EXTENDS Lists, FiniteSetTheorems, SequenceTheorems, TLAPS

\* A finite set of numbers has each of its members at one place, and in order.
LEMMA NthOfIs ==
  ASSUME NEW P \in SUBSET Nat, IsFiniteSet(P)
  PROVE  /\ Cardinality(P) \in Nat
         /\ \A n \in 1..Cardinality(P) : NthOf(P, n) \in P /\ Cardinality({k \in P : k < NthOf(P, n)}) = n - 1
         /\ \A i \in P : /\ Cardinality({k \in P : k < i}) + 1 \in 1..Cardinality(P)
                         /\ NthOf(P, Cardinality({k \in P : k < i}) + 1) = i
         /\ \A m, n \in 1..Cardinality(P) : m < n => NthOf(P, m) < NthOf(P, n)
<1> DEFINE c == Cardinality(P)
           Before(i) == {k \in P : k < i}
           Place(i) == Cardinality(Before(i)) + 1
           place == [i \in P |-> Place(i)]
<1>1. c \in Nat
  BY FS_CardinalityType
<1>2. \A i \in P : IsFiniteSet(Before(i)) /\ Cardinality(Before(i)) \in Nat
  BY FS_Subset, FS_CardinalityType
<1>3. ASSUME NEW i \in P PROVE Cardinality(Before(i)) <= c - 1
  <2>1. Before(i) \in SUBSET (P \ {i})
    OBVIOUS
  <2>2. IsFiniteSet(P \ {i}) /\ Cardinality(P \ {i}) = c - 1
    BY FS_RemoveElement
  <2> QED BY <2>1, <2>2, FS_Subset
<1>4. ASSUME NEW i \in P, NEW k \in P, i < k PROVE Cardinality(Before(i)) < Cardinality(Before(k))
  <2>1. i \notin Before(i) /\ Before(i) \cup {i} \in SUBSET Before(k)
    <3>1. i \in Nat /\ k \in Nat /\ \A x \in P : x \in Nat
      OBVIOUS
    <3>2. ASSUME NEW x \in Before(i) \cup {i} PROVE x \in P /\ x < k
      BY <3>1, <1>4
    <3>3. \A x \in Before(i) \cup {i} : x \in Before(k)
      BY <3>2
    <3>4. i \notin Before(i)
      BY <3>1
    <3> HIDE DEF Before
    <3> QED BY <3>3, <3>4
  <2>2. Cardinality(Before(i) \cup {i}) = Cardinality(Before(i)) + 1
    BY <2>1, <1>2, FS_AddElement
  <2>3. Cardinality(Before(i) \cup {i}) <= Cardinality(Before(k))
    BY <2>1, <1>2, FS_Subset
  <2> QED BY <2>2, <2>3, <1>2
<1>5. \A i \in P : Place(i) \in 1..c
  BY <1>1, <1>2, <1>3
<1>6. \A i, k \in P : i # k => Cardinality(Before(i)) # Cardinality(Before(k))
  <2> SUFFICES ASSUME NEW i \in P, NEW k \in P, i # k PROVE Cardinality(Before(i)) # Cardinality(Before(k))
    OBVIOUS
  <2>1. i < k \/ k < i
    OBVIOUS
  <2> QED BY <2>1, <1>4, <1>2
<1>7. \A n \in 1..c : \E i \in P : Cardinality(Before(i)) = n - 1
  <2>1. place \in Injection(P, 1..c)
    <3>1. place \in [P -> 1..c]
      BY <1>5
    <3>2. \A i, k \in P : place[i] = place[k] => i = k
      BY <1>2, <1>6
    <3> QED BY <3>1, <3>2 DEF Injection, IsInjective
  <2>2. IsFiniteSet(1..c) /\ Cardinality(1..c) = c
    BY <1>1, FS_Interval
  <2>3. place \in Surjection(P, 1..c)
    BY <2>1, <2>2, FS_Injection
  <2>4. \A n \in 1..c : \E i \in P : place[i] = n
    BY <2>3 DEF Surjection
  <2> QED BY <2>4, <1>2
<1>8. \A n : NthOf(P, n) = CHOOSE i \in P : Cardinality(Before(i)) = n - 1
  BY DEF NthOf
<1> HIDE DEF Before
<1>9. \A n \in 1..c : NthOf(P, n) \in P /\ Cardinality(Before(NthOf(P, n))) = n - 1
  BY <1>7, <1>8
<1>10. \A i \in P : NthOf(P, Place(i)) = i
  <2> SUFFICES ASSUME NEW i \in P PROVE NthOf(P, Place(i)) = i
    OBVIOUS
  <2> DEFINE k == NthOf(P, Place(i))
  <2>1. k \in P /\ Cardinality(Before(k)) = Place(i) - 1
    BY <1>5, <1>9
  <2>2. Cardinality(Before(k)) = Cardinality(Before(i))
    BY <2>1, <1>2
  <2> HIDE DEF k
  <2>3. k = i
    BY <2>1, <2>2, <1>6
  <2> QED BY <2>3 DEF k
<1>11. \A m, n \in 1..c : m < n => NthOf(P, m) < NthOf(P, n)
  <2> SUFFICES ASSUME NEW m \in 1..c, NEW n \in 1..c, m < n PROVE NthOf(P, m) < NthOf(P, n)
    OBVIOUS
  <2> DEFINE x == NthOf(P, m)
             y == NthOf(P, n)
  <2>1. x \in P /\ y \in P /\ Cardinality(Before(x)) = m - 1 /\ Cardinality(Before(y)) = n - 1
    BY <1>9
  <2> HIDE DEF x, y
  <2>2. Cardinality(Before(x)) < Cardinality(Before(y)) /\ ~(Cardinality(Before(y)) < Cardinality(Before(x)))
    BY <2>1
  <2>3. ~(y < x) /\ x # y
    BY <2>1, <2>2, <1>4
  <2>4. x \in Nat /\ y \in Nat
    BY <2>1
  <2>5. x < y
    BY <2>3, <2>4
  <2> QED BY <2>5 DEF x, y
<1> QED BY <1>1, <1>5, <1>9, <1>10, <1>11 DEF Before

\* A sublist has the elements at its places, in their order.
LEMMA SublistIs ==
  ASSUME NEW S, NEW list \in Seq(S), NEW P \in SUBSET (DOMAIN list)
  PROVE  /\ Sublist(list, P) \in Seq(S) /\ Len(Sublist(list, P)) = Cardinality(P)
         /\ IsFiniteSet(P) /\ P \in SUBSET Nat
         /\ \A n \in 1..Cardinality(P) : NthOf(P, n) \in P /\ Sublist(list, P)[n] = list[NthOf(P, n)]
         /\ \A i \in P : \E n \in 1..Cardinality(P) : NthOf(P, n) = i
         /\ \A m, n \in 1..Cardinality(P) : m < n => NthOf(P, m) < NthOf(P, n)
<1>1. DOMAIN list = 1..Len(list) /\ Len(list) \in Nat
  OBVIOUS
<1>2. IsFiniteSet(DOMAIN list)
  BY <1>1, FS_Interval
<1>3. IsFiniteSet(P) /\ P \in SUBSET Nat
  BY <1>1, <1>2, FS_Subset
<1>4. /\ Cardinality(P) \in Nat /\ \A n \in 1..Cardinality(P) : NthOf(P, n) \in P
      /\ \A i \in P : \E n \in 1..Cardinality(P) : NthOf(P, n) = i
      /\ \A m, n \in 1..Cardinality(P) : m < n => NthOf(P, m) < NthOf(P, n)
  BY <1>3, NthOfIs
<1>5. \A i \in P : list[i] \in S
  OBVIOUS
<1>6. Sublist(list, P) \in [1..Cardinality(P) -> S]
  BY <1>4, <1>5 DEF Sublist
<1>7. Sublist(list, P) \in Seq(S) /\ Len(Sublist(list, P)) = Cardinality(P)
  BY <1>4, <1>6
<1> QED BY <1>3, <1>4, <1>7 DEF Sublist

\* What a list names, it names a first time.
LEMMA FirstPlace ==
  ASSUME NEW S, NEW list \in Seq(S), NEW j \in DOMAIN list
  PROVE  \E i \in DOMAIN list : list[i] = list[j] /\ i <= j /\ \A k \in 1..(i - 1) : list[k] # list[i]
<1> DEFINE F == {i \in DOMAIN list : list[i] = list[j]}
<1>1. F \in SUBSET Nat /\ IsFiniteSet(F) /\ j \in F
  <2>1. DOMAIN list = 1..Len(list) /\ Len(list) \in Nat
    OBVIOUS
  <2>2. IsFiniteSet(DOMAIN list)
    BY <2>1, FS_Interval
  <2> QED BY <2>1, <2>2, FS_Subset
<1>2. 1 \in 1..Cardinality(F) /\ NthOf(F, 1) \in F /\ Cardinality({k \in F : k < NthOf(F, 1)}) = 0
  <2>1. Cardinality({k \in F : k < j}) + 1 \in 1..Cardinality(F) /\ Cardinality(F) \in Nat
    BY <1>1, NthOfIs
  <2>2. 1 \in 1..Cardinality(F)
    BY <2>1
  <2> HIDE DEF F
  <2>3. \A n \in 1..Cardinality(F) : NthOf(F, n) \in F /\ Cardinality({k \in F : k < NthOf(F, n)}) = n - 1
    BY <1>1, NthOfIs
  <2> QED BY <2>2, <2>3
<1> DEFINE i == NthOf(F, 1)
<1>3. {k \in F : k < i} = {}
  <2>1. IsFiniteSet({k \in F : k < i})
    BY <1>1, FS_Subset
  <2> QED BY <2>1, <1>2, FS_EmptySet
<1>4. i \in F /\ i \in Nat /\ i <= j
  <2> HIDE DEF F, i
  <2>1. i \in F /\ i \in Nat /\ j \in Nat
    BY <1>1, <1>2 DEF i
  <2>2. ~(j < i)
    BY <1>1, <1>3
  <2> QED BY <2>1, <2>2
<1> HIDE DEF i
<1>5. \A k \in 1..(i - 1) : list[k] # list[i]
  <2> SUFFICES ASSUME NEW k \in 1..(i - 1), list[k] = list[i] PROVE FALSE
    OBVIOUS
  <2>1. k \in DOMAIN list /\ k < i
    BY <1>4
  <2>2. k \in F
    BY <2>1, <1>4
  <2> QED BY <2>1, <2>2, <1>3
<1> QED BY <1>4, <1>5

\* A joined list begins with the list, has what both have, and nothing twice that
\* the list has not twice.
LEMMA JoinedIs ==
  ASSUME NEW S, NEW list \in Seq(S), NEW more \in Seq(S)
  PROVE  LET s == Joined(list, more) IN
         /\ s \in Seq(S) /\ Len(s) = Len(list) + Cardinality(NewPlaces(list, more))
         /\ Cardinality(NewPlaces(list, more)) \in Nat
         /\ \A i \in 1..Len(list) : s[i] = list[i]
         /\ ToSet(s) = ToSet(list) \cup ToSet(more)
         /\ IsInjective(list) => IsInjective(s)
<1> DEFINE P == NewPlaces(list, more)
           t == Sublist(more, P)
           s == Joined(list, more)
<1>1. P \in SUBSET (DOMAIN more)
  BY DEF NewPlaces
<1>2. /\ \A i \in P : more[i] \notin ToSet(list)
      /\ \A i \in P : \A k \in 1..(i - 1) : more[k] # more[i]
      /\ \A i \in DOMAIN more : more[i] \notin ToSet(list) /\ (\A k \in 1..(i - 1) : more[k] # more[i]) => i \in P
  BY DEF NewPlaces
<1> HIDE DEF P
<1>3. /\ t \in Seq(S) /\ Len(t) = Cardinality(P) /\ IsFiniteSet(P) /\ P \in SUBSET Nat
      /\ \A n \in 1..Cardinality(P) : NthOf(P, n) \in P /\ t[n] = more[NthOf(P, n)]
      /\ \A i \in P : \E n \in 1..Cardinality(P) : NthOf(P, n) = i
      /\ \A m, n \in 1..Cardinality(P) : m < n => NthOf(P, m) < NthOf(P, n)
  BY <1>1, SublistIs
<1>4. Cardinality(P) \in Nat
  BY <1>3, FS_CardinalityType
<1>5. s = list \o t
  BY DEF Joined, P
<1> HIDE DEF s, t
<1>6. /\ s \in Seq(S) /\ Len(s) = Len(list) + Len(t) /\ \A i \in 1..Len(list) : s[i] = list[i]
      /\ \A i \in 1..Len(t) : s[Len(list) + i] = t[i]
      /\ DOMAIN s = 1..(Len(list) + Len(t)) /\ Len(list) \in Nat /\ Len(t) \in Nat
      /\ DOMAIN list = 1..Len(list)
      /\ \A i \in DOMAIN s : i \in 1..Len(list) \/ \E n \in 1..Len(t) : i = Len(list) + n
  <2>1. /\ s \in Seq(S) /\ Len(s) = Len(list) + Len(t) /\ \A i \in 1..Len(list) : s[i] = list[i]
        /\ \A i \in 1..Len(t) : s[Len(list) + i] = t[i]
        /\ DOMAIN s = 1..(Len(list) + Len(t)) /\ Len(list) \in Nat /\ Len(t) \in Nat
        /\ DOMAIN list = 1..Len(list)
    <3>1. list \in Seq(S) /\ t \in Seq(S)
      BY <1>3
    <3>2. /\ list \o t \in Seq(S) /\ Len(list \o t) = Len(list) + Len(t) /\ Len(list) \in Nat /\ Len(t) \in Nat
          /\ \A i \in 1..(Len(list) + Len(t)) :
               (list \o t)[i] = IF i <= Len(list) THEN list[i] ELSE t[i - Len(list)]
      BY <3>1, ConcatProperties
    <3>3. /\ s \in Seq(S) /\ Len(s) = Len(list) + Len(t) /\ DOMAIN s = 1..Len(s) /\ DOMAIN list = 1..Len(list)
          /\ \A i \in 1..(Len(list) + Len(t)) : s[i] = IF i <= Len(list) THEN list[i] ELSE t[i - Len(list)]
      BY <3>1, <3>2, <1>5
    <3>4. ASSUME NEW i \in 1..Len(t) PROVE s[Len(list) + i] = t[i]
      <4>1. Len(list) + i \in 1..(Len(list) + Len(t)) /\ ~(Len(list) + i <= Len(list)) /\ (Len(list) + i) - Len(list) = i
        BY <3>2
      <4> QED BY <4>1, <3>3
    <3>5. \A i \in 1..Len(list) : s[i] = list[i]
      BY <3>2, <3>3
    <3> QED BY <3>2, <3>3, <3>4, <3>5
  <2>2. ASSUME NEW i \in DOMAIN s PROVE i \in 1..Len(list) \/ \E n \in 1..Len(t) : i = Len(list) + n
    <3>1. CASE i > Len(list)
      <4>1. i - Len(list) \in 1..Len(t) /\ i = Len(list) + (i - Len(list))
        BY <2>1, <3>1
      <4> QED BY <4>1
    <3> QED BY <2>1, <3>1
  <2> QED BY <2>1, <2>2
<1>7. \A n \in 1..Len(t) : t[n] \in ToSet(more) /\ t[n] \notin ToSet(list)
  <2> SUFFICES ASSUME NEW n \in 1..Len(t) PROVE t[n] \in ToSet(more) /\ t[n] \notin ToSet(list)
    OBVIOUS
  <2>1. NthOf(P, n) \in P /\ t[n] = more[NthOf(P, n)]
    BY <1>3
  <2> QED BY <2>1, <1>1, <1>2 DEF ToSet
<1>8. ToSet(s) = ToSet(list) \cup ToSet(more)
  <2>1. ASSUME NEW i \in DOMAIN s PROVE s[i] \in ToSet(list) \cup ToSet(more)
    <3>1. CASE i \in 1..Len(list)
      BY <3>1, <1>6 DEF ToSet
    <3>2. CASE \E n \in 1..Len(t) : i = Len(list) + n
      BY <3>2, <1>6, <1>7
    <3> QED BY <3>1, <3>2, <1>6
  <2>2. ASSUME NEW v \in ToSet(list) PROVE v \in ToSet(s)
    <3>1. PICK i \in 1..Len(list) : list[i] = v
      BY <1>6 DEF ToSet
    <3>2. i \in DOMAIN s /\ s[i] = v
      BY <3>1, <1>6
    <3> QED BY <3>2 DEF ToSet
  <2>3. ASSUME NEW v \in ToSet(more), v \notin ToSet(list) PROVE v \in ToSet(s)
    <3>1. PICK j \in DOMAIN more : more[j] = v
      BY DEF ToSet
    <3>2. PICK i \in DOMAIN more : more[i] = more[j] /\ \A k \in 1..(i - 1) : more[k] # more[i]
      BY FirstPlace
    <3>3. i \in P
      BY <3>1, <3>2, <2>3, <1>2
    <3>4. PICK n \in 1..Len(t) : t[n] = more[i]
      BY <3>3, <1>3
    <3>5. Len(list) + n \in DOMAIN s /\ s[Len(list) + n] = v
      BY <3>1, <3>2, <3>4, <1>6
    <3> QED BY <3>5 DEF ToSet
  <2>4. ToSet(s) \subseteq ToSet(list) \cup ToSet(more)
    BY <2>1 DEF ToSet
  <2> QED BY <2>2, <2>3, <2>4
<1>9. ASSUME IsInjective(list) PROVE IsInjective(s)
  <2>1. \A m, n \in 1..Len(t) : m < n => t[m] # t[n]
    <3> SUFFICES ASSUME NEW m \in 1..Len(t), NEW n \in 1..Len(t), m < n PROVE t[m] # t[n]
      OBVIOUS
    <3>1. /\ NthOf(P, m) \in P /\ NthOf(P, n) \in P /\ NthOf(P, m) < NthOf(P, n)
          /\ t[m] = more[NthOf(P, m)] /\ t[n] = more[NthOf(P, n)]
      BY <1>3
    <3>2. NthOf(P, m) \in 1..(NthOf(P, n) - 1)
      BY <3>1, <1>1
    <3> QED BY <3>1, <3>2, <1>2
  <2>2. \A i, k \in 1..Len(list) : list[i] = list[k] => i = k
    BY <1>9, <1>6 DEF IsInjective
  <2>3. \A i \in 1..Len(list), n \in 1..Len(t) : s[i] # t[n]
    <3> SUFFICES ASSUME NEW i \in 1..Len(list), NEW n \in 1..Len(t), s[i] = t[n] PROVE FALSE
      OBVIOUS
    <3>1. s[i] = list[i] /\ list[i] \in ToSet(list)
      BY <1>6 DEF ToSet
    <3> QED BY <3>1, <1>7
  <2>4. ASSUME NEW i \in DOMAIN s, NEW k \in DOMAIN s, s[i] = s[k] PROVE i = k
    <3>1. CASE i \in 1..Len(list) /\ k \in 1..Len(list)
      BY <3>1, <2>2, <2>4, <1>6
    <3>2. ASSUME NEW m \in 1..Len(t), NEW n \in 1..Len(t), i = Len(list) + m, k = Len(list) + n PROVE i = k
      <4>1. t[m] = t[n]
        BY <3>2, <2>4, <1>6
      <4>2. m = n
        BY <4>1, <2>1
      <4> QED BY <4>2, <3>2
    <3> QED BY <3>1, <3>2, <2>3, <2>4, <1>6
  <2> QED BY <2>4 DEF IsInjective
<1> QED BY <1>4, <1>3, <1>6, <1>8, <1>9 DEF s, P

\* A rising list without gaps counts from one.
LEMMA CountsFromOne ==
  ASSUME NEW n \in Nat, NEW s \in [1..n -> Nat \ {0}],
         \A i, k \in 1..n : i < k => s[i] < s[k],
         \A i \in 1..n : \A u \in 1..s[i] : \E k \in 1..n : s[k] = u
  PROVE  \A i \in 1..n : s[i] = i
<1> SUFFICES ASSUME NEW i \in 1..n PROVE s[i] = i
  OBVIOUS
<1> DEFINE below == [k \in 1..(i - 1) |-> s[k]]
           v == s[i] - 1
<1>1. i \in Nat /\ i # 0 /\ v \in Nat /\ s[i] \in Nat \ {0} /\ \A k \in 1..n : s[k] \in Nat \ {0}
  OBVIOUS
<1>2. below \in [1..(i - 1) -> 1..v]
  <2> SUFFICES ASSUME NEW k \in 1..(i - 1) PROVE s[k] \in 1..v
    OBVIOUS
  <2>1. k \in 1..n /\ k < i
    OBVIOUS
  <2>2. s[k] < s[i] /\ s[k] \in Nat \ {0}
    BY <2>1
  <2> QED BY <1>1, <2>2
<1>3. \A j, k \in 1..(i - 1) : below[j] = below[k] => j = k
  <2> SUFFICES ASSUME NEW j \in 1..(i - 1), NEW k \in 1..(i - 1), s[j] = s[k] PROVE j = k
    OBVIOUS
  <2>1. j \in 1..n /\ k \in 1..n /\ (j < k \/ k < j \/ j = k)
    OBVIOUS
  <2> QED BY <1>1, <2>1
<1>4. \A u \in 1..v : \E k \in 1..(i - 1) : below[k] = u
  <2> SUFFICES ASSUME NEW u \in 1..v PROVE \E k \in 1..(i - 1) : s[k] = u
    OBVIOUS
  <2>1. u \in 1..s[i] /\ u < s[i]
    BY <1>1
  <2>2. PICK k \in 1..n : s[k] = u
    BY <2>1
  <2>3. ~(i < k) /\ k # i
    BY <2>1, <2>2
  <2>4. k \in 1..(i - 1)
    BY <2>3
  <2> QED BY <2>2, <2>4
<1>5. below \in Bijection(1..(i - 1), 1..v)
  BY <1>2, <1>3, <1>4 DEF Bijection, Injection, Surjection, IsInjective
<1> HIDE DEF below, v
<1>6. Cardinality(1..(i - 1)) = i - 1 /\ Cardinality(1..v) = v /\ IsFiniteSet(1..(i - 1)) /\ IsFiniteSet(1..v)
  <2>1. i - 1 \in Int /\ i - 1 >= 0 /\ v >= 0 /\ v \in Int
    BY <1>1
  <2>2. \A m \in Int : m >= 0 => IsFiniteSet(1..m) /\ Cardinality(1..m) = m
    <3> SUFFICES ASSUME NEW m \in Int, m >= 0 PROVE IsFiniteSet(1..m) /\ Cardinality(1..m) = m
      OBVIOUS
    <3>1. IsFiniteSet(1..m) /\ Cardinality(1..m) = IF 1 > m THEN 0 ELSE m - 1 + 1
      BY FS_Interval
    <3> QED BY <3>1
  <2> QED BY <2>1, <2>2
<1>7. Cardinality(1..(i - 1)) = Cardinality(1..v)
  BY <1>5, <1>6, FS_Bijection DEF ExistsBijection
<1> QED BY <1>1, <1>6, <1>7 DEF v

\* What a list without repetition keeps at some of its places, it keeps once.
LEMMA SublistKeeps ==
  ASSUME NEW S, NEW list \in Seq(S), IsInjective(list), NEW P \in SUBSET (DOMAIN list)
  PROVE  /\ Sublist(list, P) \in Seq(S) /\ IsInjective(Sublist(list, P))
         /\ ToSet(Sublist(list, P)) = {list[i] : i \in P}
<1> DEFINE s == Sublist(list, P)
           n == Cardinality(P)
<1>1. /\ s \in Seq(S) /\ Len(s) = n /\ P \in SUBSET Nat /\ n \in Nat
      /\ \A m \in 1..n : NthOf(P, m) \in P /\ s[m] = list[NthOf(P, m)]
      /\ \A i \in P : \E m \in 1..n : NthOf(P, m) = i
      /\ \A l, m \in 1..n : l < m => NthOf(P, l) < NthOf(P, m)
  BY SublistIs, FS_CardinalityType
<1> HIDE DEF s, n
<1>2. DOMAIN s = 1..n
  BY <1>1
<1>3. ASSUME NEW l \in 1..n, NEW m \in 1..n, s[l] = s[m] PROVE l = m
  <2>1. NthOf(P, l) = NthOf(P, m)
    BY <1>1, <1>3 DEF IsInjective
  <2>2. NthOf(P, l) \in Nat /\ ~(l < m) /\ ~(m < l)
    BY <1>1, <2>1
  <2> QED BY <1>1, <2>2
<1>4. ToSet(s) = {list[i] : i \in P}
  <2>1. ASSUME NEW i \in P PROVE list[i] \in ToSet(s)
    <3>1. PICK m \in 1..n : NthOf(P, m) = i
      BY <1>1
    <3>2. s[m] = list[i] /\ m \in DOMAIN s
      BY <1>1, <1>2, <3>1
    <3> QED BY <3>2 DEF ToSet
  <2>2. ASSUME NEW x \in ToSet(s) PROVE \E i \in P : x = list[i]
    <3>1. PICK m \in 1..n : x = s[m]
      BY <1>2, <2>2 DEF ToSet
    <3>2. NthOf(P, m) \in P /\ x = list[NthOf(P, m)]
      BY <1>1, <3>1
    <3> QED BY <3>2
  <2> QED BY <2>1, <2>2
<1> QED BY <1>1, <1>2, <1>3, <1>4 DEF IsInjective, s

\* A list without repetition is as long as the set of what it lists.
LEMMA DistinctCount ==
  ASSUME NEW S, NEW list \in Seq(S), IsInjective(list)
  PROVE  IsFiniteSet(ToSet(list)) /\ Cardinality(ToSet(list)) = Len(list)
<1>1. Len(list) \in Nat /\ list \in [1..Len(list) -> ToSet(list)] /\ DOMAIN list = 1..Len(list)
  BY DEF ToSet
<1>2. list \in Bijection(1..Len(list), ToSet(list))
  BY <1>1 DEF Bijection, Injection, Surjection, IsInjective, ToSet
<1>3. IsFiniteSet(1..Len(list)) /\ Cardinality(1..Len(list)) = Len(list)
  BY <1>1, FS_Interval
<1> QED BY <1>2, <1>3, FS_Bijection DEF ExistsBijection
=============================================================================
