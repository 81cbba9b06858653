-------------------------- MODULE CfgHistoryProofs --------------------------
(***************************************************************************)
(* CfgStore implements EditHistory, for every table content, every depth   *)
(* of the history and every number of snapshots kept: a table that only    *)
(* the server writes has one line of versions, and every save, undo, redo  *)
(* and death of the process moves along it.                                *)
(*                                                                         *)
(* First what merging equal neighbours keeps of a line, proved by          *)
(* induction over its length; then the invariant that says where the       *)
(* operation in flight has the version it replaces and the one it puts in  *)
(* its place; then one lemma per step.                                     *)
(***************************************************************************)
EXTENDS CfgStoreProofs, CfgStoreHistory, SequenceTheorems, WellFoundedInduction

-----------------------------------------------------------------------------
(* Merging equal neighbours                                                *)

\* Induction over the naturals, for the set of those that have a property.
LEMMA NatSet ==
    ASSUME NEW I, 0 \in I, \A n \in Nat : n \in I => n + 1 \in I
    PROVE  Nat \subseteq I
<1> SUFFICES ASSUME Nat \ I # {}
             PROVE  FALSE
  OBVIOUS
<1>1. PICK m \in Nat \ I : \A n \in Nat \ I : ~(<<n, m>> \in OpToRel(<, Nat))
  BY NatLessThanWellFounded, WFMin
<1>2. \A n \in Nat \ I : ~(n < m)
  BY <1>1 DEF OpToRel
<1>3. m - 1 \in Nat /\ m - 1 < m /\ m - 1 + 1 = m
  <2>1. m # 0
    BY <1>1
  <2> QED BY <2>1
<1> QED BY <1>1, <1>2, <1>3

\* An element of a rank has as many below it.
LEMMA InRank ==
    ASSUME NEW S, NEW k, NEW i
    PROVE  i \in AtRank(S, k) <=> (i \in S /\ Cardinality({j \in S : j < i}) = k - 1)
BY DEF AtRank

\* A finite set of numbers has an element of every rank.
LEMMA EveryRank ==
    ASSUME NEW n \in Nat, NEW S \in SUBSET (1..n)
    PROVE  /\ IsFiniteSet(S) /\ Cardinality(S) \in Nat
           /\ \A k \in 1..Cardinality(S) : AtRank(S, k) # {}
<1> DEFINE Ranked(T) == \A k \in 1..Cardinality(T) : AtRank(T, k) # {}
           I == {m \in Nat : \A T \in SUBSET (1..m) : Ranked(T)}
<1>1. \A m \in Nat : \A T \in SUBSET (1..m) : IsFiniteSet(T) /\ Cardinality(T) \in Nat
  <2>1. \A m \in Nat : IsFiniteSet(1..m)
    BY FS_Interval
  <2> QED BY <2>1, FS_Subset, FS_CardinalityType
<1>2. 0 \in I
  <2>1. 1..0 = {} /\ Cardinality({}) = 0 /\ 1..Cardinality({}) = {}
    BY FS_EmptySet
  <2> QED BY <2>1
<1>3. ASSUME NEW m \in Nat, m \in I
      PROVE  m + 1 \in I
  <2>1. SUFFICES ASSUME NEW T \in SUBSET (1..(m + 1)), m + 1 \in T
                 PROVE  Ranked(T)
    <3>1. \A T \in SUBSET (1..(m + 1)) : m + 1 \notin T => T \in SUBSET (1..m)
      OBVIOUS
    <3> QED BY <1>3, <2>1, <3>1
  <2> DEFINE U == T \ {m + 1}
  <2>2. U \in SUBSET (1..m) /\ Ranked(U) /\ IsFiniteSet(U) /\ Cardinality(U) \in Nat
    <3>1. U \in SUBSET (1..m)
      OBVIOUS
    <3> HIDE DEF U
    <3> QED BY <1>1, <1>3, <3>1
  <2>3. T = U \cup {m + 1} /\ Cardinality(T) = Cardinality(U) + 1
    BY <2>1, <2>2, FS_AddElement
  <2>4. ASSUME NEW i \in U
        PROVE  {j \in T : j < i} = {j \in U : j < i}
    BY <2>2, <2>4
  <2>5. {j \in T : j < m + 1} = U
    <3>1. \A j \in T : (j < m + 1) <=> (j # m + 1)
      BY <2>1
    <3> QED BY <3>1
  <2>6. ASSUME NEW k \in 1..Cardinality(T)
        PROVE  AtRank(T, k) # {}
    <3>1. CASE k \in 1..Cardinality(U)
      <4>1. PICK i \in U : Cardinality({j \in U : j < i}) = k - 1
        BY <2>2, <3>1 DEF AtRank
      <4> QED BY <2>4, <4>1 DEF AtRank
    <3>2. CASE k = Cardinality(U) + 1
      BY <2>1, <2>2, <2>5, <3>2 DEF AtRank
    <3> QED BY <2>2, <2>3, <3>1, <3>2
  <2> QED BY <2>6
<1>4. n \in I
  <2> HIDE DEF I
  <2> QED BY <1>2, <1>3, NatSet
<1> QED BY <1>1, <1>4

Kept(s) == {i \in DOMAIN s : i = 1 \/ s[i - 1] # s[i]}

\* One more element at the end is one more version unless it equals the last one.
LEMMA MergeAppend ==
    ASSUME NEW V, NEW s \in Seq(V), s # <<>>, NEW x \in V
    PROVE  MergeEqual(Append(s, x)) =
             IF s[Len(s)] = x THEN MergeEqual(s) ELSE Append(MergeEqual(s), x)
<1> DEFINE n == Len(s)
           t == Append(s, x)
           c == Cardinality(Kept(s))
<1>1. n \in Nat \ {0} /\ Len(t) = n + 1 /\ t[n + 1] = x /\ \A i \in 1..n : t[i] = s[i]
  OBVIOUS
<1>2. Kept(s) \in SUBSET (1..n)
  BY DEF Kept
<1>3. IsFiniteSet(Kept(s)) /\ c \in Nat /\ \A k \in 1..c : AtRank(Kept(s), k) # {}
  BY <1>1, <1>2, EveryRank
<1>4. \A r : MergeEqual(r) = Pick(r, Kept(r))
  BY DEF MergeEqual, Kept
<1>5. ASSUME NEW k \in 1..c
      PROVE  t[CHOOSE i \in AtRank(Kept(s), k) : TRUE] = s[CHOOSE i \in AtRank(Kept(s), k) : TRUE]
  <2>1. (CHOOSE i \in AtRank(Kept(s), k) : TRUE) \in AtRank(Kept(s), k)
    BY <1>3
  <2> QED BY <1>1, <1>2, <2>1 DEF AtRank
<1>6. CASE s[n] = x
  <2>1. Kept(t) = Kept(s)
    BY <1>1, <1>6 DEF Kept
  <2> QED BY <1>4, <1>5, <1>6, <2>1 DEF Pick
<1>7. CASE s[n] # x
  <2>1. Kept(t) = Kept(s) \cup {n + 1} /\ n + 1 \notin Kept(s)
    BY <1>1, <1>2, <1>7 DEF Kept
  <2>2. Cardinality(Kept(t)) = c + 1
    BY <1>3, <2>1, FS_AddElement
  <2>3. ASSUME NEW i \in Kept(s)
        PROVE  {j \in Kept(t) : j < i} = {j \in Kept(s) : j < i}
    BY <1>1, <1>2, <2>1, <2>3
  <2>4. {j \in Kept(t) : j < n + 1} = Kept(s)
    BY <1>1, <1>2, <2>1
  <2>5. ASSUME NEW k \in 1..c
        PROVE  AtRank(Kept(t), k) = AtRank(Kept(s), k)
    <3>1. c # k - 1
      BY <1>3, <2>5
    <3>2. Cardinality({j \in Kept(t) : j < n + 1}) # k - 1
      BY <2>4, <3>1
    <3> QED BY <2>1, <2>3, <3>2 DEF AtRank
  <2>6. AtRank(Kept(t), c + 1) = {n + 1}
    <3>1. \A i \in Kept(s) : Cardinality({j \in Kept(s) : j < i}) # c
      <4>1. SUFFICES ASSUME NEW i \in Kept(s)
                     PROVE  Cardinality({j \in Kept(s) : j < i}) # c
        OBVIOUS
      <4>2. {j \in Kept(s) : j < i} \in SUBSET Kept(s) /\ i \notin {j \in Kept(s) : j < i}
        BY <1>1, <1>2
      <4> QED BY <1>3, <4>1, <4>2, FS_Subset
    <3>2. (c + 1) - 1 = c
      BY <1>3
    <3> HIDE DEF c
    <3>3. \A i \in Kept(t) : (Cardinality({j \in Kept(t) : j < i}) = c) <=> (i = n + 1)
      BY <2>1, <2>3, <2>4, <3>1 DEF c
    <3>4. \A i \in Kept(t) : i \in AtRank(Kept(t), c + 1) <=> i = n + 1
      <4>1. ASSUME NEW i \in Kept(t)
            PROVE  i \in AtRank(Kept(t), c + 1) <=>
                     Cardinality({j \in Kept(t) : j < i}) = (c + 1) - 1
        BY InRank
      <4> QED BY <3>2, <3>3, <4>1
    <3>5. AtRank(Kept(t), c + 1) \subseteq Kept(t)
      BY DEF AtRank
    <3> QED BY <2>1, <3>4, <3>5
  <2>7. MergeEqual(t) = [k \in 1..(c + 1) |-> t[CHOOSE i \in AtRank(Kept(t), k) : TRUE]]
    BY <1>4, <2>2 DEF Pick
  <2>8. MergeEqual(s) = [k \in 1..c |-> s[CHOOSE i \in AtRank(Kept(s), k) : TRUE]]
    BY <1>4 DEF Pick
  <2>9. MergeEqual(s) \in Seq(V) /\ Len(MergeEqual(s)) = c
    <3>1. ASSUME NEW k \in 1..c
          PROVE  s[CHOOSE i \in AtRank(Kept(s), k) : TRUE] \in V
      <4>1. (CHOOSE i \in AtRank(Kept(s), k) : TRUE) \in AtRank(Kept(s), k)
        BY <1>3
      <4> QED BY <1>1, <1>2, <4>1 DEF AtRank
    <3> QED BY <1>3, <2>8, <3>1
  <2>10. t[CHOOSE i \in AtRank(Kept(t), c + 1) : TRUE] = x
    <3>1. (CHOOSE i \in AtRank(Kept(t), c + 1) : TRUE) = n + 1
      BY <2>6
    <3> QED BY <1>1, <3>1
  <2>11. \A k \in 1..c : t[CHOOSE i \in AtRank(Kept(t), k) : TRUE] = MergeEqual(s)[k]
    BY <1>5, <2>5, <2>8
  <2> HIDE DEF t, c
  <2>12. MergeEqual(t) = Append(MergeEqual(s), x)
    <3> DEFINE q == MergeEqual(s)
    <3>1. q \in Seq(V) /\ Len(q) = c
      BY <2>9
    <3>2. \A k \in 1..(c + 1) : k = c + 1 \/ k \in 1..c
      BY <1>3
    <3> HIDE DEF q
    <3>3. \A k \in 1..(c + 1) : t[CHOOSE i \in AtRank(Kept(t), k) : TRUE] = Append(q, x)[k]
      <4>1. SUFFICES ASSUME NEW k \in 1..(c + 1)
                     PROVE  t[CHOOSE i \in AtRank(Kept(t), k) : TRUE] = Append(q, x)[k]
        OBVIOUS
      <4>2. Append(q, x)[c + 1] = x /\ \A l \in 1..c : Append(q, x)[l] = q[l]
        BY <3>1
      <4>3. CASE k = c + 1
        BY <2>10, <4>2, <4>3
      <4>4. CASE k \in 1..c
        BY <2>11, <4>2, <4>4 DEF q
      <4> QED BY <3>2, <4>3, <4>4
    <3>4. Append(q, x) = [k \in 1..(c + 1) |-> Append(q, x)[k]]
      <4>1. Append(q, x) \in Seq(V) /\ Len(Append(q, x)) = c + 1
        BY <3>1
      <4>2. \A w \in Seq(V) : w = [k \in 1..Len(w) |-> w[k]]
        OBVIOUS
      <4> QED BY <4>1, <4>2
    <3>5. MergeEqual(t) = Append(q, x)
      BY <2>7, <3>3, <3>4
    <3> QED BY <3>5 DEF q
  <2> QED BY <1>7, <2>12 DEF t
<1> QED BY <1>6, <1>7

\* One version stays one version.
LEMMA MergeOne ==
    ASSUME NEW x
    PROVE  MergeEqual(<<x>>) = <<x>>
<1>1. DOMAIN <<x>> = {1}
  OBVIOUS
<1>2. Kept(<<x>>) = {1}
  BY <1>1 DEF Kept
<1>3. Cardinality({1}) = 1 /\ {j \in {1} : j < 1} = {} /\ Cardinality({}) = 0
  <2>1. {j \in {1} : j < 1} = {}
    OBVIOUS
  <2> QED BY <2>1, FS_Singleton, FS_EmptySet
<1>4. AtRank({1}, 1) = {1}
  BY <1>3, InRank
<1>5. MergeEqual(<<x>>) = Pick(<<x>>, {1})
  BY <1>2 DEF MergeEqual, Kept
<1>6. MergeEqual(<<x>>) = [k \in 1..1 |-> <<x>>[CHOOSE i \in AtRank({1}, k) : TRUE]]
  BY <1>3, <1>5 DEF Pick
<1>7. (CHOOSE i \in AtRank({1}, 1) : TRUE) = 1
  BY <1>4
<1>8. \A k \in 1..1 : <<x>>[CHOOSE i \in AtRank({1}, k) : TRUE] = x
  <2>1. \A k \in 1..1 : k = 1
    OBVIOUS
  <2>2. <<x>>[1] = x
    OBVIOUS
  <2> QED BY <1>7, <2>1, <2>2
<1>9. MergeEqual(<<x>>) = [k \in 1..1 |-> x]
  BY <1>6, <1>8
<1> QED BY <1>9

SuffixesOf(s) == {SubSeq(s, i, Len(s)) : i \in 1..(Len(s) + 1)}

\* A sequence of two elements and more is a sequence and its last element.
LEMMA Unappend ==
    ASSUME NEW V, NEW s \in Seq(V), Len(s) > 1
    PROVE  \E r \in Seq(V), x \in V :
               r # <<>> /\ s = Append(r, x) /\ Len(s) = Len(r) + 1
<1>1. PICK r \in Seq(V), x \in V : s = Append(r, x)
  BY SequenceEmptyOrAppend, EmptySeq
<1>2. Len(s) = Len(r) + 1 /\ r # <<>>
  BY <1>1, AppendProperties, EmptySeq
<1> QED BY <1>1, <1>2

\* A suffix and one more element is a suffix of all and that element.
LEMMA AppendToSuffix ==
    ASSUME NEW V, NEW w \in Seq(V), NEW x \in V, NEW j \in 1..(Len(w) + 1)
    PROVE  /\ Append(SubSeq(w, j, Len(w)), x) = SubSeq(Append(w, x), j, Len(w) + 1)
           /\ Len(Append(w, x)) = Len(w) + 1
<1> DEFINE u == SubSeq(w, j, Len(w))
           a == Append(w, x)
           r == SubSeq(a, j, Len(w) + 1)
           n == Len(w) + 1 - j
<1>1. /\ Len(w) \in Nat /\ n \in Nat /\ j \in Int /\ Len(w) + 1 \in Int /\ j <= Len(w) + 1
      /\ j - 1 \in Nat
  BY LenProperties
<1>2. /\ a \in Seq(V) /\ Len(a) = Len(w) + 1 /\ a[Len(w) + 1] = x
      /\ \A i \in 1..Len(w) : a[i] = w[i]
  BY AppendProperties
<1>3. /\ u \in Seq(V) /\ Len(u) = n
      /\ \A i \in 1..n : u[i] = w[j + i - 1]
  <2>1. \A i \in j..Len(w) : w[i] \in V
    BY <1>1, ElementOfSeq
  <2> QED BY <1>1, <2>1, SubSeqProperties
<1>4. /\ r \in Seq(V) /\ Len(r) = n + 1
      /\ \A i \in 1..(n + 1) : r[i] = a[j + i - 1]
  <2>1. \A i \in j..(Len(w) + 1) : a[i] \in V
    BY <1>1, <1>2, ElementOfSeq
  <2>2. (Len(w) + 1) - j + 1 = n + 1
    BY <1>1
  <2> HIDE DEF a, n
  <2> QED BY <1>1, <2>1, <2>2, SubSeqProperties
<1>5. /\ Append(u, x) \in Seq(V) /\ Len(Append(u, x)) = n + 1 /\ Append(u, x)[n + 1] = x
      /\ \A i \in 1..n : Append(u, x)[i] = u[i]
  <2> HIDE DEF u, n
  <2> QED BY <1>3, AppendProperties
<1>6. \A i \in 1..(n + 1) : Append(u, x)[i] = r[i]
  <2>1. SUFFICES ASSUME NEW i \in 1..(n + 1)
                 PROVE  Append(u, x)[i] = r[i]
    OBVIOUS
  <2>2. CASE i = n + 1
    <3>1. j + i - 1 = Len(w) + 1
      BY <1>1, <2>2
    <3> HIDE DEF u, a, r, n
    <3> QED BY <1>2, <1>4, <1>5, <2>2, <3>1
  <2>3. CASE i \in 1..n
    <3>1. j + i - 1 \in 1..Len(w)
      BY <1>1, <2>3
    <3> HIDE DEF u, a, r, n
    <3> QED BY <1>2, <1>3, <1>4, <1>5, <2>3, <3>1
  <2> QED BY <1>1, <2>1, <2>2, <2>3
<1>7. Append(u, x) = r
  <2> HIDE DEF u, r, n
  <2> QED BY <1>4, <1>5, <1>6, SeqEqual
<1> QED BY <1>2, <1>7

\* The suffix from the last element on is that element.
LEMMA LastAlone ==
    ASSUME NEW V, NEW u \in Seq(V), u # <<>>
    PROVE  SubSeq(u, Len(u), Len(u)) = <<u[Len(u)]>>
<1>1. Len(u) \in Nat \ {0}
  BY EmptySeq
<1>2. \A i \in Len(u)..Len(u) : u[i] \in V
  BY <1>1, ElementOfSeq
<1>3. /\ SubSeq(u, Len(u), Len(u)) \in Seq(V) /\ Len(SubSeq(u, Len(u), Len(u))) = 1
      /\ SubSeq(u, Len(u), Len(u))[1] = u[Len(u)]
  <2>1. Len(u) \in Int /\ Len(u) - Len(u) + 1 = 1 /\ Len(u) + 1 - 1 = Len(u)
    BY <1>1
  <2>2. \A i \in 1..(Len(u) - Len(u) + 1) : SubSeq(u, Len(u), Len(u))[i] = u[Len(u) + i - 1]
    BY <1>2, <2>1, SubSeqProperties
  <2> QED BY <1>1, <1>2, <2>1, <2>2, SubSeqProperties
<1>4. \A v \in Seq(V) : Len(v) = 1 => v = <<v[1]>>
  OBVIOUS
<1> QED BY <1>3, <1>4

\* Merging keeps the last element, and what is merged of the newer elements is what
\* is newest of all that is merged.
LEMMA MergeKeeps ==
    ASSUME NEW V, NEW s \in Seq(V), s # <<>>
    PROVE  /\ MergeEqual(s) \in Seq(V) /\ MergeEqual(s) # <<>>
           /\ LastOf(MergeEqual(s)) = s[Len(s)]
           /\ \A d \in 1..Len(s) :
                MergeEqual(SubSeq(s, d, Len(s))) \in SuffixesOf(MergeEqual(s))
<1> DEFINE Q(r) == /\ MergeEqual(r) \in Seq(V) /\ MergeEqual(r) # <<>>
                   /\ LastOf(MergeEqual(r)) = r[Len(r)]
                   /\ \A d \in 1..Len(r) :
                        MergeEqual(SubSeq(r, d, Len(r))) \in SuffixesOf(MergeEqual(r))
           I == {m \in Nat : \A r \in Seq(V) : Len(r) = m + 1 => Q(r)}
<1>1. ASSUME NEW x \in V
      PROVE  Q(<<x>>)
  <2>1. SubSeq(<<x>>, 1, 1) = <<x>> /\ Len(<<x>>) = 1 /\ <<x>>[1] = x /\ <<x>> \in Seq(V)
    <3>1. <<x>> \in Seq(V) /\ Len(<<x>>) = 1 /\ <<x>>[1] = x
      OBVIOUS
    <3> QED BY <3>1, SubSeqFull
  <2>2. <<x>> \in SuffixesOf(<<x>>)
    BY <2>1 DEF SuffixesOf
  <2>3. \A d \in 1..Len(<<x>>) : d = 1
    BY <2>1
  <2>4. MergeEqual(<<x>>) = <<x>>
    BY MergeOne
  <2>5. <<x>> # <<>>
    OBVIOUS
  <2> QED BY <2>1, <2>2, <2>3, <2>4, <2>5 DEF LastOf
<1>2. 0 \in I
  <2>1. \A r \in Seq(V) : Len(r) = 1 => r[1] \in V /\ r = <<r[1]>>
    OBVIOUS
  <2> HIDE DEF Q
  <2> QED BY <1>1, <2>1
<1>3. ASSUME NEW m \in Nat, m \in I
      PROVE  m + 1 \in I
  <2>1. SUFFICES ASSUME NEW t \in Seq(V), Len(t) = m + 2
                 PROVE  Q(t)
    <3> HIDE DEF Q
    <3> QED BY <2>1
  <2>2. PICK r \in Seq(V), x \in V : r # <<>> /\ t = Append(r, x) /\ Len(t) = Len(r) + 1
    <3>1. Len(t) > 1
      BY <1>3, <2>1
    <3> HIDE DEF Q, I
    <3> QED BY <2>1, <3>1, Unappend
  <2>3. Q(r)
    <3>1. Len(r) = m + 1
      BY <2>1, <2>2
    <3> HIDE DEF Q
    <3> QED BY <1>3, <2>2, <3>1
  <2>4. MergeEqual(t) = IF r[Len(r)] = x THEN MergeEqual(r) ELSE Append(MergeEqual(r), x)
    BY <2>2, MergeAppend
  <2>5. /\ MergeEqual(t) \in Seq(V) /\ MergeEqual(t) # <<>>
        /\ LastOf(MergeEqual(t)) = t[Len(t)]
    BY <2>2, <2>3, <2>4 DEF LastOf
  <2>6. ASSUME NEW d \in 1..Len(t)
        PROVE  MergeEqual(SubSeq(t, d, Len(t))) \in SuffixesOf(MergeEqual(t))
    <3>1. CASE d = Len(t)
      <4>1. \A u \in Seq(V) : u # <<>> => SubSeq(u, Len(u), Len(u)) = <<u[Len(u)]>>
        BY LastAlone
      <4>2. SubSeq(t, d, Len(t)) = <<x>>
        <5>1. t # <<>> /\ t[Len(t)] = x
          BY <2>2, AppendProperties
        <5> HIDE DEF Q, I
        <5> QED BY <2>1, <3>1, <4>1, <5>1
      <4>3. SubSeq(MergeEqual(t), Len(MergeEqual(t)), Len(MergeEqual(t))) = <<x>>
        BY <2>2, <2>5, <4>1 DEF LastOf
      <4>4. Len(MergeEqual(t)) \in 1..(Len(MergeEqual(t)) + 1)
        BY <2>5
      <4> QED BY <4>2, <4>3, <4>4, MergeOne DEF SuffixesOf
    <3>2. CASE d \in 1..Len(r)
      <4> DEFINE u == SubSeq(r, d, Len(r))
      <4>1. u \in Seq(V) /\ u # <<>> /\ u[Len(u)] = r[Len(r)]
        BY <2>2, <3>2
      <4>2. SubSeq(t, d, Len(t)) = Append(u, x)
        BY <2>2, <3>2
      <4>3. PICK i \in 1..(Len(MergeEqual(r)) + 1) :
              MergeEqual(u) = SubSeq(MergeEqual(r), i, Len(MergeEqual(r)))
        BY <2>3, <3>2 DEF SuffixesOf
      <4> HIDE DEF u
      <4>4. MergeEqual(Append(u, x)) = IF r[Len(r)] = x THEN MergeEqual(u)
                                       ELSE Append(MergeEqual(u), x)
        BY <2>2, <4>1, MergeAppend
      <4>5. CASE r[Len(r)] = x
        BY <2>3, <2>4, <4>2, <4>3, <4>4, <4>5 DEF SuffixesOf
      <4>6. CASE r[Len(r)] # x
        <5> DEFINE q == MergeEqual(r)
        <5>1. /\ Append(SubSeq(q, i, Len(q)), x) = SubSeq(Append(q, x), i, Len(q) + 1)
              /\ Len(Append(q, x)) = Len(q) + 1 /\ Len(q) \in Nat
          <6>1. q \in Seq(V)
            BY <2>3
          <6>2. Len(q) \in Nat
            BY <6>1, LenProperties
          <6>3. x \in V /\ i \in 1..(Len(q) + 1)
            OBVIOUS
          <6> HIDE DEF q
          <6> QED BY <6>1, <6>2, <6>3, AppendToSuffix
        <5>2. /\ MergeEqual(Append(u, x)) = SubSeq(MergeEqual(t), i, Len(MergeEqual(t)))
              /\ i \in 1..(Len(MergeEqual(t)) + 1)
          BY <2>3, <2>4, <4>3, <4>4, <4>6, <5>1
        <5> QED BY <4>2, <5>2 DEF SuffixesOf
      <4> QED BY <4>5, <4>6
    <3> QED BY <2>2, <3>1, <3>2
  <2> QED BY <2>5, <2>6
<1>4. Len(s) - 1 \in Nat /\ Len(s) = (Len(s) - 1) + 1
  OBVIOUS
<1>5. Q(s)
  <2> HIDE DEF Q
  <2>1. Nat \subseteq I
    <3> HIDE DEF I
    <3> QED BY <1>2, <1>3, NatSet
  <2> QED BY <1>4, <2>1
<1> QED BY <1>5

-----------------------------------------------------------------------------
(* Lines of versions                                                       *)

PrefixesOf(s) == {SubSeq(s, 1, i) : i \in 0..Len(s)}

\* A line of versions ends at the version under the cursor.
LEMMA LineGrows ==
    ASSUME NEW V, NEW s \in Seq(V), NEW x \in V
    PROVE  /\ MergeEqual(Append(s, x)) \in Seq(V) /\ MergeEqual(Append(s, x)) # <<>>
           /\ LastOf(MergeEqual(Append(s, x))) = x
<1>1. Append(s, x) \in Seq(V) /\ Append(s, x) # <<>> /\ Append(s, x)[Len(Append(s, x))] = x
  BY AppendProperties
<1> DEFINE t == Append(s, x)
<1> HIDE DEF t
<1>2. t \in Seq(V) /\ t # <<>> /\ t[Len(t)] = x
  BY <1>1 DEF t
<1>3. /\ MergeEqual(t) \in Seq(V) /\ MergeEqual(t) # <<>> /\ LastOf(MergeEqual(t)) = x
  BY <1>2, MergeKeeps
<1> QED BY <1>3 DEF t

\* A new version at the end of a line is one more unless it is the last one again.
LEMMA OneVersionMore ==
    ASSUME NEW V, NEW s \in Seq(V), NEW x \in V, NEW y \in V
    PROVE  /\ x = y => MergeEqual(Append(Append(s, x), y)) = MergeEqual(Append(s, x))
           /\ x # y => MergeEqual(Append(Append(s, x), y)) = Append(MergeEqual(Append(s, x)), y)
<1>1. Append(s, x) \in Seq(V) /\ Append(s, x) # <<>> /\ Append(s, x)[Len(Append(s, x))] = x
  BY AppendProperties
<1> DEFINE t == Append(s, x)
<1> HIDE DEF t
<1>2. t \in Seq(V) /\ t # <<>> /\ t[Len(t)] = x
  BY <1>1 DEF t
<1>3. MergeEqual(Append(t, y)) = IF x = y THEN MergeEqual(t) ELSE Append(MergeEqual(t), y)
  BY <1>2, MergeAppend
<1> QED BY <1>3 DEF t

\* Dropping the oldest versions drops the oldest of the line.
LEMMA LineTrimmed ==
    ASSUME NEW V, NEW s \in Seq(V), NEW x \in V, NEW w \in SuffixesOf(s)
    PROVE  MergeEqual(Append(w, x)) \in SuffixesOf(MergeEqual(Append(s, x)))
<1>1. PICK d \in 1..(Len(s) + 1) : w = SubSeq(s, d, Len(s))
  BY DEF SuffixesOf
<1>2. Append(w, x) = SubSeq(Append(s, x), d, Len(Append(s, x)))
      /\ d \in 1..Len(Append(s, x))
  BY <1>1, AppendToSuffix
<1>3. Append(s, x) \in Seq(V) /\ Append(s, x) # <<>>
  BY AppendProperties
<1> DEFINE t == Append(s, x)
<1> HIDE DEF t
<1>4. MergeEqual(SubSeq(t, d, Len(t))) \in SuffixesOf(MergeEqual(t))
  BY <1>2, <1>3, MergeKeeps DEF t
<1> QED BY <1>2, <1>4 DEF t

\* A sequence that is not empty is what precedes its last element, and that element.
LEMMA SplitLast ==
    ASSUME NEW V, NEW s \in Seq(V)
    PROVE  /\ s # <<>> => /\ AllButLast(s) \in Seq(V) /\ LastOf(s) \in V
                         /\ s = Append(AllButLast(s), LastOf(s))
                         /\ Len(s) = Len(AllButLast(s)) + 1
           /\ \A x \in V : AllButLast(Append(s, x)) = s
           /\ \A x : AllButLast(<<x>>) = <<>>
<1>1. ASSUME s # <<>>
      PROVE  /\ AllButLast(s) \in Seq(V) /\ LastOf(s) \in V
             /\ s = Append(AllButLast(s), LastOf(s))
             /\ Len(s) = Len(AllButLast(s)) + 1
  <2>1. Len(s) \in Nat \ {0}
    BY <1>1, EmptySeq
  <2>2. /\ SubSeq(s, 1, Len(s) - 1) \in Seq(V) /\ Len(SubSeq(s, 1, Len(s) - 1)) = Len(s) - 1
        /\ \A i \in 1..(Len(s) - 1) : SubSeq(s, 1, Len(s) - 1)[i] = s[i]
    <3> DEFINE n == Len(s) - 1
    <3>1. n \in 0..Len(s)
      BY <2>1
    <3>2. /\ SubSeq(s, 1, n) \in Seq(V) /\ Len(SubSeq(s, 1, n)) = n
          /\ \A i \in 1..n : SubSeq(s, 1, n)[i] = s[i]
      <4> HIDE DEF n
      <4> QED BY <2>1, <3>1
    <3> QED BY <3>2
  <2>3. s[Len(s)] \in V
    BY <2>1
  <2> DEFINE r == SubSeq(s, 1, Len(s) - 1)
  <2>4. /\ Append(r, s[Len(s)]) \in Seq(V) /\ Len(Append(r, s[Len(s)])) = Len(s)
        /\ \A i \in 1..Len(s) : Append(r, s[Len(s)])[i] = s[i]
    <3> HIDE DEF r
    <3>1. r \in Seq(V) /\ Len(r) = Len(s) - 1 /\ \A i \in 1..(Len(s) - 1) : r[i] = s[i]
      BY <2>2 DEF r
    <3> QED BY <2>1, <2>3, <3>1
  <2>5. s = Append(r, s[Len(s)])
    <3> DEFINE q == Append(r, s[Len(s)])
    <3> HIDE DEF q
    <3>1. q \in Seq(V) /\ Len(q) = Len(s) /\ \A i \in 1..Len(s) : q[i] = s[i]
      BY <2>4 DEF q
    <3>2. q = s
      BY <3>1, SeqEqual
    <3> QED BY <3>2 DEF q
  <2> QED BY <2>1, <2>2, <2>3, <2>5 DEF AllButLast, LastOf
<1>2. ASSUME NEW x \in V
      PROVE  AllButLast(Append(s, x)) = s
  BY DEF AllButLast
<1>3. \A x : AllButLast(<<x>>) = <<>>
  BY DEF AllButLast
<1> QED BY <1>1, <1>2, <1>3

\* What precedes the last element of a suffix is a suffix of what precedes it in all.
LEMMA SuffixButLast ==
    ASSUME NEW V, NEW v \in Seq(V), NEW w \in SuffixesOf(v), w # <<>>
    PROVE  AllButLast(w) \in SuffixesOf(AllButLast(v))
<1>1. PICK d \in 1..(Len(v) + 1) : w = SubSeq(v, d, Len(v))
  BY DEF SuffixesOf
<1>2. Len(v) \in Nat /\ d \in 1..Len(v)
  <2>1. Len(v) \in Nat
    OBVIOUS
  <2>2. d # Len(v) + 1
    BY <1>1, <2>1
  <2> QED BY <2>1, <2>2
<1> DEFINE a == AllButLast(w)
           r == AllButLast(v)
           b == SubSeq(r, d, Len(r))
<1>3. w \in Seq(V) /\ Len(w) = Len(v) - d + 1 /\ \A i \in 1..Len(w) : w[i] = v[d + i - 1]
  BY <1>1, <1>2
<1>4. a \in Seq(V) /\ Len(a) = Len(v) - d /\ \A i \in 1..(Len(v) - d) : a[i] = v[d + i - 1]
  BY <1>2, <1>3 DEF AllButLast
<1>5. r \in Seq(V) /\ Len(r) = Len(v) - 1 /\ \A i \in 1..(Len(v) - 1) : r[i] = v[i]
  BY <1>2 DEF AllButLast
<1>6. b \in Seq(V) /\ Len(b) = Len(v) - d /\ \A i \in 1..(Len(v) - d) : b[i] = v[d + i - 1]
  <2> HIDE DEF r
  <2> QED BY <1>2, <1>5
<1>7. a = b
  <2> HIDE DEF a, b
  <2>1. \A i \in 1..Len(a) : a[i] = b[i]
    BY <1>4, <1>6
  <2> QED BY <1>4, <1>6, <2>1, SeqEqual
<1>8. d \in 1..(Len(r) + 1)
  BY <1>2, <1>5
<1> QED BY <1>7, <1>8 DEF SuffixesOf

\* Seen from the other end a suffix is a prefix, and the last element the first.
LEMMA SeenBackwards ==
    ASSUME NEW V, NEW v \in Seq(V)
    PROVE  /\ Backwards(v) \in Seq(V) /\ Len(Backwards(v)) = Len(v)
           /\ \A w \in SuffixesOf(v) : Backwards(w) \in PrefixesOf(Backwards(v))
           /\ \A x \in V : Backwards(Append(v, x)) = <<x>> \o Backwards(v)
           /\ Backwards(<<>>) = <<>>
<1>1. /\ Len(v) \in Nat /\ Backwards(v) \in Seq(V) /\ Len(Backwards(v)) = Len(v)
      /\ \A i \in 1..Len(v) : Backwards(v)[i] = v[Len(v) + 1 - i]
  BY DEF Backwards
<1>2. ASSUME NEW d \in 1..(Len(v) + 1)
      PROVE  Backwards(SubSeq(v, d, Len(v))) \in PrefixesOf(Backwards(v))
  <2> DEFINE w == SubSeq(v, d, Len(v))
             n == Len(v) + 1 - d
             q == Backwards(v)
             p == SubSeq(q, 1, n)
  <2>1. n \in 0..Len(v) /\ n \in Nat
    BY <1>1
  <2>2. w \in Seq(V) /\ Len(w) = n /\ \A i \in 1..n : w[i] = v[d + i - 1]
    BY <1>1
  <2>3. /\ Backwards(w) \in Seq(V) /\ Len(Backwards(w)) = n
        /\ \A i \in 1..n : Backwards(w)[i] = w[n + 1 - i]
    <3> HIDE DEF w, n
    <3> QED BY <2>1, <2>2 DEF Backwards
  <2>4. \A i \in 1..n : Backwards(w)[i] = v[Len(v) + 1 - i]
    <3>1. SUFFICES ASSUME NEW i \in 1..n
                   PROVE  Backwards(w)[i] = v[Len(v) + 1 - i]
      OBVIOUS
    <3>2. n + 1 - i \in 1..n /\ d + (n + 1 - i) - 1 = Len(v) + 1 - i
      BY <1>1, <2>1
    <3> HIDE DEF w, n
    <3> QED BY <2>2, <2>3, <3>2
  <2>5. p \in Seq(V) /\ Len(p) = n /\ \A i \in 1..n : p[i] = v[Len(v) + 1 - i]
    <3>1. q \in Seq(V) /\ Len(q) = Len(v) /\ \A i \in 1..Len(v) : q[i] = v[Len(v) + 1 - i]
      BY <1>1
    <3> HIDE DEF q, n
    <3>2. p \in Seq(V) /\ Len(p) = n /\ \A i \in 1..n : p[i] = q[i]
      BY <1>1, <2>1, <3>1
    <3> QED BY <1>1, <2>1, <3>1, <3>2
  <2>6. Backwards(w) = p
    <3> HIDE DEF w, p, n
    <3>1. \A i \in 1..n : Backwards(w)[i] = p[i]
      BY <2>4, <2>5
    <3> QED BY <2>3, <2>5, <3>1, SeqEqual
  <2> QED BY <1>1, <2>1, <2>6 DEF PrefixesOf
<1>3. ASSUME NEW x \in V
      PROVE  Backwards(Append(v, x)) = <<x>> \o Backwards(v)
  <2> DEFINE t == Append(v, x)
             q == Backwards(v)
             r == <<x>> \o q
             b == Backwards(t)
  <2>1. t \in Seq(V) /\ Len(t) = Len(v) + 1 /\ t[Len(v) + 1] = x /\ \A i \in 1..Len(v) : t[i] = v[i]
    BY <1>1
  <2>2. /\ b \in Seq(V) /\ Len(b) = Len(v) + 1
        /\ \A i \in 1..(Len(v) + 1) : b[i] = t[Len(v) + 2 - i]
    <3> HIDE DEF t
    <3> QED BY <1>1, <2>1 DEF Backwards
  <2>3. /\ r \in Seq(V) /\ Len(r) = Len(v) + 1 /\ r[1] = x
        /\ \A i \in 2..(Len(v) + 1) : r[i] = v[Len(v) + 2 - i]
    <3>1. q \in Seq(V) /\ Len(q) = Len(v) /\ \A i \in 1..Len(v) : q[i] = v[Len(v) + 1 - i]
      BY <1>1
    <3> HIDE DEF q
    <3>2. /\ r \in Seq(V) /\ Len(r) = Len(v) + 1 /\ r[1] = x
          /\ \A i \in 2..(Len(v) + 1) : r[i] = q[i - 1]
      BY <1>1, <3>1
    <3>3. \A i \in 2..(Len(v) + 1) : i - 1 \in 1..Len(v) /\ Len(v) + 1 - (i - 1) = Len(v) + 2 - i
      BY <1>1
    <3> HIDE DEF r
    <3> QED BY <3>1, <3>2, <3>3
  <2>4. \A i \in 1..(Len(v) + 1) : b[i] = r[i]
    <3>1. SUFFICES ASSUME NEW i \in 1..(Len(v) + 1)
                   PROVE  b[i] = r[i]
      OBVIOUS
    <3>2. CASE i = 1
      <4>1. Len(v) + 2 - i = Len(v) + 1
        BY <1>1, <3>2
      <4> HIDE DEF b, r, t
      <4> QED BY <2>1, <2>2, <2>3, <3>2, <4>1
    <3>3. CASE i \in 2..(Len(v) + 1)
      <4>1. Len(v) + 2 - i \in 1..Len(v)
        BY <1>1, <3>3
      <4> HIDE DEF b, r, t
      <4> QED BY <2>1, <2>2, <2>3, <3>3, <4>1
    <3> QED BY <1>1, <3>2, <3>3
  <2>5. b = r
    <3> HIDE DEF b, r
    <3> QED BY <2>2, <2>3, <2>4, SeqEqual
  <2> QED BY <2>5
<1>4. Backwards(<<>>) = <<>>
  BY DEF Backwards
<1> QED BY <1>1, <1>2, <1>3, <1>4 DEF SuffixesOf

\* The versions of a stack, step by step.
LEMMA WasOfStack ==
    ASSUME NEW s \in Seq(Entries)
    PROVE  /\ WasOf(s) \in Seq(Files) /\ Len(WasOf(s)) = Len(s)
           /\ \A e \in Entries : WasOf(Append(s, e)) = Append(WasOf(s), e.was)
           /\ WasOf(Trim(s)) \in SuffixesOf(WasOf(s))
           /\ WasOf(<<>>) = <<>>
<1>1. \A e \in Entries : e.was \in Files
  BY DEF Entries
<1>2. /\ Len(s) \in Nat /\ WasOf(s) \in Seq(Files) /\ Len(WasOf(s)) = Len(s)
      /\ \A i \in 1..Len(s) : WasOf(s)[i] = s[i].was
  BY <1>1 DEF WasOf
<1>3. ASSUME NEW e \in Entries
      PROVE  WasOf(Append(s, e)) = Append(WasOf(s), e.was)
  <2> DEFINE t == Append(s, e)
             w == WasOf(s)
             a == Append(w, e.was)
  <2>1. /\ t \in Seq(Entries) /\ Len(t) = Len(s) + 1 /\ t[Len(s) + 1] = e
        /\ \A i \in 1..Len(s) : t[i] = s[i]
    BY <1>2
  <2>2. /\ WasOf(t) \in Seq(Files) /\ Len(WasOf(t)) = Len(s) + 1
        /\ \A i \in 1..(Len(s) + 1) : WasOf(t)[i] = t[i].was
    <3> HIDE DEF t
    <3> QED BY <1>1, <1>2, <2>1 DEF WasOf
  <2>3. /\ a \in Seq(Files) /\ Len(a) = Len(s) + 1 /\ a[Len(s) + 1] = e.was
        /\ \A i \in 1..Len(s) : a[i] = s[i].was
    <3>1. w \in Seq(Files) /\ Len(w) = Len(s) /\ \A i \in 1..Len(s) : w[i] = s[i].was
      BY <1>2
    <3> HIDE DEF w
    <3> QED BY <1>1, <1>2, <3>1
  <2>4. \A i \in 1..(Len(s) + 1) : WasOf(t)[i] = a[i]
    <3> HIDE DEF t, a
    <3>1. \A i \in 1..(Len(s) + 1) : i = Len(s) + 1 \/ i \in 1..Len(s)
      BY <1>2
    <3>2. WasOf(t)[Len(s) + 1] = a[Len(s) + 1]
      <4>1. Len(s) + 1 \in 1..(Len(s) + 1)
        BY <1>2
      <4> QED BY <2>1, <2>2, <2>3, <4>1
    <3>3. \A i \in 1..Len(s) : WasOf(t)[i] = a[i]
      <4>1. \A i \in 1..Len(s) : i \in 1..(Len(s) + 1)
        BY <1>2
      <4> QED BY <2>1, <2>2, <2>3, <4>1
    <3> QED BY <3>1, <3>2, <3>3
  <2> HIDE DEF t, a
  <2>5. WasOf(t) = a
    BY <2>2, <2>3, <2>4, SeqEqual
  <2> QED BY <2>5 DEF t, a
<1>4. WasOf(Trim(s)) \in SuffixesOf(WasOf(s))
  <2> DEFINE w == WasOf(s)
  <2>1. w \in Seq(Files) /\ Len(w) = Len(s) /\ \A i \in 1..Len(s) : w[i] = s[i].was
    BY <1>2
  <2> HIDE DEF w
  <2>2. CASE Len(s) > HistoryLimit
    <3> DEFINE d == Len(s) - HistoryLimit + 1
               t == SubSeq(s, d, Len(s))
               u == SubSeq(w, d, Len(w))
    <3>1. d \in 1..Len(s) /\ d \in 1..(Len(w) + 1)
      BY <1>2, <2>1, <2>2, ConstantsAssumption
    <3> HIDE DEF d
    <3>2. t \in Seq(Entries) /\ Len(t) = Len(s) - d + 1 /\ \A i \in 1..Len(t) : t[i] = s[d + i - 1]
      BY <1>2, <3>1
    <3>3. /\ u \in Seq(Files) /\ Len(u) = Len(s) - d + 1
          /\ \A i \in 1..Len(u) : u[i] = w[d + i - 1]
      BY <1>2, <2>1, <3>1
    <3>4. /\ WasOf(t) \in Seq(Files) /\ Len(WasOf(t)) = Len(t)
          /\ \A i \in 1..Len(t) : WasOf(t)[i] = t[i].was
      <4> HIDE DEF t
      <4> QED BY <1>1, <3>2 DEF WasOf
    <3>5. \A i \in 1..Len(t) : d + i - 1 \in 1..Len(s)
      BY <1>2, <3>1, <3>2
    <3>6. \A i \in 1..Len(t) : WasOf(t)[i] = u[i]
      <4> HIDE DEF t, u
      <4> QED BY <2>1, <3>2, <3>3, <3>4, <3>5
    <3>7. WasOf(t) = u
      <4> HIDE DEF t, u
      <4> QED BY <3>2, <3>3, <3>4, <3>6, SeqEqual
    <3>8. Trim(s) = t
      BY <2>2 DEF Trim, d
    <3> QED BY <3>1, <3>7, <3>8 DEF SuffixesOf, w
  <2>3. CASE ~(Len(s) > HistoryLimit)
    <3>1. SubSeq(w, 1, Len(w)) = w /\ 1 \in 1..(Len(w) + 1)
      BY <1>2, <2>1
    <3> QED BY <2>3, <3>1 DEF Trim, SuffixesOf, w
  <2> QED BY <2>2, <2>3
<1>5. WasOf(<<>>) = <<>>
  BY DEF WasOf
<1> QED BY <1>2, <1>3, <1>4, <1>5

-----------------------------------------------------------------------------
(* One line of versions                                                    *)

\* The tables that the server made and nobody else touched: no text of them is
\* lossy, no death between a restore and its journal.
HistoryIsALine ==
    /\ HistoryIsItsOwn
    /\ \A f \in InitialFiles : ~Lossy(f)
    /\ "outside" \notin Faults /\ "crashAfterRestore" \notin Faults

\* A content that survives the way through an entry's text: exact in UTF-8, with the
\* BOM that the table has.
Alike(c) == c \in Contents /\ ~Lossy(c) /\ c.bom = file.bom

AllAlike ==
    /\ Alike(file)
    /\ HasRead => Alike(op.raw) /\ Alike(op.new)
    /\ \A e \in UndoEntries : Alike(e.was)
    /\ \A e \in RedoEntries : Alike(e.was) /\ e.had_bom = file.bom

\* The operation in flight has lost sight neither of the version it replaces nor of
\* the one it puts in its place.
Underway ==
    /\ op.kind = "commit" =>
         /\ op.new # op.raw
         /\ Lagging => undo = Trim(Append(journal.undo, CommitEntry)) /\ redo = <<>>
         /\ pc = "write" => journal.redo = <<>>
    /\ op.kind = "undo" =>
         /\ pc = "restore" => op.raw = file /\ op.new = LastOf(undo).was
         /\ pc = "settle" => file = op.new /\ op.new = LastOf(undo).was
    /\ op.kind = "redo" =>
         /\ pc \in {"snapshot", "restore"} => op.raw = file /\ op.new = LastOf(redo).was
         /\ pc = "settle" => file = op.new /\ op.new = LastOf(redo).was

LineInv == Typed /\ HistoryExact /\ Mirror /\ StepRegistered /\ AllAlike /\ Underway

\* What the next undo and the next redo put back is the version they stand for.
LEMMA PutsBack ==
    ASSUME LineInv
    PROVE  /\ undo # <<>> /\ CanUndo(LastOf(undo)) => UndoBytes(LastOf(undo)) = LastOf(undo).was
           /\ undo # <<>> => LastOf(undo) \in UndoEntries
           /\ redo # <<>> => RedoBytes(LastOf(redo)) = LastOf(redo).was
           /\ redo # <<>> => LastOf(redo) \in RedoEntries
<1>1. /\ undo \in Seq(Entries) /\ redo \in Seq(Entries) /\ snaps \in [SnapIds -> Files]
      /\ StepsKept /\ HistoryExact /\ AllAlike
  BY DEF LineInv, Typed, TypeOK, Mirror
<1>2. undo # <<>> => LastOf(undo) \in UndoEntries /\ LastOf(undo) \in Entries
  BY <1>1, PopKeeps DEF UndoEntries
<1>3. redo # <<>> => LastOf(redo) \in RedoEntries /\ LastOf(redo) \in Entries
  BY <1>1, PopKeeps DEF RedoEntries
<1>4. ASSUME NEW e \in Entries, e \in UndoEntries, CanUndo(e)
      PROVE  UndoBytes(e) = e.was
  <2>1. UndoExact(e) /\ Reversible(e)
    BY <1>1, <1>4 DEF HistoryExact, StepsKept
  <2> QED BY <1>4, <2>1 DEF UndoExact, Reversible, CanUndo, HasSnapshot, UndoBytes
<1>5. ASSUME NEW e \in Entries, e \in RedoEntries
      PROVE  RedoBytes(e) = e.was
  <2>1. RedoExact(e) /\ Repeatable(e) /\ Alike(e.was) /\ e.had_bom = file.bom
    BY <1>1, <1>5 DEF HistoryExact, StepsKept, AllAlike
  <2>2. e.was = [body |-> e.was.body, bom |-> e.was.bom]
    BY <2>1 DEF Alike, Contents
  <2>3. e.text = e.was.body /\ e.had_bom = e.was.bom
    BY <2>1, ConstantsAssumption DEF Alike, Lossy, RedoExact, Text, Contents
  <2> QED BY <2>1, <2>2, <2>3 DEF RedoBytes, Encode, Repeatable
<1> QED BY <1>2, <1>3, <1>4, <1>5

\* At first the table's own content is the only one.
LEMMA LineInit == HistoryIsALine /\ Init => AllAlike /\ Underway
<1> SUFFICES ASSUME HistoryIsALine, Init
             PROVE  AllAlike /\ Underway
  OBVIOUS
<1>1. file \in Contents /\ ~Lossy(file)
  BY DEF HistoryIsALine, HistoryIsItsOwn, Init
<1>2. ~HasRead /\ op.kind = "none"
  BY DEF Init, NoOp, HasRead
<1>3. UndoEntries = {} /\ RedoEntries = {}
  BY NothingOnEmpty DEF Init, UndoEntries, RedoEntries
<1> QED BY <1>1, <1>2, <1>3 DEF AllAlike, Alike, Underway

\* Every content that a step brings is one that was there, or a table of the server's
\* with the BOM of the one it replaces.
LEMMA AlikeNext ==
    ASSUME HistoryIsALine, LineInv, TypeOK', Mirror', [Next]_vars
    PROVE  AllAlike'
<1>0. /\ Typed /\ TypeOK /\ Mirror /\ AllAlike /\ op \in Ops /\ InStep /\ NoDownload
      /\ undo \in Seq(Entries) /\ redo \in Seq(Entries)
  BY DEF LineInv, Typed, TypeOK, Mirror
<1>1. file' = file \/ (HasRead /\ file' = op.new)
  <2>1. WriteTable \/ Restore => HasRead /\ file' = op.new
    BY <1>0 DEF WriteTable, Restore, HasRead, InStep, StepsOf, Ops
  <2>2. Hydrate \/ Snapshot \/ UNCHANGED vars => file' = file
    BY DEF Hydrate, Snapshot, HydrateSkip, HydrateRead, HydrateInstall, WriteSnapshot,
           NoSnapshot, PruneHistory, vars, diskVars
  <2>3. Commit => WriteTable \/ file' = file
    BY DEF Commit, BeginCommit, Register, WriteJournal, WriteTableFails, diskVars
  <2>4. UndoRedo => Restore \/ file' = file
    BY DEF UndoRedo, BeginUndo, BeginRedo, PeekUndo, PeekRedo, PeekRefuses, RestoreLeavesFile,
           RestoreFails, SettleUndo, SettleRedo, JournalPersist, diskVars
  <2>5. Outside => file' = file
    BY <1>0
       DEF HistoryIsALine, HistoryIsItsOwn, NoDownload, Outside, OutsideWrite, SyncDownload,
           ForgetErase, ForgetUnlink, SiblingPrune, Crash, diskVars
  <2> QED BY <2>1, <2>2, <2>3, <2>4, <2>5 DEF Next
<1>2. Alike(file') /\ file'.bom = file.bom
  BY <1>0, <1>1 DEF AllAlike, Alike
<1>3. \A c : Alike(c) => Alike(c)'
  BY <1>2 DEF Alike
<1>4. \/ ~HasRead'
      \/ HasRead /\ op'.raw = op.raw /\ op'.new = op.new
      \/ op'.raw = file /\ Alike(op'.new)
  <2>1. ASSUME NEW text \in NewBodies, NEW keep \in SnapshotFlags, BeginCommit(text, keep)
        PROVE  op'.raw = file /\ Alike(op'.new)
    <3>1. op'.raw = file /\ op'.new = Encode(text, HasBom(file))
      BY <2>1 DEF BeginCommit, NoOp
    <3>2. text \in Bodies /\ Decode[text] = text /\ HasBom(file) = file.bom /\ file.bom \in BOOLEAN
      BY <1>0, ConstantsAssumption DEF AllAlike, Alike, HasBom, Contents
    <3> QED BY <3>1, <3>2 DEF Alike, Encode, Lossy, Contents
  <2>2. CASE PeekUndo
    BY <1>0, <2>2, PutsBack DEF PeekUndo, AllAlike, Ops
  <2>3. CASE PeekRedo
    BY <1>0, <2>3, PutsBack DEF PeekRedo, AllAlike, Ops
  <2>4. CASE BeginUndo \/ BeginRedo
    BY <2>4 DEF BeginUndo, BeginRedo, HasRead, NoOp
  <2>5. CASE \/ WriteTable \/ WriteTableFails \/ PeekRefuses \/ RestoreFails \/ JournalPersist
             \/ Crash
    BY <2>5 DEF WriteTable, WriteTableFails, PeekRefuses, RestoreFails, JournalPersist, Crash,
                Return, NoOp, HasRead
  <2>6. CASE \/ Hydrate \/ Snapshot \/ Register \/ WriteJournal \/ Restore \/ RestoreLeavesFile
             \/ SettleUndo \/ SettleRedo \/ UNCHANGED vars
    BY <1>0, <2>6
       DEF Hydrate, HydrateSkip, HydrateRead, HydrateInstall, Snapshot, WriteSnapshot, NoSnapshot,
           PruneHistory, Register, WriteJournal, Restore, RestoreLeavesFile, SettleUndo,
           SettleRedo, Goto, AfterHydrate, AfterSnapshot, HasRead, InStep, StepsOf, Ops, vars
  <2>7. ~ForgetErase /\ ~ForgetUnlink /\ ~SiblingPrune
        /\ \A f \in OutsideFiles : ~SyncDownload(f) /\ ~OutsideWrite(f)
    BY <1>0
       DEF HistoryIsALine, HistoryIsItsOwn, NoDownload, ForgetErase, ForgetUnlink, SiblingPrune,
           SyncDownload, OutsideWrite
  <2> QED BY <2>1, <2>2, <2>3, <2>4, <2>5, <2>6, <2>7 DEF Next, Commit, UndoRedo, Outside
<1>5. HasRead' => Alike(op.raw)' /\ Alike(op.new)'
  BY <1>0, <1>3, <1>4 DEF AllAlike, Alike
<1>6. ASSUME NEW e \in UndoEntries'
      PROVE  Alike(e.was)'
  <2>1. UndoOrigin(e)
    BY <1>0, <1>6, Origins
  <2>2. ASSUME e \in UndoEntries
        PROVE  Alike(e.was)
    BY <1>0, <2>2 DEF AllAlike
  <2>3. ASSUME NEW d \in UndoEntries, e = ReadBack(d)
        PROVE  Alike(e.was)
    <3>1. d \in Entries /\ Alike(d.was)
      BY <1>0, <2>3, ItemsTyped DEF AllAlike
    <3>2. e.was = d.was
      BY <2>3, <3>1 DEF ReadBack, Entries
    <3> QED BY <3>1, <3>2
  <2>4. ASSUME pc = "register" /\ e = CommitEntry
        PROVE  Alike(e.was)
    BY <1>0, <2>4 DEF AllAlike, HasRead, InStep, StepsOf, Ops, CommitEntry
  <2>5. ASSUME pc = "settle" /\ e = UndoEntryOfRedo
        PROVE  Alike(e.was)
    BY <1>0, <2>5 DEF AllAlike, HasRead, UndoEntryOfRedo
  <2>6. Alike(e.was)
    BY <2>1, <2>2, <2>3, <2>4, <2>5 DEF UndoOrigin
  <2> QED BY <1>3, <2>6 DEF Alike
<1>7. ASSUME NEW e \in RedoEntries'
      PROVE  Alike(e.was)' /\ e.had_bom = file'.bom
  <2>1. RedoOrigin(e)
    BY <1>0, <1>7, Origins
  <2>2. ASSUME e \in RedoEntries
        PROVE  Alike(e.was) /\ e.had_bom = file.bom
    BY <1>0, <2>2 DEF AllAlike
  <2>3. ASSUME NEW d \in RedoEntries, e = ReadBack(d)
        PROVE  Alike(e.was) /\ e.had_bom = file.bom
    <3>1. d \in Entries /\ Alike(d.was) /\ d.had_bom = file.bom
      BY <1>0, <2>3, ItemsTyped DEF AllAlike
    <3>2. e.was = d.was /\ e.had_bom = d.had_bom
      BY <2>3, <3>1 DEF ReadBack, Entries
    <3> QED BY <3>1, <3>2
  <2>4. ASSUME pc = "settle" /\ e = RedoEntry
        PROVE  Alike(e.was) /\ e.had_bom = file.bom
    <3>1. Alike(op.raw) /\ Alike(op.new) /\ e.was = op.raw /\ e.had_bom = HasBom(op.new)
      BY <1>0, <2>4 DEF AllAlike, HasRead, RedoEntry
    <3>2. HasBom(op.new) = file.bom
      BY <3>1, ConstantsAssumption DEF Alike, HasBom, Contents
    <3> QED BY <3>1, <3>2
  <2>5. Alike(e.was) /\ e.had_bom = file.bom
    BY <2>1, <2>2, <2>3, <2>4 DEF RedoOrigin
  <2> QED BY <1>2, <1>3, <2>5 DEF Alike
<1> QED BY <1>2, <1>5, <1>6, <1>7 DEF AllAlike, Alike

\* The operation in flight keeps both versions in sight until it has put the one in
\* the place of the other.
LEMMA UnderwayNext ==
    ASSUME HistoryIsALine, LineInv, TypeOK', Mirror', [Next]_vars
    PROVE  Underway'
<1>0. /\ Typed /\ TypeOK /\ Mirror /\ StepRegistered /\ Underway /\ op \in Ops /\ InStep
      /\ StackHasStep /\ JournalFollows /\ StepsKept /\ NoDownload
      /\ undo \in Seq(Entries) /\ redo \in Seq(Entries) /\ journal \in StackPairs
  BY DEF LineInv, Typed, TypeOK, Mirror
<1> USE DEF Underway, InStep, StepsOf, Lagging
<1>1. CASE op' = NoOp
  BY <1>1 DEF NoOp
<1>2. ASSUME NEW text \in NewBodies, NEW keep \in SnapshotFlags, BeginCommit(text, keep)
      PROVE  Underway'
  BY <1>2 DEF BeginCommit, NoOp
<1>3. CASE BeginUndo \/ BeginRedo
  BY <1>3 DEF BeginUndo, BeginRedo, NoOp
<1>4. CASE Hydrate
  BY <1>0, <1>4
     DEF Hydrate, HydrateSkip, HydrateRead, HydrateInstall, Goto, AfterHydrate, Ops, diskVars,
         stackVars
<1>5. CASE WriteSnapshot \/ NoSnapshot
  BY <1>0, <1>5 DEF WriteSnapshot, NoSnapshot, Goto, AfterSnapshot, Ops, diskVars, stackVars
<1>6. CASE PruneHistory
  BY <1>0, <1>6 DEF PruneHistory, Goto, CommitEntry, stackVars
<1>7. CASE Register
  <2>1. op.kind = "commit" /\ hydrated /\ journal = Stacks
    BY <1>0, <1>7 DEF Register, Ops, StackHasStep, JournalFollows
  <2>2. /\ op'.kind = "commit" /\ op'.raw = op.raw /\ op'.new = op.new
        /\ CommitEntry' = CommitEntry
    BY <1>0, <1>7, <2>1 DEF Register, Ops, CommitEntry
  <2> QED BY <1>0, <1>7, <2>1, <2>2 DEF Register, Stacks, diskVars
<1>8. CASE WriteJournal
  <2>1. op.kind = "commit" /\ op.pair = Stacks /\ redo = <<>>
    BY <1>0, <1>8 DEF WriteJournal, Ops, JournalFollows
  <2>2. journal'.redo = <<>>
    BY <1>8, <2>1 DEF WriteJournal, JournalOf, HistoryIsALine, HistoryIsItsOwn, Stacks
  <2> QED BY <1>0, <1>8, <2>1, <2>2 DEF WriteJournal, Goto
<1>9. CASE WriteTable \/ WriteTableFails \/ PeekRefuses \/ RestoreFails \/ JournalPersist \/ Crash
  BY <1>1, <1>9
     DEF WriteTable, WriteTableFails, PeekRefuses, RestoreFails, JournalPersist, Crash, Return
<1>10. CASE PeekUndo
  BY <1>0, <1>10, PutsBack DEF PeekUndo, Ops, diskVars, stackVars
<1>11. CASE PeekRedo
  BY <1>0, <1>11, PutsBack DEF PeekRedo, Ops, diskVars, stackVars
<1>12. CASE Restore
  BY <1>0, <1>12 DEF Restore, Goto, Ops, stackVars
<1>13. CASE SettleUndo \/ SettleRedo
  BY <1>0, <1>13 DEF SettleUndo, SettleRedo, Goto, Ops
<1>14. CASE UNCHANGED vars
  BY <1>0, <1>14 DEF vars, diskVars, stackVars, CommitEntry
<1>15. ~RestoreLeavesFile /\ ~ForgetErase /\ ~ForgetUnlink /\ ~SiblingPrune
       /\ \A f \in OutsideFiles : ~SyncDownload(f) /\ ~OutsideWrite(f)
  BY <1>0
     DEF HistoryIsALine, HistoryIsItsOwn, NoDownload, Mirror, FilesThere, HasRead,
         RestoreLeavesFile, ForgetErase, ForgetUnlink, SiblingPrune, SyncDownload, OutsideWrite
<1> QED
  BY <1>2, <1>3, <1>4, <1>5, <1>6, <1>7, <1>8, <1>9, <1>10, <1>11, <1>12, <1>13, <1>14, <1>15
     DEF Next, Commit, Snapshot, UndoRedo, Outside

\* The line of versions is kept by every step.
LEMMA LineInvNext ==
    ASSUME HistoryIsALine, LineInv, [Next]_vars
    PROVE  LineInv'
<1>1. Typed' /\ HistoryExact' /\ Mirror' /\ StepRegistered'
  BY TypedNext, ExactNext, MirrorNext, StepRegisteredNext DEF LineInv, HistoryIsALine
<1>2. TypeOK'
  BY <1>1 DEF Typed
<1> QED BY <1>1, <1>2, AlikeNext, UnderwayNext DEF LineInv

-----------------------------------------------------------------------------
(* The history, step by step                                               *)

\* The stacks have moved and the journal follows: only then do they lead.
Ahead == op.kind # "commit" /\ Lagging

\* The versions up to the cursor and those beyond it, as far as the steps hold them.
PastSteps   == WasOf(IF Ahead THEN undo ELSE journal.undo) \o InHand("redo")
FutureSteps == WasOf(IF Ahead THEN redo ELSE journal.redo) \o InHand("undo")

LinesOfSteps ==
    /\ PastLine = MergeEqual(Append(PastSteps, file))
    /\ FutureLine = MergeEqual(Append(FutureSteps, file))
    /\ PastSteps \in Seq(Files) /\ FutureSteps \in Seq(Files)
    /\ file \in Files

StepsInOrder ==
    /\ ~(pc = "settle" /\ op.kind = "redo") =>
          PastSteps = WasOf(IF Ahead THEN undo ELSE journal.undo)
    /\ ~(pc = "settle" /\ op.kind = "undo") =>
          FutureSteps = WasOf(IF Ahead THEN redo ELSE journal.redo)
    /\ pc = "settle" /\ op.kind = "redo" => PastSteps = Append(WasOf(journal.undo), op.raw)
    /\ pc = "settle" /\ op.kind = "undo" => FutureSteps = Append(WasOf(journal.redo), op.raw)

\* The journal is the history except where undo and redo are about to write it.
LEMMA LinesRead == LineInv => LinesOfSteps
<1> SUFFICES ASSUME LineInv PROVE LinesOfSteps
  OBVIOUS
<1>1. /\ Typed /\ TypeOK /\ InStep /\ StackHasStep /\ JournalFollows /\ op \in Ops
      /\ undo \in Seq(Entries) /\ redo \in Seq(Entries)
      /\ journal.undo \in Seq(Entries) /\ journal.redo \in Seq(Entries)
      /\ file \in Files /\ op.raw \in Files
  BY DEF LineInv, Typed, TypeOK, Mirror, StackPairs, Ops
<1>2. UndoLine = IF Ahead THEN undo ELSE journal.undo
  BY <1>1 DEF UndoLine, StacksLead, Ahead, Lagging, StackHasStep, JournalFollows, Stacks
<1>3. RedoLine = IF Ahead THEN redo ELSE journal.redo
  BY <1>1 DEF RedoLine, StacksLead, Ahead, Lagging, StackHasStep, JournalFollows, Stacks
<1>4. \A kind : InHand(kind) \in Seq(Files)
  BY <1>1 DEF InHand
<1>5. /\ WasOf(IF Ahead THEN undo ELSE journal.undo) \in Seq(Files)
      /\ WasOf(IF Ahead THEN redo ELSE journal.redo) \in Seq(Files)
  BY <1>1, WasOfStack
<1>6. PastSteps \in Seq(Files) /\ FutureSteps \in Seq(Files)
  BY <1>4, <1>5, ConcatProperties DEF PastSteps, FutureSteps
<1> QED BY <1>1, <1>2, <1>3, <1>6
        DEF LinesOfSteps, PastLine, FutureLine, PastSteps, FutureSteps

\* With nothing in hand the steps are the stack's or the journal's own.
LEMMA NothingInHand == LineInv => StepsInOrder
<1> SUFFICES ASSUME LineInv PROVE StepsInOrder
  OBVIOUS
<1>1. /\ undo \in Seq(Entries) /\ redo \in Seq(Entries) /\ op.raw \in Files
      /\ journal.undo \in Seq(Entries) /\ journal.redo \in Seq(Entries)
  BY DEF LineInv, Typed, TypeOK, StackPairs, Ops
<1>2. /\ WasOf(undo) \in Seq(Files) /\ WasOf(journal.undo) \in Seq(Files)
      /\ WasOf(redo) \in Seq(Files) /\ WasOf(journal.redo) \in Seq(Files)
  BY <1>1, WasOfStack
<1>3. \A s \in Seq(Files) : s \o <<>> = s /\ \A x \in Files : s \o <<x>> = Append(s, x)
  OBVIOUS
<1>4. pc = "settle" => ~Ahead
  BY DEF Ahead, Lagging
<1> QED BY <1>1, <1>2, <1>3, <1>4 DEF StepsInOrder, PastSteps, FutureSteps, InHand

\* Where neither the table nor the steps move, neither does the history.
LEMMA HistoryRests ==
    ASSUME LineInv, LineInv', PastSteps' = PastSteps, FutureSteps' = FutureSteps, file' = file
    PROVE  UNCHANGED <<TablePast, file, TableFuture>>
<1>1. LinesOfSteps /\ LinesOfSteps'
  BY LinesRead, PTL
<1> QED BY <1>1 DEF LinesOfSteps, TablePast, TableFuture

\* Where steps are dropped at the far ends, so are versions, and nothing else.
LEMMA HistoryShrinks ==
    ASSUME LineInv, LineInv', file' = file,
           PastLine' \in SuffixesOf(PastLine), FutureLine' \in SuffixesOf(FutureLine)
    PROVE  History!Shrink
<1>0. LinesOfSteps /\ LinesOfSteps'
  BY LinesRead, PTL
<1>1. /\ PastLine \in Seq(Files) /\ PastLine # <<>>
      /\ FutureLine \in Seq(Files) /\ FutureLine # <<>>
  BY <1>0, LineGrows DEF LinesOfSteps
<1>2. PastLine' # <<>> /\ FutureLine' # <<>>
  BY <1>0, LineGrows DEF LinesOfSteps
<1>3. AllButLast(PastLine') \in SuffixesOf(AllButLast(PastLine))
  BY <1>1, <1>2, SuffixButLast
<1>4. AllButLast(FutureLine') \in SuffixesOf(AllButLast(FutureLine))
  BY <1>1, <1>2, SuffixButLast
<1>5. Backwards(AllButLast(FutureLine')) \in PrefixesOf(Backwards(AllButLast(FutureLine)))
  BY <1>1, <1>4, SplitLast, SeenBackwards
<1>6. TablePast' \in SuffixesOf(TablePast) /\ TableFuture' \in PrefixesOf(TableFuture)
  BY <1>3, <1>5 DEF TablePast, TableFuture
<1> QED BY <1>6 DEF History!Shrink, History!Suffixes, History!Prefixes, SuffixesOf, PrefixesOf

\* Of the steps that leave the table alone only the journal write of a save and the
\* settling of an undo or a redo move the steps.
LEMMA QuietSteps ==
    ASSUME HistoryIsALine, LineInv, LineInv', [Next]_vars,
           ~WriteJournal, ~WriteTable, ~Restore, ~SettleUndo, ~SettleRedo
    PROVE  UNCHANGED <<TablePast, file, TableFuture>>
<1>0. /\ InStep /\ StackHasStep /\ JournalFollows /\ StepsKept /\ op \in Ops /\ NoDownload
      /\ undo \in Seq(Entries) /\ redo \in Seq(Entries) /\ journal \in StackPairs
  BY DEF LineInv, Typed, TypeOK, Mirror
<1>1. StepsInOrder /\ StepsInOrder'
  BY NothingInHand, PTL
<1>2. ASSUME file' = file, journal' = journal, ~Ahead, ~Ahead', pc # "settle", pc' # "settle"
      PROVE  UNCHANGED <<TablePast, file, TableFuture>>
  BY <1>1, <1>2, HistoryRests DEF StepsInOrder
<1>3. ASSUME file' = file, Ahead, pc' # "settle", pc # "settle",
             \/ Ahead' /\ undo' = undo /\ redo' = redo
             \/ ~Ahead' /\ journal' = [undo |-> undo, redo |-> redo]
      PROVE  UNCHANGED <<TablePast, file, TableFuture>>
  BY <1>1, <1>3, HistoryRests DEF StepsInOrder
<1> USE DEF Ahead, Lagging, InStep, StepsOf
<1>4. ASSUME NEW text \in NewBodies, NEW keep \in SnapshotFlags, BeginCommit(text, keep)
      PROVE  UNCHANGED <<TablePast, file, TableFuture>>
  BY <1>2, <1>4 DEF BeginCommit, NoOp, diskVars
<1>5. CASE BeginUndo \/ BeginRedo
  BY <1>2, <1>5 DEF BeginUndo, BeginRedo, NoOp, diskVars
<1>6. CASE Hydrate
  BY <1>0, <1>2, <1>6
     DEF Hydrate, HydrateSkip, HydrateRead, HydrateInstall, Goto, AfterHydrate, Ops, diskVars
<1>7. CASE WriteSnapshot \/ NoSnapshot
  BY <1>0, <1>2, <1>7 DEF WriteSnapshot, NoSnapshot, Goto, AfterSnapshot, Ops, diskVars
<1>8. CASE PruneHistory
  <2>1. CASE op.kind = "commit"
    BY <1>2, <1>8, <2>1 DEF PruneHistory, Goto
  <2>2. CASE op.kind # "commit"
    BY <1>3, <1>8, <2>2 DEF PruneHistory, Goto, stackVars
  <2> QED BY <2>1, <2>2
<1>9. CASE Register
  BY <1>0, <1>2, <1>9 DEF Register, Ops, diskVars
<1>10. CASE WriteTableFails \/ PeekRefuses \/ RestoreFails
  BY <1>0, <1>2, <1>10 DEF WriteTableFails, PeekRefuses, RestoreFails, Return, NoOp, diskVars
<1>11. CASE PeekUndo \/ PeekRedo
  BY <1>0, <1>2, <1>11 DEF PeekUndo, PeekRedo, Ops, diskVars
<1>12. CASE JournalPersist
  <2>1. Journaled(undo) = undo
    BY <1>0, JournalWhole DEF StepsKept, UndoEntries
  <2>2. op.kind # "commit" /\ registered
    BY <1>0, <1>12 DEF JournalPersist, Ops, StackHasStep
  <2>3. journal' = [undo |-> undo, redo |-> redo]
    BY <1>12, <2>1, <2>2 DEF JournalPersist, JournalOf, HistoryIsALine, HistoryIsItsOwn
  <2> QED BY <1>3, <1>12, <2>2, <2>3 DEF JournalPersist, Return, NoOp
<1>13. CASE Crash
  <2>1. ~Restored
    BY <1>13 DEF Crash, HistoryIsALine
  <2>2. pc # "settle" /\ ~Ahead
    BY <1>0, <2>1 DEF Restored, Ops
  <2> QED BY <1>2, <1>13, <2>2 DEF Crash, Return, NoOp, diskVars
<1>14. CASE UNCHANGED vars
  <2>1. /\ op' = op /\ pc' = pc /\ undo' = undo /\ redo' = redo /\ journal' = journal
        /\ file' = file
    BY <1>14 DEF vars, diskVars, stackVars
  <2>2. PastSteps' = PastSteps /\ FutureSteps' = FutureSteps
    BY <2>1 DEF PastSteps, FutureSteps, InHand
  <2> QED BY <2>1, <2>2, HistoryRests
<1>15. ~RestoreLeavesFile /\ ~ForgetErase /\ ~ForgetUnlink /\ ~SiblingPrune
       /\ \A f \in OutsideFiles : ~SyncDownload(f) /\ ~OutsideWrite(f)
  BY <1>0
     DEF LineInv, HistoryIsALine, HistoryIsItsOwn, NoDownload, Mirror, FilesThere, HasRead,
         RestoreLeavesFile, ForgetErase, ForgetUnlink, SiblingPrune, SyncDownload, OutsideWrite
<1> QED
  BY <1>4, <1>5, <1>6, <1>7, <1>8, <1>9, <1>10, <1>11, <1>12, <1>13, <1>14, <1>15
     DEF Next, Commit, Snapshot, UndoRedo, Outside

\* All of a sequence and its last element alone are suffixes of it.
LEMMA SuffixEnds ==
    ASSUME NEW V, NEW v \in Seq(V)
    PROVE  /\ v \in SuffixesOf(v)
           /\ v # <<>> => <<LastOf(v)>> \in SuffixesOf(v)
<1>1. Len(v) \in Nat
  OBVIOUS
<1>2. SubSeq(v, 1, Len(v)) = v /\ 1 \in 1..(Len(v) + 1)
  BY <1>1, SubSeqFull
<1>3. ASSUME v # <<>>
      PROVE  SubSeq(v, Len(v), Len(v)) = <<LastOf(v)>> /\ Len(v) \in 1..(Len(v) + 1)
  <2>1. Len(v) # 0
    BY <1>3, EmptySeq
  <2> QED BY <1>1, <1>3, <2>1, LastAlone DEF LastOf
<1> QED BY <1>2, <1>3 DEF SuffixesOf

\* The journal write of a save announces the version that it is about to replace, which
\* is the current one, drops the oldest and cuts off what lay beyond.
LEMMA JournalWriteShrinks ==
    ASSUME HistoryIsALine, LineInv, LineInv', WriteJournal
    PROVE  History!Shrink
<1>0. /\ InStep /\ StackHasStep /\ JournalFollows /\ StepsKept /\ op \in Ops /\ Underway
      /\ undo \in Seq(Entries) /\ journal.undo \in Seq(Entries)
      /\ CommitEntry \in Entries /\ StepRegistered
  BY PushedTyped DEF LineInv, Typed, TypeOK, Mirror, StackPairs
<1>1. /\ StepsInOrder /\ StepsInOrder' /\ LinesOfSteps /\ LinesOfSteps'
  BY NothingInHand, LinesRead, PTL
<1>2. /\ op.kind = "commit" /\ pc = "journal" /\ op.pair = Stacks
      /\ undo = Trim(Append(journal.undo, CommitEntry)) /\ redo = <<>>
  BY <1>0 DEF WriteJournal, InStep, StepsOf, Ops, JournalFollows, Lagging, Underway
<1>3. CommitEntry.was = file
  BY <1>0, <1>2 DEF StepRegistered, CommitEntry
<1>4. Journaled(undo) = undo
  BY <1>0, JournalWhole DEF StepsKept, UndoEntries
<1>5. journal'.undo = undo /\ journal'.redo = <<>> /\ op' = op /\ pc' = "write" /\ file' = file
  BY <1>2, <1>4 DEF WriteJournal, JournalOf, HistoryIsALine, HistoryIsItsOwn, Stacks, Goto
<1>6. /\ PastSteps = WasOf(journal.undo) /\ PastSteps' = WasOf(undo) /\ FutureSteps' = <<>>
  <2>1. ~Ahead /\ ~Ahead'
    BY <1>2, <1>5 DEF Ahead
  <2>2. WasOf(<<>>) = <<>>
    BY <1>0, WasOfStack
  <2> QED BY <1>1, <1>2, <1>5, <2>1, <2>2 DEF StepsInOrder
<1>7. /\ PastSteps \in Seq(Files) /\ file \in Files
      /\ PastLine = MergeEqual(Append(PastSteps, file))
      /\ PastLine' = MergeEqual(Append(PastSteps', file))
      /\ FutureLine' = MergeEqual(Append(<<>>, file))
  BY <1>1, <1>5, <1>6 DEF LinesOfSteps
<1>8. PastLine' \in SuffixesOf(PastLine)
  <2> DEFINE j == journal.undo
             t == Append(j, CommitEntry)
  <2>1. t \in Seq(Entries) /\ undo = Trim(t)
    BY <1>0, <1>2, AppendProperties
  <2>2. WasOf(t) = Append(PastSteps, file)
    BY <1>0, <1>3, <1>6, WasOfStack
  <2>3. PastSteps' \in SuffixesOf(Append(PastSteps, file))
    <3> HIDE DEF t
    <3> QED BY <1>6, <2>1, <2>2, WasOfStack
  <2>4. Append(PastSteps, file) \in Seq(Files)
    BY <1>7, AppendProperties
  <2>5. MergeEqual(Append(PastSteps', file)) \in
            SuffixesOf(MergeEqual(Append(Append(PastSteps, file), file)))
    BY <1>7, <2>3, <2>4, LineTrimmed
  <2>6. MergeEqual(Append(Append(PastSteps, file), file)) = MergeEqual(Append(PastSteps, file))
    BY <1>7, OneVersionMore
  <2> QED BY <1>7, <2>5, <2>6
<1>9. FutureLine' \in SuffixesOf(FutureLine)
  <2>1. Append(<<>>, file) = <<file>>
    OBVIOUS
  <2>2. FutureLine' = <<file>>
    BY <1>7, <2>1, MergeOne
  <2>3. FutureLine \in Seq(Files) /\ FutureLine # <<>> /\ LastOf(FutureLine) = file
    BY <1>1, LineGrows DEF LinesOfSteps
  <2> QED BY <2>2, <2>3, SuffixEnds
<1> QED BY <1>5, <1>8, <1>9, HistoryShrinks

\* The table write of a save adds the new version after the one it replaces.
LEMMA TableWriteSaves ==
    ASSUME HistoryIsALine, LineInv, LineInv', WriteTable
    PROVE  History!Save(op.new) /\ op.new \in Files
<1>0. /\ InStep /\ op \in Ops /\ Underway /\ StepRegistered
      /\ journal.undo \in Seq(Entries) /\ op.new \in Files
  BY DEF LineInv, Typed, TypeOK, Mirror, StackPairs, Ops
<1>1. /\ StepsInOrder /\ StepsInOrder' /\ LinesOfSteps /\ LinesOfSteps'
  BY NothingInHand, LinesRead, PTL
<1>2. /\ op.kind = "commit" /\ pc = "write" /\ op.raw = file /\ op.new # file
      /\ journal.undo # <<>> /\ LastOf(journal.undo).was = file /\ journal.redo = <<>>
      /\ file' = op.new /\ journal' = journal /\ op' = NoOp /\ pc' = "idle"
  BY <1>0
     DEF WriteTable, InStep, StepsOf, Ops, Underway, StepRegistered, CommitEntry, Return
<1>3. ~Ahead /\ ~Ahead' /\ pc # "settle" /\ pc' # "settle"
  BY <1>2 DEF Ahead, Lagging, NoOp
<1>4. WasOf(<<>>) = <<>>
  BY <1>0, WasOfStack
<1>5. /\ PastSteps = WasOf(journal.undo) /\ PastSteps' = PastSteps
      /\ FutureSteps = <<>> /\ FutureSteps' = <<>>
  BY <1>1, <1>2, <1>3, <1>4 DEF StepsInOrder
<1>6. PICK w \in Seq(Files) : PastSteps = Append(w, file)
  <2>1. /\ AllButLast(journal.undo) \in Seq(Entries) /\ LastOf(journal.undo) \in Entries
        /\ journal.undo = Append(AllButLast(journal.undo), LastOf(journal.undo))
    BY <1>0, <1>2, SplitLast
  <2>2. /\ WasOf(AllButLast(journal.undo)) \in Seq(Files)
        /\ WasOf(journal.undo) = Append(WasOf(AllButLast(journal.undo)), file)
    BY <1>2, <2>1, WasOfStack
  <2> QED BY <1>5, <2>2
<1>7. file \in Files /\ PastLine = MergeEqual(Append(PastSteps, file))
      /\ PastLine' = MergeEqual(Append(PastSteps, op.new))
  BY <1>1, <1>2, <1>5 DEF LinesOfSteps
<1>8. PastLine = MergeEqual(Append(w, file)) /\ PastLine' = Append(PastLine, op.new)
  <2>1. MergeEqual(Append(Append(w, file), file)) = MergeEqual(Append(w, file))
    BY <1>7, OneVersionMore
  <2>2. MergeEqual(Append(Append(w, file), op.new)) = Append(MergeEqual(Append(w, file)), op.new)
    BY <1>0, <1>2, <1>7, OneVersionMore
  <2> QED BY <1>6, <1>7, <2>1, <2>2
<1>9. PastLine \in Seq(Files) /\ PastLine # <<>> /\ LastOf(PastLine) = file
  BY <1>6, <1>7, <1>8, LineGrows
<1>10. TablePast' = PastLine /\ PastLine = Append(TablePast, file)
  BY <1>0, <1>8, <1>9, SplitLast DEF TablePast
<1>11. TableFuture' = <<>>
  <2>1. Append(<<>>, op.new) = <<op.new>>
    OBVIOUS
  <2>2. FutureLine' = <<op.new>>
    BY <1>1, <1>2, <1>5, <2>1, MergeOne DEF LinesOfSteps
  <2>3. AllButLast(<<op.new>>) = <<>>
    BY <1>9, SplitLast
  <2> QED BY <1>9, <2>2, <2>3, SeenBackwards DEF TableFuture
<1> QED BY <1>0, <1>2, <1>10, <1>11 DEF History!Save

\* A stack in step with the journal, taken apart at the step that undo() or redo()
\* peeked at.
LEMMA StepTakenOff ==
    ASSUME NEW s \in Seq(Entries), s # <<>>
    PROVE  /\ AllButLast(s) \in Seq(Entries) /\ WasOf(AllButLast(s)) \in Seq(Files)
           /\ LastOf(s).was \in Files
           /\ WasOf(s) = Append(WasOf(AllButLast(s)), LastOf(s).was)
<1>1. /\ AllButLast(s) \in Seq(Entries) /\ LastOf(s) \in Entries
      /\ s = Append(AllButLast(s), LastOf(s))
  BY SplitLast
<1>2. LastOf(s).was \in Files
  BY <1>1 DEF Entries
<1> QED BY <1>1, <1>2, WasOfStack

\* While undo() and redo() replace the table, the journal is in step with the stacks.
LEMMA InStepWithJournal ==
    ASSUME LineInv, pc \in {"restore", "settle"}
    PROVE  /\ op.kind \in {"undo", "redo"} /\ ~Ahead
           /\ journal.undo = undo /\ journal.redo = redo
           /\ undo \in Seq(Entries) /\ redo \in Seq(Entries)
           /\ op.kind = "undo" => undo # <<>>
           /\ op.kind = "redo" => redo # <<>>
           /\ op.raw \in Files /\ op.new \in Files
<1>1. /\ InStep /\ op \in Ops /\ StackHasStep /\ JournalFollows
      /\ undo \in Seq(Entries) /\ redo \in Seq(Entries)
  BY DEF LineInv, Typed, TypeOK, Mirror
<1>2. op.kind \in {"undo", "redo"} /\ ~Lagging
  BY <1>1 DEF InStep, StepsOf, Ops, Lagging
<1>3. /\ op.kind = "undo" => undo # <<>>
      /\ op.kind = "redo" => redo # <<>>
  BY <1>1 DEF StackHasStep
<1>4. journal = Stacks
  BY <1>1, <1>2, <1>3 DEF StackHasStep, JournalFollows
<1> QED BY <1>1, <1>2, <1>3, <1>4 DEF Ahead, Stacks, Ops

\* A line of versions that ends at x.
Ends(v, x) == v \in Seq(Files) /\ v # <<>> /\ LastOf(v) = x

\* What a restore does to the two lines: the version put back leaves the line that it
\* ended, the one it replaces comes to the end of the other.
LEMMA LinesCross ==
    ASSUME NEW w \in Seq(Files), NEW s \in Seq(Files), NEW x \in Files, NEW y \in Files
    PROVE  /\ Ends(MergeEqual(Append(w, y)), y) /\ Ends(MergeEqual(Append(s, x)), x)
           /\ MergeEqual(Append(Append(w, y), y)) = MergeEqual(Append(w, y))
           /\ x = y => /\ MergeEqual(Append(Append(w, y), x)) = MergeEqual(Append(w, y))
                      /\ MergeEqual(Append(Append(s, x), y)) = MergeEqual(Append(s, x))
           /\ x # y => /\ MergeEqual(Append(Append(w, y), x)) = Append(MergeEqual(Append(w, y)), x)
                      /\ MergeEqual(Append(Append(s, x), y)) = Append(MergeEqual(Append(s, x)), y)
<1>1. Ends(MergeEqual(Append(w, y)), y) /\ Ends(MergeEqual(Append(s, x)), x)
  BY LineGrows DEF Ends
<1>2. MergeEqual(Append(Append(w, y), y)) = MergeEqual(Append(w, y))
  BY OneVersionMore
<1>3. ASSUME x = y
      PROVE  /\ MergeEqual(Append(Append(w, y), x)) = MergeEqual(Append(w, y))
             /\ MergeEqual(Append(Append(s, x), y)) = MergeEqual(Append(s, x))
  BY <1>3, OneVersionMore
<1>4. ASSUME x # y
      PROVE  /\ MergeEqual(Append(Append(w, y), x)) = Append(MergeEqual(Append(w, y)), x)
             /\ MergeEqual(Append(Append(s, x), y)) = Append(MergeEqual(Append(s, x)), y)
  BY <1>4, OneVersionMore
<1> QED BY <1>1, <1>2, <1>3, <1>4

\* undo() moves the cursor to the version before it, and the one it leaves is the next
\* beyond.
LEMMA RestoreUndoes ==
    ASSUME LineInv, LineInv', Restore, op.kind = "undo"
    PROVE  History!Undo \/ UNCHANGED <<TablePast, file, TableFuture>>
<1>1. /\ StepsInOrder /\ StepsInOrder' /\ LinesOfSteps /\ LinesOfSteps'
  BY NothingInHand, LinesRead, PTL
<1>2. /\ pc = "restore" /\ pc' = "settle" /\ op' = op /\ file' = op.new
      /\ journal' = journal /\ undo' = undo /\ redo' = redo
  BY DEF Restore, Goto, stackVars
<1>3. /\ ~Ahead /\ journal.undo = undo /\ journal.redo = redo /\ undo # <<>>
      /\ undo \in Seq(Entries) /\ redo \in Seq(Entries)
      /\ op.raw \in Files /\ op.new \in Files
  BY <1>2, InStepWithJournal
<1>4. op.raw = file /\ op.new = LastOf(undo).was
  BY <1>2 DEF LineInv, Underway
<1>5. ~Ahead'
  BY <1>2 DEF Ahead, Lagging
<1> DEFINE w == WasOf(AllButLast(undo))
           s == WasOf(redo)
           P == MergeEqual(Append(w, op.new))
           Q == MergeEqual(Append(s, file))
<1>6. w \in Seq(Files) /\ s \in Seq(Files) /\ WasOf(undo) = Append(w, op.new) /\ file \in Files
  BY <1>1, <1>3, <1>4, StepTakenOff, WasOfStack DEF LinesOfSteps
<1>7. /\ PastSteps = Append(w, op.new) /\ PastSteps' = Append(w, op.new)
      /\ FutureSteps = s /\ FutureSteps' = Append(s, file)
  <2> HIDE DEF w
  <2> QED BY <1>1, <1>2, <1>3, <1>4, <1>5, <1>6 DEF StepsInOrder
<1> HIDE DEF w, s
<1>8. /\ PastLine = MergeEqual(Append(Append(w, op.new), file))
      /\ PastLine' = MergeEqual(Append(Append(w, op.new), op.new))
      /\ FutureLine = Q /\ FutureLine' = MergeEqual(Append(Append(s, file), op.new))
  BY <1>1, <1>2, <1>7 DEF LinesOfSteps
<1>9. /\ P \in Seq(Files) /\ P # <<>> /\ LastOf(P) = op.new
      /\ Q \in Seq(Files) /\ Q # <<>> /\ LastOf(Q) = file
      /\ PastLine = IF file = op.new THEN P ELSE Append(P, file)
      /\ PastLine' = P
      /\ FutureLine = Q
      /\ FutureLine' = IF file = op.new THEN Q ELSE Append(Q, op.new)
  <2>1. /\ Ends(P, op.new) /\ Ends(Q, file)
        /\ MergeEqual(Append(Append(w, op.new), op.new)) = P
        /\ file = op.new => /\ MergeEqual(Append(Append(w, op.new), file)) = P
                            /\ MergeEqual(Append(Append(s, file), op.new)) = Q
        /\ file # op.new => /\ MergeEqual(Append(Append(w, op.new), file)) = Append(P, file)
                            /\ MergeEqual(Append(Append(s, file), op.new)) = Append(Q, op.new)
    BY <1>3, <1>6, LinesCross
  <2> HIDE DEF P, Q
  <2> QED BY <1>8, <2>1 DEF Ends
<1> HIDE DEF P, Q
<1>10. CASE file = op.new
  BY <1>2, <1>9, <1>10 DEF TablePast, TableFuture
<1>11. CASE file # op.new
  <2>1. TablePast = P /\ TablePast' = AllButLast(P)
    BY <1>6, <1>9, <1>11, SplitLast DEF TablePast
  <2>2. TableFuture = Backwards(AllButLast(Q)) /\ TableFuture' = Backwards(Q)
    BY <1>3, <1>9, <1>11, SplitLast DEF TableFuture
  <2>3. Q = Append(AllButLast(Q), file) /\ AllButLast(Q) \in Seq(Files)
    BY <1>9, SplitLast
  <2>4. Backwards(Q) = <<file>> \o TableFuture /\ Backwards(Q) \in Seq(Files)
    BY <1>6, <1>9, <2>2, <2>3, SeenBackwards
  <2>5. TableFuture' \in PrefixesOf(<<file>> \o TableFuture)
    <3>1. \A v \in Seq(Files) : SubSeq(v, 1, Len(v)) = v /\ Len(v) \in 0..Len(v)
      OBVIOUS
    <3>2. Backwards(Q) \in PrefixesOf(Backwards(Q))
      BY <2>4, <3>1 DEF PrefixesOf
    <3> QED BY <2>2, <2>4, <3>2
  <2>6. TablePast[Len(TablePast)] = op.new /\ TablePast # <<>>
        /\ TablePast' = SubSeq(TablePast, 1, Len(TablePast) - 1)
    BY <1>9, <2>1 DEF LastOf, AllButLast
  <2> QED BY <1>2, <2>5, <2>6 DEF History!Undo, History!Prefixes, PrefixesOf
<1> QED BY <1>10, <1>11

\* redo() moves the cursor to the nearest version beyond it, and the one it leaves is
\* the last before.
LEMMA RestoreRedoes ==
    ASSUME LineInv, LineInv', Restore, op.kind = "redo"
    PROVE  History!Redo \/ UNCHANGED <<TablePast, file, TableFuture>>
<1>1. /\ StepsInOrder /\ StepsInOrder' /\ LinesOfSteps /\ LinesOfSteps'
  BY NothingInHand, LinesRead, PTL
<1>2. /\ pc = "restore" /\ pc' = "settle" /\ op' = op /\ file' = op.new
      /\ journal' = journal /\ undo' = undo /\ redo' = redo
  BY DEF Restore, Goto, stackVars
<1>3. /\ ~Ahead /\ journal.undo = undo /\ journal.redo = redo /\ redo # <<>>
      /\ undo \in Seq(Entries) /\ redo \in Seq(Entries)
      /\ op.raw \in Files /\ op.new \in Files
  BY <1>2, InStepWithJournal
<1>4. op.raw = file /\ op.new = LastOf(redo).was
  BY <1>2 DEF LineInv, Underway
<1>5. ~Ahead'
  BY <1>2 DEF Ahead, Lagging
<1> DEFINE w == WasOf(AllButLast(redo))
           s == WasOf(undo)
           P == MergeEqual(Append(w, op.new))
           Q == MergeEqual(Append(s, file))
<1>6. w \in Seq(Files) /\ s \in Seq(Files) /\ WasOf(redo) = Append(w, op.new) /\ file \in Files
  BY <1>1, <1>3, <1>4, StepTakenOff, WasOfStack DEF LinesOfSteps
<1>7. /\ FutureSteps = Append(w, op.new) /\ FutureSteps' = Append(w, op.new)
      /\ PastSteps = s /\ PastSteps' = Append(s, file)
  <2> HIDE DEF w
  <2> QED BY <1>1, <1>2, <1>3, <1>4, <1>5, <1>6 DEF StepsInOrder
<1> HIDE DEF w, s
<1>8. /\ FutureLine = MergeEqual(Append(Append(w, op.new), file))
      /\ FutureLine' = MergeEqual(Append(Append(w, op.new), op.new))
      /\ PastLine = Q /\ PastLine' = MergeEqual(Append(Append(s, file), op.new))
  BY <1>1, <1>2, <1>7 DEF LinesOfSteps
<1>9. /\ P \in Seq(Files) /\ P # <<>> /\ LastOf(P) = op.new
      /\ Q \in Seq(Files) /\ Q # <<>> /\ LastOf(Q) = file
      /\ FutureLine = IF file = op.new THEN P ELSE Append(P, file)
      /\ FutureLine' = P
      /\ PastLine = Q
      /\ PastLine' = IF file = op.new THEN Q ELSE Append(Q, op.new)
  <2>1. /\ Ends(P, op.new) /\ Ends(Q, file)
        /\ MergeEqual(Append(Append(w, op.new), op.new)) = P
        /\ file = op.new => /\ MergeEqual(Append(Append(w, op.new), file)) = P
                            /\ MergeEqual(Append(Append(s, file), op.new)) = Q
        /\ file # op.new => /\ MergeEqual(Append(Append(w, op.new), file)) = Append(P, file)
                            /\ MergeEqual(Append(Append(s, file), op.new)) = Append(Q, op.new)
    BY <1>3, <1>6, LinesCross
  <2> HIDE DEF P, Q
  <2> QED BY <1>8, <2>1 DEF Ends
<1> HIDE DEF P, Q
<1>10. CASE file = op.new
  BY <1>2, <1>9, <1>10 DEF TablePast, TableFuture
<1>11. CASE file # op.new
  <2>1. TableFuture = Backwards(P) /\ TableFuture' = Backwards(AllButLast(P))
    BY <1>6, <1>9, <1>11, SplitLast DEF TableFuture
  <2>2. TablePast = AllButLast(Q) /\ TablePast' = Q
    BY <1>3, <1>9, <1>11, SplitLast DEF TablePast
  <2>3. Q = Append(TablePast, file)
    BY <1>9, <2>2, SplitLast
  <2>4. TablePast' \in SuffixesOf(Append(TablePast, file))
    BY <1>9, <2>2, <2>3, SuffixEnds
  <2>5. P = Append(AllButLast(P), op.new) /\ AllButLast(P) \in Seq(Files)
    BY <1>9, SplitLast
  <2>6. TableFuture = <<op.new>> \o TableFuture' /\ TableFuture' \in Seq(Files)
    BY <1>3, <2>1, <2>5, SeenBackwards
  <2>7. /\ TableFuture # <<>> /\ TableFuture[1] = op.new
        /\ TableFuture' = SubSeq(TableFuture, 2, Len(TableFuture))
    <3>1. \A v \in Seq(Files), x \in Files :
             /\ <<x>> \o v # <<>> /\ (<<x>> \o v)[1] = x
             /\ Tail(<<x>> \o v) = v
             /\ Tail(<<x>> \o v) = SubSeq(<<x>> \o v, 2, Len(<<x>> \o v))
      OBVIOUS
    <3> QED BY <1>3, <2>6, <3>1
  <2> QED BY <1>2, <2>4, <2>7 DEF History!Redo, History!Suffixes, SuffixesOf
<1> QED BY <1>10, <1>11

\* A trimmed stack's line, with one step more, is the end of the untrimmed one.
LEMMA PushTrims ==
    ASSUME NEW s \in Seq(Entries), NEW e \in Entries, NEW x \in Files
    PROVE  MergeEqual(Append(WasOf(Trim(Append(s, e))), x)) \in
               SuffixesOf(MergeEqual(Append(Append(WasOf(s), e.was), x)))
<1> DEFINE t == Append(s, e)
<1>1. t \in Seq(Entries)
  BY AppendProperties
<1>2. WasOf(t) = Append(WasOf(s), e.was)
  BY WasOfStack
<1> HIDE DEF t
<1>3. WasOf(Trim(t)) \in SuffixesOf(WasOf(t)) /\ WasOf(t) \in Seq(Files)
  BY <1>1, WasOfStack
<1>4. MergeEqual(Append(WasOf(Trim(t)), x)) \in SuffixesOf(MergeEqual(Append(WasOf(t), x)))
  BY <1>3, LineTrimmed
<1> QED BY <1>2, <1>4 DEF t

\* Moving the step between the stacks may drop the farthest version, no other.
LEMMA SettlingShrinks ==
    ASSUME LineInv, LineInv', SettleUndo \/ SettleRedo
    PROVE  History!Shrink
<1>1. /\ StepsInOrder /\ StepsInOrder' /\ LinesOfSteps /\ LinesOfSteps'
      /\ UndoEntryOfRedo \in Entries /\ RedoEntry \in Entries
      /\ UndoEntryOfRedo.was = op.raw /\ RedoEntry.was = op.raw
  <2>1. /\ StepsInOrder /\ StepsInOrder' /\ LinesOfSteps /\ LinesOfSteps'
    BY NothingInHand, LinesRead, PTL
  <2> QED BY <2>1, PushedTyped DEF LineInv, Typed, UndoEntryOfRedo, RedoEntry
<1>2. pc = "settle"
  BY DEF SettleUndo, SettleRedo
<1>3. /\ ~Ahead /\ journal.undo = undo /\ journal.redo = redo
      /\ op.kind = "undo" => undo # <<>>
      /\ op.kind = "redo" => redo # <<>>
      /\ undo \in Seq(Entries) /\ redo \in Seq(Entries)
      /\ op.raw \in Files /\ op.new \in Files /\ file \in Files
  BY <1>1, <1>2, InStepWithJournal DEF LinesOfSteps
<1>4. CASE SettleUndo
  <2>1. /\ op.kind = "undo" /\ undo' = AllButLast(undo) /\ redo' = Trim(Append(redo, RedoEntry))
        /\ pc' = "persist" /\ op' = op /\ file' = file
    BY <1>3, <1>4 DEF SettleUndo, Goto, diskVars
  <2>2. file = LastOf(undo).was
    BY <1>2, <2>1 DEF LineInv, Underway
  <2> DEFINE w == WasOf(AllButLast(undo))
  <2>3. w \in Seq(Files) /\ WasOf(undo) = Append(w, file)
    BY <1>3, <2>1, <2>2, StepTakenOff
  <2>4. Ahead'
    BY <2>1 DEF Ahead, Lagging
  <2>5. /\ PastSteps = WasOf(undo) /\ PastSteps' = w
        /\ FutureSteps = Append(WasOf(redo), op.raw)
        /\ FutureSteps' = WasOf(Trim(Append(redo, RedoEntry)))
    BY <1>1, <1>2, <1>3, <2>1, <2>4 DEF StepsInOrder
  <2> HIDE DEF w
  <2>6. PastLine' \in SuffixesOf(PastLine)
    <3>1. /\ PastLine = MergeEqual(Append(Append(w, file), file))
          /\ PastLine' = MergeEqual(Append(w, file))
      BY <1>1, <2>1, <2>3, <2>5 DEF LinesOfSteps
    <3>2. PastLine' = PastLine /\ PastLine \in Seq(Files)
      BY <1>3, <2>3, <3>1, LineGrows, OneVersionMore
    <3> QED BY <3>2, SuffixEnds
  <2>7. FutureLine' \in SuffixesOf(FutureLine)
    <3>1. /\ FutureLine = MergeEqual(Append(Append(WasOf(redo), op.raw), file))
          /\ FutureLine' = MergeEqual(Append(WasOf(Trim(Append(redo, RedoEntry))), file))
      BY <1>1, <2>1, <2>5 DEF LinesOfSteps
    <3> QED BY <1>1, <1>3, <3>1, PushTrims
  <2> QED BY <2>1, <2>6, <2>7, HistoryShrinks
<1>5. CASE SettleRedo
  <2>1. /\ op.kind = "redo" /\ redo' = AllButLast(redo)
        /\ undo' = Trim(Append(undo, UndoEntryOfRedo))
        /\ pc' = "prune" /\ op' = op /\ file' = file
    BY <1>3, <1>5 DEF SettleRedo, Goto, diskVars
  <2>2. file = LastOf(redo).was
    BY <1>2, <2>1 DEF LineInv, Underway
  <2> DEFINE w == WasOf(AllButLast(redo))
  <2>3. w \in Seq(Files) /\ WasOf(redo) = Append(w, file)
    BY <1>3, <2>1, <2>2, StepTakenOff
  <2>4. Ahead'
    BY <2>1 DEF Ahead, Lagging
  <2>5. /\ FutureSteps = WasOf(redo) /\ FutureSteps' = w
        /\ PastSteps = Append(WasOf(undo), op.raw)
        /\ PastSteps' = WasOf(Trim(Append(undo, UndoEntryOfRedo)))
    BY <1>1, <1>2, <1>3, <2>1, <2>4 DEF StepsInOrder
  <2> HIDE DEF w
  <2>6. FutureLine' \in SuffixesOf(FutureLine)
    <3>1. /\ FutureLine = MergeEqual(Append(Append(w, file), file))
          /\ FutureLine' = MergeEqual(Append(w, file))
      BY <1>1, <2>1, <2>3, <2>5 DEF LinesOfSteps
    <3>2. FutureLine' = FutureLine /\ FutureLine \in Seq(Files)
      BY <1>3, <2>3, <3>1, LineGrows, OneVersionMore
    <3> QED BY <3>2, SuffixEnds
  <2>7. PastLine' \in SuffixesOf(PastLine)
    <3>1. /\ PastLine = MergeEqual(Append(Append(WasOf(undo), op.raw), file))
          /\ PastLine' = MergeEqual(Append(WasOf(Trim(Append(undo, UndoEntryOfRedo))), file))
      BY <1>1, <2>1, <2>5 DEF LinesOfSteps
    <3> QED BY <1>1, <1>3, <3>1, PushTrims
  <2> QED BY <2>1, <2>6, <2>7, HistoryShrinks
<1> QED BY <1>4, <1>5

\* At first the table's own content is the only version.
LEMMA HistoryStarts ==
    ASSUME Init, LineInv
    PROVE  History!Init
<1>1. StepsInOrder /\ LinesOfSteps
  BY NothingInHand, LinesRead
<1>2. PastSteps = <<>> /\ FutureSteps = <<>>
  <2>1. pc = "idle" /\ op.kind = "none" /\ journal.undo = <<>> /\ journal.redo = <<>>
    BY DEF Init, NoOp, EmptyPair
  <2>2. WasOf(<<>>) = <<>>
    BY EmptyPairTyped, WasOfStack
  <2> QED BY <1>1, <2>1, <2>2 DEF StepsInOrder, Ahead, Lagging
<1>3. PastLine = <<file>> /\ FutureLine = <<file>>
  <2>1. Append(<<>>, file) = <<file>>
    OBVIOUS
  <2> QED BY <1>1, <1>2, <2>1, MergeOne DEF LinesOfSteps
<1>4. TablePast = <<>> /\ TableFuture = <<>>
  <2>1. <<>> \in Seq(Files)
    OBVIOUS
  <2>2. AllButLast(<<file>>) = <<>> /\ Backwards(<<>>) = <<>>
    BY <2>1, SplitLast, SeenBackwards
  <2> QED BY <1>3, <2>2 DEF TablePast, TableFuture
<1> QED BY <1>1, <1>4 DEF History!Init, LinesOfSteps

\* A table that only the server writes has one line of versions: every save, undo and
\* redo, and every death of the process outside a restore, moves along it as
\* EditHistory allows, skipping no version, putting none in another's place and
\* inventing none, for every depth of the history and number of snapshots kept.
THEOREM StoreRefinesHistory ==
    ASSUME HistoryIsALine
    PROVE  Spec => RefinesHistory
<1>1. Init => LineInv
  BY TypedInit, ExactInit, MirrorInit, StepRegisteredInit, LineInit
     DEF LineInv, HistoryIsALine
<1>2. LineInv /\ [Next]_vars => LineInv'
  BY LineInvNext
<1>3. Init /\ LineInv => History!Init
  BY HistoryStarts
<1>4. LineInv /\ LineInv' /\ [Next]_vars => [History!Next]_(History!history)
  <2> SUFFICES ASSUME LineInv, LineInv', [Next]_vars
               PROVE  History!Next \/ UNCHANGED <<TablePast, file, TableFuture>>
    BY DEF History!history
  <2>1. CASE WriteJournal
    BY <2>1, JournalWriteShrinks DEF History!Next
  <2>2. CASE WriteTable
    BY <2>2, TableWriteSaves DEF History!Next
  <2>3. CASE Restore
    <3>1. op.kind \in {"undo", "redo"}
      BY <2>3, InStepWithJournal DEF Restore
    <3> QED BY <2>3, <3>1, RestoreUndoes, RestoreRedoes DEF History!Next
  <2>4. CASE SettleUndo \/ SettleRedo
    BY <2>4, SettlingShrinks DEF History!Next
  <2> QED BY <2>1, <2>2, <2>3, <2>4, QuietSteps
<1> QED BY <1>1, <1>2, <1>3, <1>4, PTL DEF Spec, RefinesHistory, History!Spec
=============================================================================
