------------------------- MODULE ListObjects_proofs -------------------------
(***************************************************************************)
(* Safety of a listing, for any bucket, any size of a page and any number  *)
(* of changes made while the listing runs.  That keys come once and in     *)
(* order needs markers of which the store reads the whole.                 *)
(***************************************************************************)
EXTENDS ListObjects, FiniteSetTheorems, SequenceTheorems, WellFoundedInduction, TLAPS

Increasing(s) == \A i, j \in 1 .. Len(s) : i < j => s[i] < s[j]

-----------------------------------------------------------------------------
(* Sets of numbers, and their keys in order *)

LEMMA LeastOf ==
  ASSUME NEW S, S \subseteq Nat, S # {}
  PROVE  \E n \in S : \A m \in S : n <= m
<1> DEFINE R == {ss \in Nat \X Nat : ss[1] < ss[2]}
<1>1. IsWellFoundedOn(R, Nat)
  BY NatLessThanWellFounded DEF OpToRel
<1>2. \A x, y \in Nat : y < x => <<y, x>> \in R
  OBVIOUS
<1> HIDE DEF R
<1>3. PICK n \in S : \A m \in S : ~ (<<m, n>> \in R)
  BY <1>1, WFMin
<1>4. \A m \in S : n <= m
  <2> SUFFICES ASSUME NEW m \in S PROVE ~ (m < n)
    OBVIOUS
  <2> QED
    BY <1>2, <1>3
<1> QED
  BY <1>4

(* How many keys of S are below k.                                         *)
Below(S, k) == {j \in S : j < k}
Rank(S, k) == Cardinality(Below(S, k))

LEMMA BelowFinite ==
  ASSUME NEW S, S \subseteq Nat, IsFiniteSet(S), NEW k \in Nat
  PROVE  IsFiniteSet(Below(S, k)) /\ Rank(S, k) \in Nat
  BY FS_Subset, FS_CardinalityType DEF Below, Rank

LEMMA RankGrows ==
  ASSUME NEW S, S \subseteq Nat, IsFiniteSet(S), NEW k \in S, NEW l \in Nat, k < l
  PROVE  /\ Rank(S, l) >= Rank(S, k) + 1
         /\ (\A m \in S : m < l => m <= k) => Rank(S, l) = Rank(S, k) + 1
<1> DEFINE up == Below(S, k) \cup {k}
<1>1. /\ IsFiniteSet(Below(S, k)) /\ Rank(S, k) \in Nat
      /\ IsFiniteSet(Below(S, l)) /\ Rank(S, l) \in Nat
  BY BelowFinite
<1>2. k \notin Below(S, k)
  BY DEF Below
<1>3. IsFiniteSet(up) /\ Cardinality(up) = Rank(S, k) + 1
  BY <1>1, <1>2, FS_AddElement DEF Rank
<1>4. up \subseteq Below(S, l)
  <2>1. \A x \in S : x \in Nat /\ (x < k => x < l)
    OBVIOUS
  <2>2. Below(S, k) \subseteq Below(S, l) /\ k \in Below(S, l)
    BY <2>1 DEF Below
  <2> QED
    BY <2>2
<1>5. Cardinality(up) <= Rank(S, l)
  BY <1>1, <1>4, FS_Subset DEF Rank
<1>6. (\A m \in S : m < l => m <= k) => up = Below(S, l)
  <2> SUFFICES ASSUME \A m \in S : m < l => m <= k PROVE Below(S, l) \subseteq up
    BY <1>4
  <2>1. \A m \in S : m \in Nat /\ (m <= k => m < k \/ m = k)
    OBVIOUS
  <2> QED
    BY <2>1 DEF Below
<1> QED
  BY <1>1, <1>3, <1>5, <1>6 DEF Rank

LEMMA RankInjective ==
  ASSUME NEW S, S \subseteq Nat, IsFiniteSet(S), NEW k \in S, NEW l \in S
  PROVE  /\ k < l <=> Rank(S, k) < Rank(S, l)
         /\ k = l <=> Rank(S, k) = Rank(S, l)
<1>1. Rank(S, k) \in Nat /\ Rank(S, l) \in Nat
  BY BelowFinite
<1>2. k < l => Rank(S, l) >= Rank(S, k) + 1
  BY RankGrows
<1>3. l < k => Rank(S, k) >= Rank(S, l) + 1
  BY RankGrows
<1> QED
  BY <1>1, <1>2, <1>3

LEMMA RankBounded ==
  ASSUME NEW S, S \subseteq Nat, IsFiniteSet(S), NEW k \in S
  PROVE  Rank(S, k) \in 0 .. Cardinality(S) - 1
<1>1. IsFiniteSet(Below(S, k)) /\ Rank(S, k) \in Nat
  BY BelowFinite
<1>2. k \notin Below(S, k) /\ Below(S, k) \cup {k} \subseteq S
  BY DEF Below
<1>3. Cardinality(Below(S, k) \cup {k}) = Rank(S, k) + 1
  BY <1>1, <1>2, FS_AddElement DEF Rank
<1>4. Cardinality(Below(S, k) \cup {k}) <= Cardinality(S) /\ Cardinality(S) \in Nat
  BY <1>2, FS_Subset, FS_CardinalityType
<1> QED
  BY <1>1, <1>3, <1>4

(* Every number of keys is that of the keys below some key.                *)
LEMMA RankExists ==
  ASSUME NEW S, S \subseteq Nat, IsFiniteSet(S), NEW n \in 0 .. Cardinality(S) - 1
  PROVE  \E k \in S : Rank(S, k) = n
<1> DEFINE Bad == {i \in 0 .. Cardinality(S) - 1 : ~ \E k \in S : Rank(S, k) = i}
<1>1. Cardinality(S) \in Nat
  BY FS_CardinalityType
<1>2. SUFFICES ASSUME Bad # {} PROVE FALSE
  OBVIOUS
<1>3. PICK i \in Bad : \A m \in Bad : i <= m
  <2>1. Bad \subseteq Nat
    BY <1>1
  <2> HIDE DEF Bad
  <2> QED
    BY <1>2, <2>1, LeastOf
<1>4. i \in Nat /\ i <= Cardinality(S) - 1
  BY <1>1
<1>5. CASE i = 0
  <2>1. S # {}
    BY <1>4, <1>5, FS_EmptySet
  <2>2. PICK k \in S : \A m \in S : k <= m
    BY <2>1, LeastOf
  <2>3. Below(S, k) = {}
    <3>1. \A m \in S : m \in Nat /\ ~ (m < k)
      BY <2>2
    <3> QED
      BY <3>1 DEF Below
  <2>4. Rank(S, k) = 0
    BY <2>3, FS_EmptySet DEF Rank
  <2> QED
    BY <1>5, <2>4
<1>6. CASE i > 0
  <2>1. i - 1 \in 0 .. Cardinality(S) - 1 /\ i - 1 \notin Bad
    BY <1>1, <1>3, <1>4, <1>6
  <2>2. PICK k \in S : Rank(S, k) = i - 1
    BY <2>1
  <2> DEFINE T == {x \in S : x > k}
  <2>3. T # {}
    <3>1. SUFFICES ASSUME T = {} PROVE FALSE
      OBVIOUS
    <3>2. S = Below(S, k) \cup {k} /\ k \notin Below(S, k)
      <4>1. \A m \in S : m \in Nat /\ (m < k \/ m = k)
        BY <3>1
      <4>2. S \subseteq Below(S, k) \cup {k} /\ Below(S, k) \subseteq S
        BY <4>1 DEF Below
      <4>3. k \notin Below(S, k)
        BY DEF Below
      <4> QED
        BY <4>2, <4>3
    <3>3. Cardinality(S) = Rank(S, k) + 1
      BY <3>2, BelowFinite, FS_AddElement DEF Rank
    <3> QED
      BY <1>4, <2>2, <3>3
  <2>4. PICK l \in T : \A m \in T : l <= m
    BY <2>3, LeastOf
  <2>5. \A m \in S : m < l => m <= k
    BY <2>4
  <2>6. Rank(S, l) = i
    <3>1. l \in Nat /\ k < l
      BY <2>4
    <3> HIDE DEF T
    <3>2. Rank(S, l) = Rank(S, k) + 1
      BY <2>5, <3>1, RankGrows
    <3> QED
      BY <1>4, <2>2, <3>2
  <2> QED
    BY <2>6
<1> QED
  BY <1>4, <1>5, <1>6

(* Ascending lists the keys of a set, each once, in order.                 *)
LEMMA AscendingProperties ==
  ASSUME NEW S, S \subseteq Nat, IsFiniteSet(S)
  PROVE  /\ Ascending(S) \in Seq(S) /\ Len(Ascending(S)) = Cardinality(S)
         /\ Increasing(Ascending(S))
         /\ \A k \in S : \E i \in 1 .. Len(Ascending(S)) : Ascending(S)[i] = k
<1>1. Cardinality(S) \in Nat
  BY FS_CardinalityType
<1>2. Ascending(S) = [i \in 1 .. Cardinality(S) |-> CHOOSE k \in S : Rank(S, k) = i - 1]
  BY DEF Ascending, Rank, Below
<1>3. \A i \in 1 .. Cardinality(S) : Ascending(S)[i] \in S /\ Rank(S, Ascending(S)[i]) = i - 1
  <2> SUFFICES ASSUME NEW i \in 1 .. Cardinality(S)
               PROVE  Ascending(S)[i] \in S /\ Rank(S, Ascending(S)[i]) = i - 1
    OBVIOUS
  <2>1. \E k \in S : Rank(S, k) = i - 1
    <3>1. i - 1 \in 0 .. Cardinality(S) - 1
      BY <1>1
    <3> QED
      BY <3>1, RankExists
  <2>2. Ascending(S)[i] = CHOOSE k \in S : Rank(S, k) = i - 1
    BY <1>2
  <2> QED
    BY <2>1, <2>2
<1>4. Ascending(S) \in Seq(S) /\ Len(Ascending(S)) = Cardinality(S)
  BY <1>1, <1>2, <1>3
<1>5. Increasing(Ascending(S))
  <2> SUFFICES ASSUME NEW i \in 1 .. Cardinality(S), NEW j \in 1 .. Cardinality(S), i < j
               PROVE  Ascending(S)[i] < Ascending(S)[j]
    BY <1>4 DEF Increasing
  <2>1. Rank(S, Ascending(S)[i]) < Rank(S, Ascending(S)[j])
    BY <1>1, <1>3
  <2> QED
    BY <1>3, <2>1, RankInjective
<1>6. \A k \in S : \E i \in 1 .. Len(Ascending(S)) : Ascending(S)[i] = k
  <2> SUFFICES ASSUME NEW k \in S
               PROVE  \E i \in 1 .. Cardinality(S) : Ascending(S)[i] = k
    BY <1>4
  <2>1. Rank(S, k) \in 0 .. Cardinality(S) - 1
    BY RankBounded
  <2> DEFINE i == Rank(S, k) + 1
  <2>2. i \in 1 .. Cardinality(S) /\ i - 1 = Rank(S, k)
    BY <1>1, <2>1
  <2> HIDE DEF i
  <2>3. Ascending(S)[i] \in S /\ Rank(S, Ascending(S)[i]) = Rank(S, k)
    BY <1>3, <2>2
  <2>4. Ascending(S)[i] = k
    BY <2>3, RankInjective
  <2> QED
    BY <2>2, <2>4
<1> QED
  BY <1>4, <1>5, <1>6

(* Sorting leaves alone what is in order.                                  *)
LEMMA SortedStays ==
  ASSUME NEW s \in Seq(Nat), Increasing(s)
  PROVE  Sorted(s) = s
<1>1. \A i, j \in 1 .. Len(s) : (s[j] < s[i] <=> j < i) /\ (s[j] <= s[i] <=> j <= i)
  BY DEF Increasing
<1>2. \A i \in 1 .. Len(s) :
        /\ Cardinality({j \in DOMAIN s : s[j] < s[i]}) = i - 1
        /\ Cardinality({j \in DOMAIN s : s[j] <= s[i]}) = i
  <2> SUFFICES ASSUME NEW i \in 1 .. Len(s)
               PROVE  /\ Cardinality({j \in DOMAIN s : s[j] < s[i]}) = i - 1
                      /\ Cardinality({j \in DOMAIN s : s[j] <= s[i]}) = i
    OBVIOUS
  <2>1. {j \in DOMAIN s : s[j] < s[i]} = 1 .. i - 1
    BY <1>1, SMTT(60)
  <2>2. {j \in DOMAIN s : s[j] <= s[i]} = 1 .. i
    BY <1>1
  <2>3. Cardinality(1 .. i - 1) = i - 1 /\ Cardinality(1 .. i) = i
    BY FS_Interval
  <2> QED
    BY <2>1, <2>2, <2>3
<1> DEFINE At(k, i) == /\ Cardinality({j \in DOMAIN s : s[j] < k}) < i
                       /\ Cardinality({j \in DOMAIN s : s[j] <= k}) >= i
<1>3. Sorted(s) = [i \in DOMAIN s |-> CHOOSE k \in ToSet(s) : At(k, i)]
  BY DEF Sorted
<1>4. \A i, n \in 1 .. Len(s) : At(s[n], i) <=> n = i
  <2> SUFFICES ASSUME NEW i \in 1 .. Len(s), NEW n \in 1 .. Len(s)
               PROVE  At(s[n], i) <=> n = i
    OBVIOUS
  <2>1. At(s[n], i) <=> n - 1 < i /\ n >= i
    BY <1>2
  <2> HIDE DEF At
  <2> QED
    BY <2>1
<1> HIDE DEF At
<1>5. \A i \in 1 .. Len(s) : (CHOOSE k \in ToSet(s) : At(k, i)) = s[i]
  <2> SUFFICES ASSUME NEW i \in 1 .. Len(s)
               PROVE  (CHOOSE k \in ToSet(s) : At(k, i)) = s[i]
    OBVIOUS
  <2>1. s[i] \in ToSet(s) /\ At(s[i], i)
    BY <1>4 DEF ToSet
  <2>2. \A k \in ToSet(s) : At(k, i) => k = s[i]
    BY <1>4 DEF ToSet
  <2> QED
    BY <2>1, <2>2
<1> QED
  BY <1>3, <1>5

(* The greatest key of a set.                                              *)
LEMMA GreatestOf ==
  ASSUME NEW S, S \subseteq Nat, IsFiniteSet(S), S # {}
  PROVE  \E n \in S : \A m \in S : m <= n
<1>1. Cardinality(S) \in Nat /\ Cardinality(S) # 0
  BY FS_CardinalityType, FS_EmptySet
<1>2. PICK n \in S : Rank(S, n) = Cardinality(S) - 1
  <2>1. Cardinality(S) - 1 \in 0 .. Cardinality(S) - 1
    BY <1>1
  <2> QED
    BY <2>1, RankExists
<1>3. ASSUME NEW m \in S, m > n PROVE FALSE
  <2>1. Rank(S, m) >= Rank(S, n) + 1 /\ Rank(S, m) \in 0 .. Cardinality(S) - 1
    BY <1>3, RankGrows, RankBounded
  <2> QED
    BY <1>1, <1>2, <2>1
<1>4. \A m \in S : m \in Nat /\ n \in Nat
  OBVIOUS
<1> QED
  BY <1>3, <1>4

Under(s, k) == {j \in DOMAIN s : s[j] < k}
UpTo(s, k) == {j \in DOMAIN s : s[j] <= k}

LEMMA Places ==
  ASSUME NEW s \in Seq(Nat), NEW k \in Nat
  PROVE  /\ IsFiniteSet(Under(s, k)) /\ Cardinality(Under(s, k)) \in 0 .. Len(s)
         /\ IsFiniteSet(UpTo(s, k)) /\ Cardinality(UpTo(s, k)) \in 0 .. Len(s)
         /\ Under(s, k) \subseteq UpTo(s, k)
         /\ \A l \in Nat : k < l => Cardinality(UpTo(s, k)) <= Cardinality(Under(s, l))
<1>1. IsFiniteSet(1 .. Len(s)) /\ Cardinality(1 .. Len(s)) = Len(s) /\ Len(s) \in Nat
  <2>1. Len(s) \in Nat /\ Len(s) - 1 + 1 = Len(s)
    OBVIOUS
  <2> QED
    BY <2>1, FS_Interval, SMTT(60)
<1>2. \A l \in Nat : Under(s, l) \subseteq 1 .. Len(s) /\ UpTo(s, l) \subseteq 1 .. Len(s)
  BY DEF Under, UpTo
<1>3. \A l \in Nat :
        /\ IsFiniteSet(Under(s, l)) /\ Cardinality(Under(s, l)) \in 0 .. Len(s)
        /\ IsFiniteSet(UpTo(s, l)) /\ Cardinality(UpTo(s, l)) \in 0 .. Len(s)
  BY <1>1, <1>2, FS_Subset, FS_CardinalityType
<1>4. \A j \in DOMAIN s : s[j] \in Nat
  OBVIOUS
<1>5. Under(s, k) \subseteq UpTo(s, k)
  BY <1>4 DEF Under, UpTo
<1>6. ASSUME NEW l \in Nat, k < l
      PROVE  Cardinality(UpTo(s, k)) <= Cardinality(Under(s, l))
  <2>1. UpTo(s, k) \subseteq Under(s, l)
    BY <1>4, <1>6 DEF Under, UpTo
  <2> QED
    BY <1>3, <2>1, FS_Subset
<1> QED
  BY <1>3, <1>5, <1>6

(* Sorting keeps every key, at the places that are its.                    *)
LEMMA SortedProperties ==
  ASSUME NEW s \in Seq(Nat)
  PROVE  /\ Sorted(s) \in Seq(ToSet(s))
         /\ ToSet(s) \subseteq ToSet(Sorted(s))
<1> DEFINE At(k, i) == /\ Cardinality(Under(s, k)) < i
                       /\ Cardinality(UpTo(s, k)) >= i
<1>1. Sorted(s) = [i \in 1 .. Len(s) |-> CHOOSE k \in ToSet(s) : At(k, i)]
  BY DEF Sorted, Under, UpTo
<1>2. ToSet(s) \subseteq Nat /\ IsFiniteSet(ToSet(s)) /\ Len(s) \in Nat
  <2>1. ToSet(s) = {s[j] : j \in 1 .. Len(s)}
    BY DEF ToSet
  <2>2. Len(s) \in Nat /\ \A j \in 1 .. Len(s) : s[j] \in Nat
    OBVIOUS
  <2>3. IsFiniteSet(1 .. Len(s))
    BY <2>2, FS_Interval
  <2>4. s \in Surjection(1 .. Len(s), ToSet(s))
    <3>1. s \in [1 .. Len(s) -> ToSet(s)]
      BY <2>1
    <3> QED
      BY <2>1, <3>1 DEF Surjection
  <2> QED
    BY <2>1, <2>2, <2>3, <2>4, FS_Surjection
<1>3. \A i \in 1 .. Len(s) : \E k \in ToSet(s) : At(k, i)
  <2> SUFFICES ASSUME NEW i \in 1 .. Len(s)
               PROVE  \E k \in ToSet(s) : At(k, i)
    OBVIOUS
  <2> DEFINE High == {k \in ToSet(s) : Cardinality(UpTo(s, k)) >= i}
  <2>1. High \subseteq Nat /\ High # {}
    <3>1. ToSet(s) # {}
      BY DEF ToSet
    <3>2. PICK g \in ToSet(s) : \A m \in ToSet(s) : m <= g
      BY <1>2, <3>1, GreatestOf
    <3>3. UpTo(s, g) = 1 .. Len(s)
      BY <3>2 DEF UpTo, ToSet
    <3>4. Cardinality(UpTo(s, g)) = Len(s)
      BY <1>2, <3>3, FS_Interval, SMTT(60)
    <3>5. g \in High
      BY <1>2, <3>4
    <3> QED
      BY <1>2, <3>5
  <2> HIDE DEF High
  <2>2. PICK k \in High : \A m \in High : k <= m
    BY <2>1, LeastOf
  <2>3. k \in ToSet(s) /\ k \in Nat /\ Cardinality(UpTo(s, k)) >= i
    BY <1>2, <2>2 DEF High
  <2>4. Cardinality(Under(s, k)) < i
    <3>1. SUFFICES ASSUME ~ (Cardinality(Under(s, k)) < i) PROVE FALSE
      OBVIOUS
    <3>2. Cardinality(Under(s, k)) \in Nat /\ Cardinality(Under(s, k)) >= i
      BY <2>3, <3>1, Places
    <3> DEFINE Low == {s[j] : j \in Under(s, k)}
    <3>3. Low = {l \in ToSet(s) : l < k}
      BY DEF Under, ToSet
    <3>4. Low \subseteq Nat /\ IsFiniteSet(Low)
      BY <1>2, <3>3, FS_Subset
    <3>5. Under(s, k) # {}
      <4>1. Cardinality({}) = 0 /\ i \in Nat /\ i >= 1
        BY FS_EmptySet
      <4>2. Cardinality(Under(s, k)) # 0
        BY <3>2, <4>1
      <4> QED
        BY <4>1, <4>2
    <3>6. Low # {}
      BY <3>5
    <3> HIDE DEF Low
    <3>7. PICK l \in Low : \A m \in Low : m <= l
      BY <3>4, <3>6, GreatestOf
    <3>8. l \in ToSet(s) /\ l \in Nat /\ l < k
      BY <3>3, <3>4, <3>7
    <3>9. Under(s, k) \subseteq UpTo(s, l)
      <4>1. \A j \in Under(s, k) : s[j] \in Low
        BY DEF Low
      <4> QED
        BY <3>7, <4>1 DEF Under, UpTo
    <3>10. Cardinality(UpTo(s, l)) >= i
      <4>1. /\ IsFiniteSet(UpTo(s, l)) /\ Cardinality(UpTo(s, l)) \in Nat
        BY <3>8, Places
      <4>2. Cardinality(Under(s, k)) <= Cardinality(UpTo(s, l))
        BY <3>9, <4>1, FS_Subset
      <4> QED
        BY <3>2, <4>1, <4>2
    <3>11. l \in High
      BY <3>8, <3>10 DEF High
    <3> QED
      BY <2>2, <2>3, <3>8, <3>11
  <2> QED
    BY <2>3, <2>4
<1>4. \A i \in 1 .. Len(s) : \A k, l \in ToSet(s) : At(k, i) /\ At(l, i) => k = l
  <2> SUFFICES ASSUME NEW i \in 1 .. Len(s), NEW k \in ToSet(s), NEW l \in ToSet(s),
                      At(k, i), At(l, i), k < l
               PROVE  FALSE
    BY <1>2
  <2>1. k \in Nat /\ l \in Nat
    BY <1>2
  <2>2. /\ Cardinality(UpTo(s, k)) <= Cardinality(Under(s, l))
        /\ Cardinality(UpTo(s, k)) \in Nat /\ Cardinality(Under(s, l)) \in Nat
    BY <2>1, Places
  <2> QED
    BY <2>2
<1>5. \A k \in ToSet(s) : \E i \in 1 .. Len(s) : At(k, i)
  <2> SUFFICES ASSUME NEW k \in ToSet(s)
               PROVE  \E i \in 1 .. Len(s) : At(k, i)
    OBVIOUS
  <2>1. PICK n \in 1 .. Len(s) : s[n] = k
    BY DEF ToSet
  <2>2. k \in Nat
    BY <1>2
  <2>3. n \in UpTo(s, k) /\ n \notin Under(s, k)
    BY <2>1, <2>2 DEF UpTo, Under
  <2>4. Cardinality(Under(s, k)) < Cardinality(UpTo(s, k))
    <3>1. Cardinality(Under(s, k) \cup {n}) = Cardinality(Under(s, k)) + 1
      BY <2>2, <2>3, Places, FS_AddElement
    <3>2. Cardinality(Under(s, k) \cup {n}) <= Cardinality(UpTo(s, k))
      BY <2>2, <2>3, Places, FS_Subset
    <3> QED
      BY <2>2, <3>1, <3>2, Places
  <2>5. Cardinality(UpTo(s, k)) \in 1 .. Len(s)
    <3>1. Cardinality(UpTo(s, k)) \in 0 .. Len(s) /\ Cardinality(Under(s, k)) \in 0 .. Len(s)
      BY <2>2, Places
    <3> QED
      BY <1>2, <2>4, <3>1
  <2> QED
    BY <2>4, <2>5
<1> HIDE DEF At
<1>6. \A i \in 1 .. Len(s) : Sorted(s)[i] \in ToSet(s) /\ At(Sorted(s)[i], i)
  <2> SUFFICES ASSUME NEW i \in 1 .. Len(s)
               PROVE  Sorted(s)[i] \in ToSet(s) /\ At(Sorted(s)[i], i)
    OBVIOUS
  <2>1. Sorted(s)[i] = CHOOSE k \in ToSet(s) : At(k, i)
    BY <1>1
  <2> QED
    BY <1>3, <2>1
<1>7. Sorted(s) \in Seq(ToSet(s)) /\ Len(Sorted(s)) = Len(s)
  BY <1>1, <1>2, <1>6
<1>8. ToSet(s) \subseteq ToSet(Sorted(s))
  <2> SUFFICES ASSUME NEW k \in ToSet(s) PROVE k \in ToSet(Sorted(s))
    OBVIOUS
  <2>1. PICK i \in 1 .. Len(s) : At(k, i)
    BY <1>5
  <2>2. Sorted(s)[i] = k
    BY <1>4, <1>6, <2>1
  <2> QED
    BY <1>7, <2>2 DEF ToSet
<1> QED
  BY <1>7, <1>8

-----------------------------------------------------------------------------
(* The store's pages *)

Past(m) == {k \in bucket : k > m}

LEMMA PageProperties ==
  ASSUME bucket \subseteq Keys, NEW m \in Nat
  PROVE  /\ Page(m) \in Seq(Past(m)) /\ Len(Page(m)) <= Limit /\ Increasing(Page(m))
         /\ \A k \in Past(m) :
              \/ \E i \in 1 .. Len(Page(m)) : Page(m)[i] = k
              \/ Len(Page(m)) = Limit /\ Page(m)[Len(Page(m))] < k
<1> DEFINE S == Past(m)
           a == After(m)
           n == IF Len(a) < Limit THEN Len(a) ELSE Limit
<1>1. S \subseteq Nat /\ IsFiniteSet(S)
  <2>1. S \subseteq Keys
    BY DEF Past
  <2> QED
    BY <2>1, ListAssumption, FS_Subset
<1>2. /\ a \in Seq(S) /\ Increasing(a)
      /\ \A k \in S : \E i \in 1 .. Len(a) : a[i] = k
  BY <1>1, AscendingProperties DEF After, Past
<1>3. Limit \in Nat \ {0}
  BY ListAssumption
<1> HIDE DEF a, S
<1>4. n \in 0 .. Len(a) /\ n <= Limit /\ (n < Limit => n = Len(a))
  BY <1>2, <1>3
<1>5. Page(m) = SubSeq(a, 1, n)
  BY DEF Page, a
<1> HIDE DEF n
<1>6. /\ Page(m) \in Seq(S) /\ Len(Page(m)) = n
      /\ \A i \in 1 .. n : Page(m)[i] = a[i]
  BY <1>2, <1>4, <1>5, SubSeqProperties
<1>7. Increasing(Page(m))
  <2>1. Len(a) \in Nat /\ 1 .. n \subseteq 1 .. Len(a)
    BY <1>2, <1>4
  <2> QED
    BY <1>2, <1>6, <2>1 DEF Increasing
<1>8. ASSUME NEW k \in S
      PROVE  \/ \E i \in 1 .. n : Page(m)[i] = k
             \/ n = Limit /\ Page(m)[n] < k
  <2>1. PICK i \in 1 .. Len(a) : a[i] = k
    BY <1>2
  <2>2. CASE i <= n
    BY <1>6, <2>1, <2>2
  <2>3. CASE i > n
    <3>1. n = Limit /\ n \in 1 .. Len(a) /\ n < i
      BY <1>2, <1>3, <1>4, <2>3
    <3>2. a[n] < a[i]
      BY <1>2, <2>1, <3>1 DEF Increasing
    <3> QED
      BY <1>6, <2>1, <3>1, <3>2
  <2> QED
    BY <1>2, <1>4, <2>1, <2>2, <2>3
<1> QED
  BY <1>4, <1>6, <1>7, <1>8 DEF S

-----------------------------------------------------------------------------
(* What is listed, whatever the store reads of a marker: less than the     *)
(* whole of it makes the next page begin earlier, and the result, which    *)
(* may then have keys twice, is sorted.                                    *)

(* What the listing has passed is in its result.                           *)
Covered ==
  /\ pc = "idle" => objects = <<>>
  /\ pc \in {"list", "done"} => \A k \in stable : k <= marker => k \in ToSet(objects)
  /\ pc = "done" => stable \subseteq ToSet(objects)

Bounds ==
  /\ bucket \subseteq Keys /\ stable \subseteq bucket
  /\ pc \in {"idle", "list", "done", "error"}
  /\ objects \in Seq(Keys)
  /\ marker \in Keys \cup {0}
  /\ pc = "idle" => marker = 0

CInv == Bounds /\ Covered

LEMMA GetPageCovers ==
  ASSUME CInv, GetPage
  PROVE  CInv'
<1> DEFINE p == Page(Asked)
           r == objects \o p
<1>1. /\ Keys \subseteq Nat \ {0} /\ Limit \in Nat \ {0}
      /\ \A k \in Keys : MarkerRead[k] \in Nat /\ MarkerRead[k] <= k
  BY ListAssumption
<1>2. /\ bucket \subseteq Keys /\ stable \subseteq bucket /\ objects \in Seq(Keys)
      /\ marker \in Nat /\ marker \in Keys \cup {0}
      /\ \A k \in stable : k \in Nat /\ (k <= marker => k \in ToSet(objects))
  BY <1>1 DEF CInv, Bounds, Covered, GetPage
<1>3. Asked \in Nat /\ Asked <= marker
  BY <1>1, <1>2 DEF Asked
<1>4. /\ p \in Seq(Past(Asked)) /\ Len(p) <= Limit
      /\ \A k \in Past(Asked) :
           \/ \E i \in 1 .. Len(p) : p[i] = k
           \/ Len(p) = Limit /\ p[Len(p)] < k
  BY <1>2, <1>3, PageProperties
<1>5. /\ objects' = Sorted(r) /\ marker' = NextMarker(p)
      /\ pc' = IF Eof(p) THEN "done" ELSE "list"
      /\ UNCHANGED <<bucket, stable>>
  BY DEF GetPage
<1> HIDE DEF p
<1>6. p \in Seq(Keys)
  <2>1. Past(Asked) \subseteq Keys
    BY <1>2 DEF Past
  <2> QED
    BY <1>4, <2>1, SeqMonotonic
<1>7. /\ r \in Seq(Keys) /\ Len(r) = Len(objects) + Len(p)
      /\ \A i \in 1 .. Len(r) :
           r[i] = IF i <= Len(objects) THEN objects[i] ELSE p[i - Len(objects)]
  BY <1>2, <1>6, ConcatProperties
<1>8. ToSet(objects) \subseteq ToSet(r) /\ \A i \in 1 .. Len(p) : p[i] \in ToSet(r)
  <2>1. Len(objects) \in Nat /\ Len(p) \in Nat
    BY <1>2, <1>6
  <2>2. \A i \in 1 .. Len(objects) : i \in 1 .. Len(r) /\ r[i] = objects[i]
    BY <1>7, <2>1
  <2>3. \A i \in 1 .. Len(p) : Len(objects) + i \in 1 .. Len(r) /\ r[Len(objects) + i] = p[i]
    <3> SUFFICES ASSUME NEW i \in 1 .. Len(p)
                 PROVE  Len(objects) + i \in 1 .. Len(r) /\ r[Len(objects) + i] = p[i]
      OBVIOUS
    <3>1. /\ Len(objects) + i \in 1 .. Len(r) /\ ~ (Len(objects) + i <= Len(objects))
          /\ (Len(objects) + i) - Len(objects) = i
      BY <1>7, <2>1
    <3> QED
      BY <1>7, <3>1
  <2>4. \A i \in 1 .. Len(r) : r[i] \in ToSet(r)
    BY <1>7, SMTT(60) DEF ToSet
  <2>5. \A k \in ToSet(objects) : \E i \in 1 .. Len(objects) : objects[i] = k
    BY <1>2 DEF ToSet
  <2> QED
    BY <2>2, <2>3, <2>4, <2>5
<1>9. ToSet(r) \subseteq Keys /\ r \in Seq(Nat)
  <2>1. r \in Seq(Keys) /\ Keys \subseteq Nat
    BY <1>1, <1>7
  <2> HIDE DEF r
  <2>2. r \in Seq(Nat)
    BY <2>1, SeqMonotonic
  <2>3. ToSet(r) \subseteq Keys
    BY <2>1 DEF ToSet
  <2> QED
    BY <2>2, <2>3
<1> HIDE DEF r
<1>10. objects' \in Seq(Keys) /\ ToSet(r) \subseteq ToSet(objects')
  <2>1. Sorted(r) \in Seq(ToSet(r)) /\ ToSet(r) \subseteq ToSet(Sorted(r))
    BY <1>9, SortedProperties
  <2> QED
    BY <1>5, <1>9, <2>1, SeqMonotonic
<1>11. marker' \in Keys \cup {0}
  BY <1>2, <1>5, <1>6 DEF NextMarker
<1>12. Bounds'
  BY <1>2, <1>5, <1>10, <1>11 DEF Bounds
(* What the page does not have is past its last key.                       *)
<1>13. \A k \in stable : k \in ToSet(objects') \/ (k > marker' /\ ~ Eof(p))
  <2> SUFFICES ASSUME NEW k \in stable, k \notin ToSet(objects')
               PROVE  k > marker' /\ ~ Eof(p)
    OBVIOUS
  <2>1. k \in Nat /\ k > marker
    BY <1>2, <1>8, <1>10
  <2>2. k \in Past(Asked)
    BY <1>2, <1>3, <2>1 DEF Past
  <2>3. Len(p) = Limit /\ p[Len(p)] < k
    BY <1>4, <1>8, <1>10, <2>2
  <2>4. p # <<>> /\ marker' = p[Len(p)]
    BY <1>1, <1>5, <2>3 DEF NextMarker
  <2>5. p[Len(p)] \in Nat
    <3>1. p[Len(p)] \in Keys
      BY <1>1, <1>6, <2>3
    <3> QED
      BY <1>1, <3>1
  <2> QED
    BY <1>1, <2>1, <2>3, <2>4, <2>5 DEF Eof
<1>14. Covered'
  <2>1. marker' \in Nat
    BY <1>1, <1>11
  <2>2. pc' \in {"list", "done"} /\ (pc' = "done" => Eof(p)) /\ stable' = stable
    BY <1>5
  <2>3. \A k \in stable : k <= marker' => k \in ToSet(objects')
    BY <1>2, <1>13, <2>1
  <2>4. Eof(p) => stable \subseteq ToSet(objects')
    BY <1>13
  <2> QED
    BY <2>2, <2>3, <2>4 DEF Covered
<1> QED
  BY <1>12, <1>14 DEF CInv

LEMMA NextCInv == CInv /\ [Next]_vars => CInv'
<1> SUFFICES ASSUME CInv, [Next]_vars PROVE CInv'
  OBVIOUS
<1>1. ASSUME NEW k \in Keys, Create(k) PROVE CInv'
  BY <1>1, ListAssumption DEF Create, CInv, Bounds, Covered
<1>2. ASSUME NEW k \in Keys, Delete(k) PROVE CInv'
  BY <1>2, ListAssumption DEF Delete, CInv, Bounds, Covered
<1>3. CASE Call
  <2>1. marker = 0 /\ bucket \subseteq Nat \ {0}
    BY <1>3, ListAssumption DEF Call, CInv, Bounds
  <2> QED
    BY <1>3, <2>1 DEF Call, CInv, Bounds, Covered
<1>4. CASE GetPage
  BY <1>4, GetPageCovers
<1>5. CASE RequestFails
  BY <1>5 DEF RequestFails, CInv, Bounds, Covered
<1>6. CASE UNCHANGED vars
  BY <1>6 DEF vars, CInv, Bounds, Covered
<1> QED
  BY <1>1, <1>2, <1>3, <1>4, <1>5, <1>6 DEF Next, Returned

(* A key that is in the bucket during the whole call is in its result,     *)
(* also when the store cuts the markers that it is sent.                   *)
THEOREM ListStableListed == Spec => []StableListed
<1>1. Init => CInv
  BY ListAssumption DEF Init, CInv, Bounds, Covered
<1>2. CInv /\ [Next]_vars => CInv'
  BY NextCInv
<1>3. CInv => StableListed
  BY DEF CInv, Covered, StableListed
<1> QED
  BY <1>1, <1>2, <1>3, PTL DEF Spec

-----------------------------------------------------------------------------
(* Keys of which the store reads the whole: the inductive invariant of the *)
(* listing's order.                                                        *)

IInv ==
  /\ TypeOK /\ ListedOnce
  /\ pc = "idle" => objects = <<>>

LEMMA InitIInv == Init => IInv
  BY ListAssumption DEF Init, IInv, TypeOK, ListedOnce

(* No key is read as another when it is a marker: none has a '#'.          *)
MarkersWhole == \A k \in Keys : MarkerRead[k] = k

(* The result and the next page, which need no sorting.                    *)
LEMMA GetPageAppends ==
  ASSUME MarkersWhole, IInv
  PROVE  /\ Asked = marker /\ marker \in Nat
         /\ objects \o Page(marker) \in Seq(Keys)
         /\ Increasing(objects \o Page(marker))
         /\ Sorted(objects \o Page(marker)) = objects \o Page(marker)
<1> DEFINE p == Page(marker)
           r == objects \o p
<1>1. /\ Keys \subseteq Nat \ {0} /\ bucket \subseteq Keys /\ objects \in Seq(Keys)
      /\ marker = IF objects = <<>> THEN 0 ELSE objects[Len(objects)]
      /\ Increasing(objects)
  BY ListAssumption DEF IInv, TypeOK, ListedOnce, Increasing
<1>2. marker = 0 \/ marker \in Keys
  BY <1>1
<1>3. Asked = marker /\ marker \in Nat
  BY <1>1, <1>2 DEF Asked, MarkersWhole
<1>4. p \in Seq(Past(marker)) /\ Increasing(p)
  BY <1>1, <1>3, PageProperties
<1> HIDE DEF p
<1>5. \A i \in 1 .. Len(p) : p[i] \in Keys /\ p[i] > marker
  <2>1. \A i \in 1 .. Len(p) : p[i] \in Past(marker)
    BY <1>4
  <2> QED
    BY <1>1, <2>1 DEF Past
<1>6. p \in Seq(Keys)
  BY <1>4, <1>5
<1>7. \A i \in 1 .. Len(objects) : objects[i] \in Nat /\ objects[i] <= marker
  <2> SUFFICES ASSUME NEW i \in 1 .. Len(objects)
               PROVE  objects[i] \in Nat /\ objects[i] <= marker
    OBVIOUS
  <2>1. Len(objects) \in Nat /\ Len(objects) >= i /\ objects # <<>>
    BY <1>1
  <2>2. objects[i] \in Keys /\ objects[Len(objects)] \in Keys /\ marker = objects[Len(objects)]
    BY <1>1, <2>1
  <2>3. i = Len(objects) \/ objects[i] < objects[Len(objects)]
    BY <1>1, <2>1 DEF Increasing
  <2>4. objects[i] \in Nat /\ marker \in Nat
    BY <1>1, <2>2
  <2> QED
    BY <2>2, <2>3, <2>4
<1>8. /\ r \in Seq(Keys) /\ Len(r) = Len(objects) + Len(p)
      /\ \A i \in 1 .. Len(r) :
           r[i] = IF i <= Len(objects) THEN objects[i] ELSE p[i - Len(objects)]
  BY <1>1, <1>6, ConcatProperties
<1> HIDE DEF r
<1>9. Increasing(r)
  <2> SUFFICES ASSUME NEW i \in 1 .. Len(r), NEW j \in 1 .. Len(r), i < j
               PROVE  r[i] < r[j]
    BY DEF Increasing
  <2>1. Len(objects) \in Nat /\ Len(p) \in Nat
    BY <1>1, <1>6
  <2>2. CASE j <= Len(objects)
    BY <1>1, <1>8, <2>1, <2>2 DEF Increasing
  <2>3. CASE i > Len(objects)
    <3>1. /\ i - Len(objects) \in 1 .. Len(p) /\ j - Len(objects) \in 1 .. Len(p)
          /\ i - Len(objects) < j - Len(objects)
      BY <1>8, <2>1, <2>3
    <3>2. r[i] = p[i - Len(objects)] /\ r[j] = p[j - Len(objects)]
      BY <1>8, <2>1, <2>3
    <3> QED
      BY <1>4, <3>1, <3>2 DEF Increasing
  <2>4. CASE i <= Len(objects) /\ j > Len(objects)
    <3>1. r[i] = objects[i] /\ r[j] = p[j - Len(objects)] /\ j - Len(objects) \in 1 .. Len(p)
      BY <1>8, <2>1, <2>4
    <3>2. r[i] \in Nat /\ r[i] <= marker
      BY <1>7, <2>1, <2>4, <3>1
    <3>3. r[j] \in Nat /\ marker < r[j]
      BY <1>1, <1>5, <3>1
    <3> QED
      BY <1>3, <3>2, <3>3
  <2> QED
    BY <2>1, <2>2, <2>3, <2>4
<1>10. Sorted(r) = r
  <2>1. r \in Seq(Nat)
    BY <1>1, <1>8, SeqMonotonic
  <2> QED
    BY <1>9, <2>1, SortedStays
<1> QED
  BY <1>3, <1>8, <1>9, <1>10 DEF r, p

LEMMA GetPageStep ==
  ASSUME MarkersWhole, IInv, GetPage
  PROVE  IInv'
<1> DEFINE p == Page(marker)
<1>1. /\ Asked = marker /\ marker \in Nat
      /\ objects \o p \in Seq(Keys) /\ Increasing(objects \o p)
      /\ Sorted(objects \o p) = objects \o p
  BY GetPageAppends
<1>2. /\ objects' = objects \o p /\ marker' = NextMarker(p)
      /\ pc' = IF Eof(p) THEN "done" ELSE "list"
      /\ UNCHANGED <<bucket, changes, stable>>
  BY <1>1 DEF GetPage
<1>3. /\ objects \in Seq(Keys) /\ bucket \subseteq Keys
      /\ marker = IF objects = <<>> THEN 0 ELSE objects[Len(objects)]
  BY DEF IInv, TypeOK
<1>4. p \in Seq(Keys)
  <2>1. p \in Seq(Past(marker)) /\ Past(marker) \subseteq Keys
    BY <1>1, <1>3, PageProperties DEF Past
  <2> QED
    BY <2>1, SeqMonotonic
<1> HIDE DEF p
<1>5. /\ Len(objects') = Len(objects) + Len(p) /\ Len(objects) \in Nat /\ Len(p) \in Nat
      /\ objects' \in Seq(Keys)
      /\ \A i \in 1 .. Len(p) : objects'[Len(objects) + i] = p[i]
  <2>1. \A i \in 1 .. Len(p) :
          /\ Len(objects) + i \in 1 .. Len(objects) + Len(p)
          /\ Len(objects) + i > Len(objects) /\ Len(objects) + i - Len(objects) = i
    BY <1>3, <1>4
  <2> QED
    BY <1>1, <1>2, <1>3, <1>4, <2>1, ConcatProperties
<1>6. marker' = IF objects' = <<>> THEN 0 ELSE objects'[Len(objects')]
  <2>1. CASE p = <<>>
    BY <1>2, <1>3, <2>1 DEF NextMarker
  <2>2. CASE p # <<>>
    <3>1. Len(p) \in 1 .. Len(p) /\ objects' # <<>>
      BY <1>4, <1>5, <2>2
    <3> QED
      BY <1>2, <1>5, <2>2, <3>1 DEF NextMarker
  <2> QED
    BY <2>1, <2>2
<1>7. TypeOK'
  BY <1>2, <1>5, <1>6 DEF IInv, TypeOK
<1>8. ListedOnce'
  BY <1>1, <1>2 DEF ListedOnce, Increasing
<1> QED
  BY <1>2, <1>7, <1>8 DEF IInv

LEMMA NextIInv == MarkersWhole /\ IInv /\ [Next]_vars => IInv'
<1> SUFFICES ASSUME MarkersWhole, IInv, [Next]_vars PROVE IInv'
  OBVIOUS
<1>1. ASSUME NEW k \in Keys, Create(k) PROVE IInv'
  BY <1>1, ListAssumption DEF Create, IInv, TypeOK, ListedOnce
<1>2. ASSUME NEW k \in Keys, Delete(k) PROVE IInv'
  BY <1>2, ListAssumption DEF Delete, IInv, TypeOK, ListedOnce
<1>3. CASE Call
  BY <1>3 DEF Call, IInv, TypeOK, ListedOnce
<1>4. CASE GetPage
  BY <1>4, GetPageStep
<1>5. CASE RequestFails
  BY <1>5 DEF RequestFails, IInv, TypeOK, ListedOnce
<1>6. CASE UNCHANGED vars
  BY <1>6 DEF vars, IInv, TypeOK, ListedOnce
<1> QED
  BY <1>1, <1>2, <1>3, <1>4, <1>5, <1>6 DEF Next, Returned

LEMMA Safety == ASSUME MarkersWhole PROVE Spec => []IInv
<1>1. IInv /\ [Next]_vars => IInv'
  BY NextIInv
<1> QED
  BY <1>1, InitIInv, PTL DEF Spec

(* The variables keep their types; current_marker is the last key listed.  *)
THEOREM ListTypeOK == ASSUME MarkersWhole PROVE Spec => []TypeOK
  BY Safety, PTL DEF IInv

(* No key is listed twice, in whatever way objects come and go.            *)
THEOREM ListListedOnce == ASSUME MarkersWhole PROVE Spec => []ListedOnce
  BY Safety, PTL DEF IInv

(* The qsort of extractListObjectContent never moves a std::string: what   *)
(* it is given is in order already.                                        *)
THEOREM ListSortMovesNothing == ASSUME MarkersWhole PROVE Spec => SortMovesNothing
<1>1. IInv => [GetPage => objects' = objects \o Page(Asked)]_vars
  <2> SUFFICES ASSUME IInv, GetPage PROVE objects' = objects \o Page(Asked)
    OBVIOUS
  <2> QED
    BY GetPageAppends DEF GetPage
<1> QED
  BY <1>1, Safety, PTL DEF SortMovesNothing

=============================================================================
