----------------------------- MODULE ListProofs -----------------------------
(***************************************************************************)
(* What Keep and Distinct return, for every list. Their recursion, and     *)
(* induction over a list, rest on the least element of a set of naturals.  *)
(***************************************************************************)
EXTENDS Lists, WellFoundedInduction, TLAPS

LEMMA Least ==
  ASSUME NEW T \in SUBSET Nat, T # {}
  PROVE  \E n \in T : \A m \in T : n <= m
<1> DEFINE R == {ss \in Nat \X Nat : ss[1] < ss[2]}
<1>1. IsWellFoundedOn(R, Nat)
  BY NatLessThanWellFounded, Zenon DEF OpToRel
<1>2. \A a, b \in Nat : a < b => <<a, b>> \in R
  OBVIOUS
<1> HIDE DEF R
<1>3. PICK n \in T : \A m \in T : ~(<<m, n>> \in R)
  BY <1>1, WFMin
<1>4. \A m \in T : ~(m < n)
  BY <1>2, <1>3
<1>5. QED
  BY <1>4

LEMMA Induct ==
  ASSUME NEW P, NEW N \in Nat, 0 \in P, \A i \in 1..N : i - 1 \in P => i \in P
  PROVE  \A i \in 0..N : i \in P
<1> DEFINE Bad == {i \in 0..N : i \notin P}
<1>1. SUFFICES ASSUME Bad # {} PROVE FALSE
  OBVIOUS
<1>2. PICK n \in Bad : \A m \in Bad : n <= m
  <2>1. Bad \in SUBSET Nat
    OBVIOUS
  <2> HIDE DEF Bad
  <2>2. QED
    BY <1>1, <2>1, Least
<1>3. n \in 1..N /\ n - 1 \notin Bad
  BY <1>2
<1>4. QED
  BY <1>2, <1>3

LEMMA Iterate ==
  ASSUME NEW V, NEW base \in V, NEW N \in Nat, NEW step \in [1..N -> [V -> V]]
  PROVE  \E f \in [0..N -> V] : f[0] = base /\ \A i \in 1..N : f[i] = step[i][f[i-1]]
<1> DEFINE Good(n) == \E f \in [0..n -> V] : f[0] = base /\ \A i \in 1..n : f[i] = step[i][f[i-1]]
           P == {n \in 0..N : Good(n)}
<1>1. 0 \in P
  <2>1. [i \in 0..0 |-> base] \in [0..0 -> V]
    OBVIOUS
  <2>2. [i \in 0..0 |-> base][0] = base /\ 1..0 = {}
    OBVIOUS
  <2>3. Good(0)
    BY <2>1, <2>2
  <2>4. QED
    BY <2>3
<1>2. ASSUME NEW n \in 1..N, n - 1 \in P PROVE n \in P
  <2>1. PICK g \in [0..(n-1) -> V] : g[0] = base /\ \A i \in 1..(n-1) : g[i] = step[i][g[i-1]]
    BY <1>2
  <2> DEFINE f == [i \in 0..n |-> IF i = n THEN step[n][g[n-1]] ELSE g[i]]
  <2>2. step[n][g[n-1]] \in V
    BY <2>1
  <2>3. f \in [0..n -> V]
    BY <2>1, <2>2
  <2>4. f[0] = base
    BY <2>1
  <2>5. \A i \in 1..n : f[i] = step[i][f[i-1]]
    BY <2>1
  <2>6. Good(n)
    BY <2>3, <2>4, <2>5
  <2>7. QED
    BY <2>6
<1> HIDE DEF P
<1>3. \A i \in 1..N : i - 1 \in P => i \in P
  BY <1>2
<1>4. \A i \in 0..N : i \in P
  BY <1>1, <1>3, Induct
<1>5. QED
  BY <1>4 DEF P

-----------------------------------------------------------------------------
(* Keep                                                                    *)

\* The function that Keep's recursion defines.
KeepStep(list, S, kept) ==
  kept = [i \in 0..Len(list) |->
            IF i = 0 THEN <<>>
            ELSE IF list[i] \in S THEN Append(kept[i-1], list[i]) ELSE kept[i-1]]

\* What it says.
Keeps(list, S, kept) ==
  /\ Keep(list, S) = kept[Len(list)]
  /\ kept[0] = <<>>
  /\ \A i \in 1..Len(list) :
       kept[i] = IF list[i] \in S THEN Append(kept[i-1], list[i]) ELSE kept[i-1]

LEMMA KeepUnfolds ==
  ASSUME NEW T, NEW list \in Seq(T), NEW S
  PROVE  \E kept \in [0..Len(list) -> Seq(T)] : Keeps(list, S, kept)
<1> DEFINE N == Len(list)
           V == Seq(T)
           base == <<>>
           step == [i \in 1..N |-> [x \in V |-> IF list[i] \in S THEN Append(x, list[i]) ELSE x]]
           kept == CHOOSE f : KeepStep(list, S, f)
<1>1. N \in Nat /\ base \in V /\ step \in [1..N -> [V -> V]]
  OBVIOUS
<1>2. \A i \in 1..N : \A x \in V : step[i][x] = IF list[i] \in S THEN Append(x, list[i]) ELSE x
  OBVIOUS
<1>3. PICK f \in [0..N -> V] : f[0] = base /\ \A i \in 1..N : f[i] = step[i][f[i-1]]
  <2> HIDE DEF N, V, base, step
  <2>1. QED
    BY <1>1, Iterate
<1>4. KeepStep(list, S, f)
  <2>1. \A i \in 1..N : i # 0 /\ i - 1 \in 0..N
    BY <1>1
  <2>2. \A i \in 1..N : f[i] = IF list[i] \in S THEN Append(f[i-1], list[i]) ELSE f[i-1]
    <3> HIDE DEF N, V, base, step
    <3>1. QED
      BY <1>2, <1>3, <2>1
  <2>3. \A i \in 0..N : i = 0 \/ i \in 1..N
    BY <1>1
  <2>4. \A i \in 0..N : f[i] = IF i = 0 THEN <<>>
                               ELSE IF list[i] \in S THEN Append(f[i-1], list[i]) ELSE f[i-1]
    BY <1>3, <2>2, <2>3
  <2>5. QED
    BY <1>3, <2>4, Zenon DEF KeepStep
<1>5. KeepStep(list, S, kept)
  BY <1>4
<1>6. Keep(list, S) = kept[N]
  BY Zenon DEF Keep, KeepStep
<1> HIDE DEF kept
<1>7. kept[0] = base
  BY <1>5 DEF KeepStep
<1>8. ASSUME NEW i \in 1..N
      PROVE  kept[i] = IF list[i] \in S THEN Append(kept[i-1], list[i]) ELSE kept[i-1]
  <2>1. i \in 0..Len(list) /\ i # 0
    BY <1>1
  <2>2. QED
    BY <1>5, <2>1, Zenon DEF KeepStep
<1>9. \A i \in 0..N : kept[i] \in V
  <2> DEFINE P == {i \in 0..N : kept[i] \in V}
  <2>1. 0 \in P
    <3>1. 0 \in 0..N
      BY <1>1
    <3> HIDE DEF base, V, N
    <3>2. kept[0] \in V
      BY <1>1, <1>7
    <3>3. QED
      BY <3>1, <3>2
  <2>2. \A i \in 1..N : i - 1 \in P => i \in P
    <3>1. ASSUME NEW i \in 1..N, kept[i-1] \in V PROVE kept[i] \in V
      <4>1. kept[i] = Append(kept[i-1], list[i]) \/ kept[i] = kept[i-1]
        BY <1>8
      <4>2. list[i] \in T
        OBVIOUS
      <4>3. \A x \in V : Append(x, list[i]) \in V
        BY <4>2
      <4> HIDE DEF V
      <4>4. QED
        BY <3>1, <4>1, <4>3
    <3>2. \A i \in 1..N : i \in 0..N
      BY <1>1
    <3>3. QED
      BY <3>1, <3>2
  <2> HIDE DEF P
  <2>3. \A i \in 0..N : i \in P
    BY <1>1, <2>1, <2>2, Induct
  <2>4. QED
    BY <2>3 DEF P
<1>10. kept \in [0..N -> V]
  BY <1>5, <1>9 DEF KeepStep
<1>11. Keeps(list, S, kept)
  BY <1>6, <1>7, <1>8 DEF Keeps
<1>12. QED
  BY <1>10, <1>11

LEMMA ToSetAppend ==
  ASSUME NEW T, NEW list \in Seq(T), NEW x \in T
  PROVE  ToSet(Append(list, x)) = ToSet(list) \cup {x}
<1>1. /\ Len(Append(list, x)) = Len(list) + 1
      /\ Append(list, x)[Len(list) + 1] = x
      /\ \A i \in 1..Len(list) : Append(list, x)[i] = list[i]
  OBVIOUS
<1>2. DOMAIN list = 1..Len(list) /\ DOMAIN Append(list, x) = 1..Len(Append(list, x)) /\ Len(list) \in Nat
  OBVIOUS
<1> DEFINE y == Append(list, x)
<1> HIDE DEF y
<1>3. ASSUME NEW e \in ToSet(y) PROVE e \in ToSet(list) \cup {x}
  BY <1>1, <1>2 DEF ToSet, y
<1>4. ASSUME NEW e \in ToSet(list) PROVE e \in ToSet(y)
  <2>1. PICK i \in DOMAIN list : e = list[i]
    BY DEF ToSet
  <2>2. y[i] = e /\ i \in DOMAIN y
    BY <1>1, <1>2, <2>1 DEF y
  <2>3. QED
    BY <2>2 DEF ToSet
<1>5. x \in ToSet(y)
  <2>1. y[Len(list) + 1] = x /\ Len(list) + 1 \in DOMAIN y
    BY <1>1, <1>2 DEF y
  <2>2. QED
    BY <2>1 DEF ToSet
<1>6. QED
  BY <1>3, <1>4, <1>5 DEF y

LEMMA KeepElements ==
  ASSUME NEW T, NEW list \in Seq(T), NEW S
  PROVE  ToSet(Keep(list, S)) = ToSet(list) \cap S
<1> DEFINE N == Len(list)
           read(i) == {list[j] : j \in 1..i}
<1>0. PICK kept \in [0..N -> Seq(T)] : Keeps(list, S, kept)
  BY KeepUnfolds, Zenon
<1>1. /\ Keep(list, S) = kept[N]
      /\ kept[0] = <<>>
      /\ \A i \in 1..N : kept[i] = IF list[i] \in S THEN Append(kept[i-1], list[i]) ELSE kept[i-1]
  BY <1>0 DEF Keeps
<1>2. N \in Nat /\ DOMAIN list = 1..N
  OBVIOUS
<1> DEFINE P == {i \in 0..N : ToSet(kept[i]) = read(i) \cap S}
<1>3. 0 \in P
  <2>1. ToSet(kept[0]) = {}
    BY <1>1 DEF ToSet
  <2>2. read(0) = {}
    OBVIOUS
  <2>3. QED
    BY <1>2, <2>1, <2>2
<1>4. ASSUME NEW i \in 1..N, i - 1 \in P PROVE i \in P
  <2>1. read(i) = read(i-1) \cup {list[i]}
    <3>1. 1..i = 1..(i-1) \cup {i}
      BY <1>2
    <3>2. QED
      BY <3>1
  <2>2. list[i] \in T /\ kept[i-1] \in Seq(T) /\ i \in 0..N
    BY <1>2
  <2> HIDE DEF N, read
  <2>3. ToSet(kept[i-1]) = read(i-1) \cap S
    BY <1>4
  <2>4. CASE list[i] \in S
    <3>1. kept[i] = Append(kept[i-1], list[i])
      BY <1>1, <2>4
    <3>2. ToSet(kept[i]) = ToSet(kept[i-1]) \cup {list[i]}
      BY <2>2, <3>1, ToSetAppend
    <3>3. QED
      BY <2>1, <2>2, <2>3, <2>4, <3>2
  <2>5. CASE list[i] \notin S
    <3>1. kept[i] = kept[i-1]
      BY <1>1, <2>5
    <3>2. QED
      BY <2>1, <2>2, <2>3, <2>5, <3>1
  <2>6. QED
    BY <2>4, <2>5
<1>5. \A i \in 1..N : i - 1 \in P => i \in P
  BY <1>4
<1>6. ToSet(list) = read(N)
  BY <1>2 DEF ToSet
<1> HIDE DEF P
<1>7. \A i \in 0..N : i \in P
  BY <1>2, <1>3, <1>5, Induct
<1>8. N \in P
  BY <1>2, <1>7
<1>9. QED
  BY <1>1, <1>6, <1>8 DEF P

LEMMA KeepType ==
  ASSUME NEW T, NEW list \in Seq(T), NEW S
  PROVE  Keep(list, S) \in Seq(T \cap S)
<1>1. Keep(list, S) \in Seq(T)
  <2>1. PICK kept \in [0..Len(list) -> Seq(T)] : Keeps(list, S, kept)
    BY KeepUnfolds, Zenon
  <2>2. Len(list) \in 0..Len(list)
    OBVIOUS
  <2>3. QED
    BY <2>1, <2>2 DEF Keeps
<1>2. \A i \in DOMAIN Keep(list, S) : Keep(list, S)[i] \in S
  BY KeepElements DEF ToSet
<1> DEFINE x == Keep(list, S)
<1> HIDE DEF x
<1>3. x \in Seq(T \cap S)
  BY <1>1, <1>2 DEF x
<1>4. QED
  BY <1>3 DEF x

-----------------------------------------------------------------------------
(* Distinct                                                                *)

\* The function that Distinct's recursion defines.
DistinctStep(list, seen) ==
  seen = [i \in 0..Len(list) |->
            IF i = 0 THEN <<>>
            ELSE IF list[i] \in ToSet(seen[i-1]) THEN seen[i-1] ELSE Append(seen[i-1], list[i])]

\* What it says.
Mentions(list, seen) ==
  /\ Distinct(list) = seen[Len(list)]
  /\ seen[0] = <<>>
  /\ \A i \in 1..Len(list) :
       seen[i] = IF list[i] \in ToSet(seen[i-1]) THEN seen[i-1] ELSE Append(seen[i-1], list[i])

LEMMA DistinctUnfolds ==
  ASSUME NEW T, NEW list \in Seq(T)
  PROVE  \E seen \in [0..Len(list) -> Seq(T)] : Mentions(list, seen)
<1> DEFINE N == Len(list)
           V == Seq(T)
           base == <<>>
           step == [i \in 1..N |-> [x \in V |-> IF list[i] \in ToSet(x) THEN x ELSE Append(x, list[i])]]
           seen == CHOOSE f : DistinctStep(list, f)
<1>1. N \in Nat /\ base \in V /\ step \in [1..N -> [V -> V]]
  OBVIOUS
<1>2. \A i \in 1..N : \A x \in V : step[i][x] = IF list[i] \in ToSet(x) THEN x ELSE Append(x, list[i])
  OBVIOUS
<1>3. PICK f \in [0..N -> V] : f[0] = base /\ \A i \in 1..N : f[i] = step[i][f[i-1]]
  <2> HIDE DEF N, V, base, step
  <2>1. QED
    BY <1>1, Iterate
<1>4. DistinctStep(list, f)
  <2>1. \A i \in 1..N : i # 0 /\ i - 1 \in 0..N
    BY <1>1
  <2>2. \A i \in 1..N : f[i] = IF list[i] \in ToSet(f[i-1]) THEN f[i-1] ELSE Append(f[i-1], list[i])
    <3> HIDE DEF N, V, base, step
    <3>1. QED
      BY <1>2, <1>3, <2>1
  <2>3. \A i \in 0..N : i = 0 \/ i \in 1..N
    BY <1>1
  <2>4. \A i \in 0..N : f[i] = IF i = 0 THEN <<>>
                               ELSE IF list[i] \in ToSet(f[i-1]) THEN f[i-1] ELSE Append(f[i-1], list[i])
    BY <1>3, <2>2, <2>3
  <2>5. QED
    BY <1>3, <2>4, Zenon DEF DistinctStep
<1>5. DistinctStep(list, seen)
  BY <1>4
<1>6. Distinct(list) = seen[N]
  BY Zenon DEF Distinct, DistinctStep
<1> HIDE DEF seen
<1>7. seen[0] = base
  BY <1>5 DEF DistinctStep
<1>8. ASSUME NEW i \in 1..N
      PROVE  seen[i] = IF list[i] \in ToSet(seen[i-1]) THEN seen[i-1] ELSE Append(seen[i-1], list[i])
  <2>1. i \in 0..Len(list) /\ i # 0
    BY <1>1
  <2>2. QED
    BY <1>5, <2>1, Zenon DEF DistinctStep
<1>9. \A i \in 0..N : seen[i] \in V
  <2> DEFINE P == {i \in 0..N : seen[i] \in V}
  <2>1. 0 \in P
    <3>1. 0 \in 0..N
      BY <1>1
    <3> HIDE DEF base, V, N
    <3>2. seen[0] \in V
      BY <1>1, <1>7
    <3>3. QED
      BY <3>1, <3>2
  <2>2. \A i \in 1..N : i - 1 \in P => i \in P
    <3>1. ASSUME NEW i \in 1..N, seen[i-1] \in V PROVE seen[i] \in V
      <4>1. seen[i] = Append(seen[i-1], list[i]) \/ seen[i] = seen[i-1]
        BY <1>8
      <4>2. list[i] \in T
        OBVIOUS
      <4>3. \A x \in V : Append(x, list[i]) \in V
        BY <4>2
      <4> HIDE DEF V
      <4>4. QED
        BY <3>1, <4>1, <4>3
    <3>2. \A i \in 1..N : i \in 0..N
      BY <1>1
    <3>3. QED
      BY <3>1, <3>2
  <2> HIDE DEF P
  <2>3. \A i \in 0..N : i \in P
    BY <1>1, <2>1, <2>2, Induct
  <2>4. QED
    BY <2>3 DEF P
<1>10. seen \in [0..N -> V]
  BY <1>5, <1>9 DEF DistinctStep
<1>11. Mentions(list, seen)
  BY <1>6, <1>7, <1>8 DEF Mentions
<1>12. QED
  BY <1>10, <1>11

LEMMA DistinctElements ==
  ASSUME NEW T, NEW list \in Seq(T)
  PROVE  Distinct(list) \in Seq(T) /\ ToSet(Distinct(list)) = ToSet(list)
<1> DEFINE N == Len(list)
           read(i) == {list[j] : j \in 1..i}
<1>0. PICK seen \in [0..N -> Seq(T)] : Mentions(list, seen)
  BY DistinctUnfolds, Zenon
<1>1. /\ Distinct(list) = seen[N]
      /\ seen[0] = <<>>
      /\ \A i \in 1..N : seen[i] = IF list[i] \in ToSet(seen[i-1]) THEN seen[i-1] ELSE Append(seen[i-1], list[i])
  BY <1>0 DEF Mentions
<1>2. N \in Nat /\ DOMAIN list = 1..N
  OBVIOUS
<1> DEFINE P == {i \in 0..N : ToSet(seen[i]) = read(i)}
<1>3. 0 \in P
  <2>1. ToSet(seen[0]) = {}
    BY <1>1 DEF ToSet
  <2>2. read(0) = {}
    OBVIOUS
  <2>3. QED
    BY <1>2, <2>1, <2>2
<1>4. ASSUME NEW i \in 1..N, i - 1 \in P PROVE i \in P
  <2>1. read(i) = read(i-1) \cup {list[i]}
    <3>1. 1..i = 1..(i-1) \cup {i}
      BY <1>2
    <3>2. QED
      BY <3>1
  <2>2. list[i] \in T /\ seen[i-1] \in Seq(T) /\ i \in 0..N
    BY <1>2
  <2> HIDE DEF N, read
  <2>3. ToSet(seen[i-1]) = read(i-1)
    BY <1>4
  <2>4. CASE list[i] \notin ToSet(seen[i-1])
    <3>1. seen[i] = Append(seen[i-1], list[i])
      BY <1>1, <2>4
    <3>2. ToSet(seen[i]) = ToSet(seen[i-1]) \cup {list[i]}
      BY <2>2, <3>1, ToSetAppend
    <3>3. QED
      BY <2>1, <2>2, <2>3, <3>2
  <2>5. CASE list[i] \in ToSet(seen[i-1])
    <3>1. seen[i] = seen[i-1]
      BY <1>1, <2>5
    <3>2. QED
      BY <2>1, <2>2, <2>3, <2>5, <3>1
  <2>6. QED
    BY <2>4, <2>5
<1>5. \A i \in 1..N : i - 1 \in P => i \in P
  BY <1>4
<1>6. ToSet(list) = read(N)
  BY <1>2 DEF ToSet
<1> HIDE DEF P
<1>7. \A i \in 0..N : i \in P
  BY <1>2, <1>3, <1>5, Induct
<1>8. N \in P
  BY <1>2, <1>7
<1>9. QED
  BY <1>1, <1>2, <1>6, <1>8 DEF P

-----------------------------------------------------------------------------
(* Lists without repetition.                                               *)

Once(list) == \A i, j \in DOMAIN list : list[i] = list[j] => i = j

LEMMA OnceAppend ==
  ASSUME NEW T, NEW list \in Seq(T), NEW x \in T, Once(list), x \notin ToSet(list)
  PROVE  Once(Append(list, x))
<1> DEFINE y == Append(list, x)
<1>1. /\ Len(list) \in Nat /\ DOMAIN list = 1..Len(list)
      /\ DOMAIN y = 1..(Len(list) + 1)
      /\ y[Len(list) + 1] = x
      /\ \A i \in 1..Len(list) : y[i] = list[i]
  OBVIOUS
<1> HIDE DEF y
<1>2. ASSUME NEW i \in DOMAIN y, NEW j \in DOMAIN y, y[i] = y[j] PROVE i = j
  <2>1. CASE i \in 1..Len(list) /\ j \in 1..Len(list)
    BY <1>1, <1>2, <2>1 DEF Once
  <2>2. CASE i \in 1..Len(list) /\ j = Len(list) + 1
    BY <1>1, <1>2, <2>2 DEF ToSet
  <2>3. CASE j \in 1..Len(list) /\ i = Len(list) + 1
    BY <1>1, <1>2, <2>3 DEF ToSet
  <2>4. QED
    BY <1>1, <2>1, <2>2, <2>3
<1>3. QED
  BY <1>2 DEF Once, y

LEMMA DistinctOnce ==
  ASSUME NEW T, NEW list \in Seq(T)
  PROVE  Once(Distinct(list))
<1> DEFINE N == Len(list)
<1>0. PICK seen \in [0..N -> Seq(T)] : Mentions(list, seen)
  BY DistinctUnfolds, Zenon
<1>1. /\ Distinct(list) = seen[N]
      /\ seen[0] = <<>>
      /\ \A i \in 1..N : seen[i] = IF list[i] \in ToSet(seen[i-1]) THEN seen[i-1] ELSE Append(seen[i-1], list[i])
  BY <1>0 DEF Mentions
<1>2. N \in Nat /\ DOMAIN list = 1..N
  OBVIOUS
<1> DEFINE P == {i \in 0..N : Once(seen[i])}
<1>3. 0 \in P
  BY <1>1, <1>2 DEF Once
<1>4. ASSUME NEW i \in 1..N, i - 1 \in P PROVE i \in P
  <2>1. list[i] \in T /\ seen[i-1] \in Seq(T) /\ i \in 0..N /\ Once(seen[i-1])
    BY <1>2, <1>4
  <2> HIDE DEF N
  <2>2. Once(seen[i])
    BY <1>1, <2>1, OnceAppend
  <2>3. QED
    BY <2>1, <2>2
<1>5. \A i \in 1..N : i - 1 \in P => i \in P
  BY <1>4
<1> HIDE DEF P
<1>6. \A i \in 0..N : i \in P
  BY <1>2, <1>3, <1>5, Induct
<1>7. N \in P
  BY <1>2, <1>6
<1>8. QED
  BY <1>1, <1>7 DEF P

LEMMA DistinctSame ==
  ASSUME NEW T, NEW list \in Seq(T), Once(list)
  PROVE  Distinct(list) = list
<1> DEFINE N == Len(list)
<1>0. PICK seen \in [0..N -> Seq(T)] : Mentions(list, seen)
  BY DistinctUnfolds, Zenon
<1>1. /\ Distinct(list) = seen[N]
      /\ seen[0] = <<>>
      /\ \A i \in 1..N : seen[i] = IF list[i] \in ToSet(seen[i-1]) THEN seen[i-1] ELSE Append(seen[i-1], list[i])
  BY <1>0 DEF Mentions
<1>2. N \in Nat /\ DOMAIN list = 1..N
  OBVIOUS
<1> DEFINE P == {i \in 0..N : Len(seen[i]) = i /\ \A j \in 1..i : seen[i][j] = list[j]}
<1>3. 0 \in P
  BY <1>1, <1>2
<1>4. ASSUME NEW i \in 1..N, i - 1 \in P PROVE i \in P
  <2>1. list[i] \in T /\ seen[i-1] \in Seq(T) /\ i \in 0..N /\ i \in Nat \ {0}
    BY <1>2
  <2>2. Len(seen[i-1]) = i - 1 /\ \A j \in 1..(i-1) : seen[i-1][j] = list[j]
    BY <1>4
  <2>3. list[i] \notin ToSet(seen[i-1])
    <3>1. DOMAIN seen[i-1] = 1..(i-1)
      BY <2>1, <2>2
    <3>2. SUFFICES ASSUME NEW j \in 1..(i-1), seen[i-1][j] = list[i] PROVE FALSE
      BY <3>1 DEF ToSet
    <3>3. list[j] = list[i] /\ j \in DOMAIN list /\ i \in DOMAIN list /\ i # j
      BY <1>2, <2>2, <3>2
    <3>4. QED
      BY <3>3 DEF Once
  <2>4. seen[i] = Append(seen[i-1], list[i])
    BY <1>1, <2>3
  <2>5. Len(seen[i]) = i
    BY <2>1, <2>2, <2>4
  <2>6. \A j \in 1..i : seen[i][j] = list[j]
    BY <2>1, <2>2, <2>4
  <2>7. QED
    BY <2>1, <2>5, <2>6
<1>5. \A i \in 1..N : i - 1 \in P => i \in P
  BY <1>4
<1> HIDE DEF P
<1>6. \A i \in 0..N : i \in P
  BY <1>2, <1>3, <1>5, Induct
<1>7. N \in P
  BY <1>2, <1>6
<1>8. seen[N] \in Seq(T) /\ Len(seen[N]) = N /\ \A j \in 1..N : seen[N][j] = list[j]
  BY <1>2, <1>7 DEF P
<1>9. seen[N] = list
  BY <1>8
<1>10. QED
  BY <1>1, <1>9

LEMMA KeepOnce ==
  ASSUME NEW T, NEW list \in Seq(T), NEW S, Once(list)
  PROVE  Once(Keep(list, S))
<1> DEFINE N == Len(list)
           read(i) == {list[j] : j \in 1..i}
<1>0. PICK kept \in [0..N -> Seq(T)] : Keeps(list, S, kept)
  BY KeepUnfolds, Zenon
<1>1. /\ Keep(list, S) = kept[N]
      /\ kept[0] = <<>>
      /\ \A i \in 1..N : kept[i] = IF list[i] \in S THEN Append(kept[i-1], list[i]) ELSE kept[i-1]
  BY <1>0 DEF Keeps
<1>2. N \in Nat /\ DOMAIN list = 1..N
  OBVIOUS
<1> DEFINE P == {i \in 0..N : Once(kept[i]) /\ ToSet(kept[i]) \subseteq read(i)}
<1>3. 0 \in P
  BY <1>1, <1>2 DEF Once, ToSet
<1>4. ASSUME NEW i \in 1..N, i - 1 \in P PROVE i \in P
  <2>1. read(i) = read(i-1) \cup {list[i]}
    <3>1. 1..i = 1..(i-1) \cup {i}
      BY <1>2
    <3>2. QED
      BY <3>1
  <2>2. list[i] \notin read(i-1)
    <3>1. ASSUME NEW j \in 1..(i-1), list[j] = list[i] PROVE FALSE
      <4>1. i \in DOMAIN list /\ j \in DOMAIN list /\ i # j
        BY <1>2
      <4>2. QED
        BY <3>1, <4>1 DEF Once
    <3>2. QED
      BY <3>1
  <2>3. list[i] \in T /\ kept[i-1] \in Seq(T) /\ i \in 0..N
    BY <1>2
  <2> HIDE DEF N, read
  <2>4. Once(kept[i-1]) /\ ToSet(kept[i-1]) \subseteq read(i-1)
    BY <1>4
  <2>5. CASE list[i] \in S
    <3>1. kept[i] = Append(kept[i-1], list[i])
      BY <1>1, <2>5
    <3>2. Once(kept[i])
      BY <2>2, <2>3, <2>4, <3>1, OnceAppend
    <3>3. ToSet(kept[i]) = ToSet(kept[i-1]) \cup {list[i]}
      BY <2>3, <3>1, ToSetAppend
    <3>4. QED
      BY <2>1, <2>3, <2>4, <3>2, <3>3
  <2>6. CASE list[i] \notin S
    <3>1. kept[i] = kept[i-1]
      BY <1>1, <2>6
    <3>2. QED
      BY <2>1, <2>3, <2>4, <3>1
  <2>7. QED
    BY <2>5, <2>6
<1>5. \A i \in 1..N : i - 1 \in P => i \in P
  BY <1>4
<1> HIDE DEF P
<1>6. \A i \in 0..N : i \in P
  BY <1>2, <1>3, <1>5, Induct
<1>7. N \in P
  BY <1>2, <1>6
<1>8. QED
  BY <1>1, <1>7 DEF P

-----------------------------------------------------------------------------
(* Keep of a longer list                                                   *)

LEMMA KeepAppend ==
  ASSUME NEW T, NEW list \in Seq(T), NEW S, NEW x \in T
  PROVE  Keep(Append(list, x), S) = IF x \in S THEN Append(Keep(list, S), x) ELSE Keep(list, S)
<1> DEFINE N == Len(list)
           longer == Append(list, x)
<1>1. /\ N \in Nat /\ longer \in Seq(T) /\ Len(longer) = N + 1 /\ longer[N + 1] = x
      /\ \A i \in 1..N : longer[i] = list[i]
  OBVIOUS
<1>2. PICK k1 \in [0..N -> Seq(T)] : Keeps(list, S, k1)
  BY KeepUnfolds, Zenon
<1> HIDE DEF longer
<1>3. PICK k2 \in [0..Len(longer) -> Seq(T)] : Keeps(longer, S, k2)
  BY <1>1, KeepUnfolds, Zenon
<1>4. /\ Keep(list, S) = k1[N] /\ k1[0] = <<>>
      /\ \A i \in 1..N : k1[i] = IF list[i] \in S THEN Append(k1[i-1], list[i]) ELSE k1[i-1]
  BY <1>2 DEF Keeps
<1>5. /\ Keep(longer, S) = k2[N + 1] /\ k2[0] = <<>>
      /\ \A i \in 1..(N + 1) : k2[i] = IF longer[i] \in S THEN Append(k2[i-1], longer[i]) ELSE k2[i-1]
  BY <1>1, <1>3 DEF Keeps
<1> DEFINE P == {i \in 0..N : k2[i] = k1[i]}
<1>6. 0 \in P
  BY <1>1, <1>4, <1>5
<1>7. \A i \in 1..N : i - 1 \in P => i \in P
  <2>1. ASSUME NEW i \in 1..N, k2[i-1] = k1[i-1] PROVE k2[i] = k1[i] /\ i \in 0..N
    <3>1. i \in 1..(N + 1) /\ i \in 0..N /\ longer[i] = list[i]
      BY <1>1
    <3>2. k2[i] = IF longer[i] \in S THEN Append(k2[i-1], longer[i]) ELSE k2[i-1]
      BY <1>5, <3>1
    <3>3. k1[i] = IF list[i] \in S THEN Append(k1[i-1], list[i]) ELSE k1[i-1]
      BY <1>4
    <3>4. QED
      BY <2>1, <3>1, <3>2, <3>3
  <2>2. QED
    BY <2>1
<1> HIDE DEF P
<1>8. \A i \in 0..N : i \in P
  BY <1>1, <1>6, <1>7, Induct
<1>9. k2[N] = k1[N]
  <2>1. N \in 0..N
    BY <1>1
  <2>2. QED
    BY <1>8, <2>1 DEF P
<1>10. k2[N + 1] = IF x \in S THEN Append(k2[N], x) ELSE k2[N]
  <2>1. N + 1 \in 1..(N + 1) /\ (N + 1) - 1 = N
    BY <1>1
  <2>2. k2[N + 1] = IF longer[N + 1] \in S THEN Append(k2[(N + 1) - 1], longer[N + 1]) ELSE k2[(N + 1) - 1]
    BY <1>5, <2>1
  <2>3. QED
    BY <1>1, <2>1, <2>2
<1>11. QED
  BY <1>4, <1>5, <1>9, <1>10 DEF longer

LEMMA KeepNone ==
  ASSUME NEW T, NEW list \in Seq(T), NEW S, T \cap S = {}
  PROVE  Keep(list, S) = <<>>
<1> DEFINE k == Keep(list, S)
<1>1. k \in Seq({})
  BY KeepType
<1> HIDE DEF k
<1>2. k = <<>>
  BY <1>1
<1>3. QED
  BY <1>2 DEF k

LEMMA KeepIsList ==
  ASSUME NEW T, NEW list \in Seq(T), NEW S
  PROVE  Keep(list, S) \in Seq(T)
<1> DEFINE k == Keep(list, S)
<1>1. k \in Seq(T \cap S)
  BY KeepType
<1>2. T \cap S \subseteq T
  OBVIOUS
<1> HIDE DEF k
<1>3. k \in Seq(T)
  BY <1>1, <1>2
<1>4. QED
  BY <1>3 DEF k

Splits(x, y, S) == Keep(x \o y, S) = Keep(x, S) \o Keep(y, S)

LEMMA KeepConcatAppend ==
  ASSUME NEW T, NEW x \in Seq(T), NEW p \in Seq(T), NEW e \in T, NEW S,
         Splits(x, p, S)
  PROVE  Splits(x, Append(p, e), S)
<1>1. PICK xp : xp = x \o p
  OBVIOUS
<1>2. PICK kx : kx = Keep(x, S)
  OBVIOUS
<1>3. PICK kp : kp = Keep(p, S)
  OBVIOUS
<1>4. xp \in Seq(T) /\ x \o Append(p, e) = Append(xp, e)
  BY <1>1
<1>5. kx \in Seq(T) /\ kp \in Seq(T)
  BY <1>2, <1>3, KeepIsList
<1>6. Keep(Append(p, e), S) = IF e \in S THEN Append(kp, e) ELSE kp
  BY <1>3, KeepAppend
<1>7. Keep(Append(xp, e), S) = IF e \in S THEN Append(kx \o kp, e) ELSE kx \o kp
  <2>1. Keep(Append(xp, e), S) = IF e \in S THEN Append(Keep(xp, S), e) ELSE Keep(xp, S)
    BY <1>4, KeepAppend
  <2>2. Keep(xp, S) = kx \o kp
    BY <1>1, <1>2, <1>3 DEF Splits
  <2>3. QED
    BY <2>1, <2>2
<1>8. kx \o Append(kp, e) = Append(kx \o kp, e)
  BY <1>5
<1>9. QED
  BY <1>2, <1>4, <1>6, <1>7, <1>8 DEF Splits

LEMMA KeepConcat ==
  ASSUME NEW T, NEW x \in Seq(T), NEW y \in Seq(T), NEW S
  PROVE  Splits(x, y, S)
<1> DEFINE N == Len(y)
           part(i) == SubSeq(y, 1, i)
           kx == Keep(x, S)
           P == {i \in 0..N : Keep(x \o part(i), S) = kx \o Keep(part(i), S)}
<1>1. N \in Nat /\ part(N) = y /\ part(0) = <<>> /\ \A i \in 0..N : part(i) \in Seq(T)
  OBVIOUS
<1>2. kx \in Seq(T)
  BY KeepIsList
<1>3. 0 \in P
  <2>1. x \o part(0) = x /\ part(0) = <<>> /\ <<>> \in Seq(T)
    BY <1>1
  <2>2. Keep(<<>>, S) = <<>>
    <3>1. <<>> \in Seq({}) /\ {} \cap S = {}
      OBVIOUS
    <3>2. QED
      BY <3>1, KeepNone
  <2>6. kx \o <<>> = kx
    <3> HIDE DEF kx
    <3>1. QED
      BY <1>2
  <2>7. Keep(x \o part(0), S) = kx \o Keep(part(0), S)
    BY <2>1, <2>2, <2>6
  <2>8. 0 \in 0..N
    BY <1>1
  <2>9. QED
    BY <2>7, <2>8
<1>4. ASSUME NEW i \in 1..N, i - 1 \in P PROVE i \in P
  <2> DEFINE p == part(i - 1)
             e == y[i]
  <2>1. part(i) = Append(p, e) /\ p \in Seq(T) /\ e \in T /\ i \in 0..N
    OBVIOUS
  <2>2. Splits(x, p, S)
    BY <1>4 DEF Splits
  <2> HIDE DEF p, e
  <2>3. Splits(x, Append(p, e), S)
    BY <2>1, <2>2, KeepConcatAppend
  <2>4. Keep(x \o part(i), S) = kx \o Keep(part(i), S)
    BY <2>1, <2>3 DEF Splits
  <2>5. QED
    BY <2>1, <2>4
<1>5. \A i \in 1..N : i - 1 \in P => i \in P
  BY <1>4
<1>6. \A i \in 0..N : i \in P
  <2> HIDE DEF P
  <2>1. QED
    BY <1>1, <1>3, <1>5, Induct
<1>7. N \in P
  <2>1. N \in 0..N
    BY <1>1
  <2>2. QED
    BY <1>6, <2>1
<1>8. QED
  BY <1>1, <1>7 DEF Splits

-----------------------------------------------------------------------------
(* FlattenSeq                                                              *)


Lists(T) == Seq(Seq(T))

LEMMA EmptyConcat ==
  ASSUME NEW T, NEW s \in Seq(T)
  PROVE  <<>> \o s = s
<1> DEFINE x == <<>> \o s
<1>1. x \in Seq(T) /\ Len(x) = Len(s) /\ \A i \in 1..Len(s) : x[i] = s[i]
  OBVIOUS
<1> HIDE DEF x
<1>2. x = s
  BY <1>1
<1> QED
  BY <1>2 DEF x

\* The function that FlattenSeq's recursion defines.
FlattenStep(seqs, flat) ==
  flat = [i \in 1..Len(seqs) |-> IF i = 1 THEN seqs[i] ELSE flat[i-1] \o seqs[i]]

\* What it says.
Flattens(seqs, flat) ==
  /\ FlattenSeq(seqs) = flat[Len(seqs)]
  /\ flat[1] = seqs[1]
  /\ \A i \in 2..Len(seqs) : flat[i] = flat[i-1] \o seqs[i]

LEMMA ConcatUnfolds ==
  ASSUME NEW T, NEW seqs \in Lists(T)
  PROVE  \E g \in [0..Len(seqs) -> Seq(T)] :
            g[0] = <<>> /\ \A i \in 1..Len(seqs) : g[i] = g[i-1] \o seqs[i]
<1> DEFINE N == Len(seqs)
           V == Seq(T)
           base == <<>>
           step == [i \in 1..N |-> [x \in V |-> x \o seqs[i]]]
<1>1. ASSUME NEW i \in 1..N PROVE [x \in V |-> x \o seqs[i]] \in [V -> V]
  <2>1. seqs[i] \in V
    BY DEF Lists
  <2>2. \A x \in V : x \o seqs[i] \in V
    BY <2>1
  <2> QED
    BY <2>2, Zenon
<1>2. N \in Nat /\ base \in V
  BY DEF Lists
<1>3. step \in [1..N -> [V -> V]]
  BY <1>1, Zenon
<1>4. \A i \in 1..N : \A x \in V : step[i][x] = x \o seqs[i]
  BY Zenon
<1> HIDE DEF N, V, base, step
<1>5. PICK g \in [0..N -> V] : g[0] = base /\ \A i \in 1..N : g[i] = step[i][g[i-1]]
  BY <1>2, <1>3, Iterate
<1>6. ASSUME NEW i \in 1..N PROVE g[i] = g[i-1] \o seqs[i]
  <2>1. i - 1 \in 0..N
    BY <1>2
  <2> QED
    BY <1>4, <1>5, <2>1, Zenon
<1> QED
  BY <1>5, <1>6, Zenon DEF N, V, base

LEMMA FlattenUnfolds ==
  ASSUME NEW T, NEW seqs \in Lists(T), Len(seqs) # 0
  PROVE  \E flat \in [1..Len(seqs) -> Seq(T)] : Flattens(seqs, flat)
<1> DEFINE N == Len(seqs)
           V == Seq(T)
           flat == CHOOSE f : FlattenStep(seqs, f)
<1>1. N \in Nat /\ N # 0 /\ 1 \in 1..N
  BY DEF Lists
<1>3. PICK g \in [0..N -> V] : g[0] = <<>> /\ \A i \in 1..N : g[i] = g[i-1] \o seqs[i]
  BY ConcatUnfolds, Zenon
<1> DEFINE f == [i \in 1..N |-> g[i]]
<1>4. f[1] = seqs[1]
  <2>1. g[1] = g[1-1] \o seqs[1]
    BY <1>1, <1>3, Zenon
  <2>2. 1 - 1 = 0
    OBVIOUS
  <2>3. seqs[1] \in V
    BY <1>1 DEF Lists
  <2>4. <<>> \o seqs[1] = seqs[1]
    BY <2>3, EmptyConcat, Zenon
  <2>5. g[1] = seqs[1]
    BY <1>3, <2>1, <2>2, <2>4, Zenon
  <2> QED
    BY <1>1, <2>5, Zenon
<1>5. ASSUME NEW i \in 1..N, i # 1 PROVE f[i] = f[i-1] \o seqs[i]
  <2>1. i - 1 \in 1..N /\ i - 1 \in 0..N
    BY <1>1, <1>5
  <2> QED
    BY <1>3, <2>1, Zenon
<1>6. FlattenStep(seqs, f)
  <2> HIDE DEF f
  <2>1. f = [i \in 1..N |-> f[i]]
    BY Zenon DEF f
  <2>2. \A i \in 1..N : f[i] = IF i = 1 THEN seqs[i] ELSE f[i-1] \o seqs[i]
    BY <1>4, <1>5, Zenon
  <2> QED
    BY <2>1, <2>2, Zenon DEF FlattenStep
<1>7. FlattenStep(seqs, flat)
  BY <1>6, Zenon
<1>8. FlattenSeq(seqs) = flat[N]
  <2>1. Len(seqs) # 0
    BY <1>1
  <2> QED
    BY <2>1, Zenon DEF FlattenSeq, FlattenStep
<1> HIDE DEF flat, f
<1>9. flat[1] = seqs[1]
  <2>1. 1 \in 1..N
    BY <1>1
  <2> QED
    BY <1>7, <2>1, Zenon DEF FlattenStep
<1>10. ASSUME NEW i \in 2..N PROVE flat[i] = flat[i-1] \o seqs[i]
  <2>1. i \in 1..N /\ i # 1
    BY <1>1
  <2> QED
    BY <1>7, <2>1, Zenon DEF FlattenStep
<1>11. \A i \in 1..N : flat[i] \in V
  <2> DEFINE P == {i \in 0..N : i = 0 \/ flat[i] \in V}
  <2>1. 0 \in P
    BY <1>1
  <2>2. ASSUME NEW i \in 1..N, i - 1 \in P PROVE i \in P
    <3>1. seqs[i] \in V
      BY DEF Lists
    <3>2. CASE i = 1
      BY <1>9, <3>1, <3>2
    <3>3. CASE i # 1
      <4>1. i \in 2..N /\ i - 1 # 0 /\ i \in 0..N
        BY <1>1, <3>3
      <4>2. flat[i] = flat[i-1] \o seqs[i]
        BY <1>10, <4>1
      <4>3. flat[i-1] \in V
        BY <2>2, <4>1
      <4>4. flat[i-1] \o seqs[i] \in V
        BY <3>1, <4>3
      <4> QED
        BY <4>1, <4>2, <4>4, Zenon
    <3> QED
      BY <3>2, <3>3
  <2>3. \A i \in 1..N : i - 1 \in P => i \in P
    BY <2>2
  <2> HIDE DEF P
  <2>4. \A i \in 0..N : i \in P
    BY <1>1, <2>1, <2>3, Induct
  <2>5. \A i \in 1..N : i \in 0..N /\ i # 0
    BY <1>1
  <2> QED
    BY <2>4, <2>5, Zenon DEF P
<1>12. flat \in [1..N -> V]
  <2>1. flat = [i \in 1..N |-> IF i = 1 THEN seqs[i] ELSE flat[i-1] \o seqs[i]]
    BY <1>7, Zenon DEF FlattenStep
  <2>2. flat = [i \in 1..N |-> flat[i]]
    BY <2>1, Zenon
  <2> QED
    BY <1>11, <2>2, Zenon
<1>13. Flattens(seqs, flat)
  BY <1>8, <1>9, <1>10, Zenon DEF Flattens
<1> QED
  BY <1>12, <1>13, Zenon
=============================================================================
