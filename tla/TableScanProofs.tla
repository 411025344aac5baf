--------------------------- MODULE TableScanProofs --------------------------
(***************************************************************************)
(* What holds of the engine's walk for every number of files, snapshots    *)
(* and versions and every difference of the two clocks.                    *)
(***************************************************************************)
EXTENDS TableScan, IcebergTableProofs, FiniteSetTheorems, WellFoundedInduction, TLAPS

(* A set of naturals has a least element.                                  *)
LEMMA LeastNatural ==
    ASSUME NEW T \in SUBSET Nat, T # {}
    PROVE  \E x \in T : \A y \in T : x <= y
  <1>1. PICK x \in T : \A y \in T : ~ (<<y, x>> \in OpToRel(<, Nat))
    BY NatLessThanWellFounded, WFMin
  <1>2. \A y \in T : ~ (y < x)
    BY <1>1 DEF OpToRel
  <1>3. QED
    BY <1>2

(* Induction along a range, for a set that is given.                       *)
LEMMA Upwards ==
    ASSUME NEW n \in Nat, NEW T, 0 \in T, \A k \in 1..n : k - 1 \in T => k \in T
    PROVE  0..n \subseteq T
  <1> DEFINE bad == {k \in 0..n : k \notin T}
  <1> SUFFICES ASSUME bad # {}
               PROVE  FALSE
    OBVIOUS
  <1>1. PICK x \in bad : \A y \in bad : x <= y
    <2>1. bad \in SUBSET Nat
      OBVIOUS
    <2>2. QED
      BY <2>1, LeastNatural
  <1>2. x \in 1..n
    BY <1>1
  <1>3. x - 1 \in 0..n /\ ~ (x <= x - 1)
    BY <1>2
  <1>4. x - 1 \in T
    BY <1>1, <1>3
  <1>5. QED
    BY <1>1, <1>2, <1>4

(* A loop over a range has a result: the states of its one variable before *)
(* the first and after every turn are a function.                          *)
LEMMA LoopExists ==
    ASSUME NEW n \in Nat, NEW turn \in [1..n -> [Nat -> Nat]]
    PROVE  \E f \in [0..n -> Nat] : f[0] = 0 /\ \A k \in 1..n : f[k] = turn[k][f[k - 1]]
  <1> DEFINE Upto(m, f) == f[0] = 0 /\ \A k \in 1..m : f[k] = turn[k][f[k - 1]]
             T == {m \in 0..n : \E f \in [0..n -> Nat] : Upto(m, f)}
  <1>1. 0 \in T
    <2>1. [k \in 0..n |-> 0] \in [0..n -> Nat] /\ Upto(0, [k \in 0..n |-> 0])
      OBVIOUS
    <2>2. 0 \in 0..n
      OBVIOUS
    <2>3. QED
      BY <2>1, <2>2
  <1>2. ASSUME NEW m \in 1..n, m - 1 \in T
        PROVE  m \in T
    <2>1. PICK f \in [0..n -> Nat] : Upto(m - 1, f)
      BY <1>2
    <2> DEFINE g == [f EXCEPT ![m] = turn[m][f[m - 1]]]
    <2>2. turn[m][f[m - 1]] \in Nat
      <3>1. m - 1 \in 0..n
        OBVIOUS
      <3>2. f[m - 1] \in Nat
        BY <2>1, <3>1
      <3>3. turn[m] \in [Nat -> Nat]
        OBVIOUS
      <3>4. QED
        BY <3>2, <3>3
    <2>3. g \in [0..n -> Nat] /\ g[m] = turn[m][f[m - 1]]
      <3>1. m \in 0..n
        OBVIOUS
      <3>2. QED
        BY <2>1, <2>2, <3>1
    <2>4. \A k \in 0..n : k # m => g[k] = f[k]
      BY <2>1
    <2>5. Upto(m, g)
      <3>1. g[0] = 0
        BY <2>1, <2>4
      <3>2. ASSUME NEW k \in 1..m
            PROVE  g[k] = turn[k][g[k - 1]]
        <4>1. k - 1 # m /\ k - 1 \in 0..n
          OBVIOUS
        <4>2. CASE k = m
          BY <2>3, <2>4, <4>1, <4>2
        <4>3. CASE k # m
          <5>1. k \in 1..(m - 1) /\ k \in 0..n
            BY <4>3
          <5>2. f[k] = turn[k][f[k - 1]]
            BY <2>1, <5>1
          <5>3. QED
            BY <2>4, <4>1, <4>3, <5>1, <5>2
        <4>4. QED
          BY <4>2, <4>3
      <3>3. QED
        BY <3>1, <3>2
    <2>6. m \in 0..n
      OBVIOUS
    <2> HIDE DEF g, Upto
    <2>7. QED
      BY <2>3, <2>5, <2>6
  <1>3. n \in T
    <2> HIDE DEF T
    <2>1. 0..n \subseteq T
      BY <1>1, <1>2, Upwards
    <2>2. QED
      BY <2>1
  <1>4. QED
    BY <1>3

-----------------------------------------------------------------------------
(* Ages.                                                                   *)
LEMMA ExtremesOfSet ==
    ASSUME NEW S \in SUBSET Int, NEW x \in S
    PROVE  /\ (\A y \in S : x <= y) => Min(S) = x
           /\ (\A y \in S : x >= y) => Max(S) = x
  <1>1. ASSUME \A y \in S : x <= y
        PROVE  Min(S) = x
    <2>1. \E z \in S : \A y \in S : z <= y
      BY <1>1
    <2>2. Min(S) \in S /\ \A y \in S : Min(S) <= y
      BY <2>1 DEF Min
    <2>3. x \in Int /\ Min(S) \in Int
      BY <2>2
    <2>4. x <= Min(S) /\ Min(S) <= x
      BY <1>1, <2>2
    <2>5. QED
      BY <2>3, <2>4
  <1>2. ASSUME \A y \in S : x >= y
        PROVE  Max(S) = x
    <2>1. \E z \in S : \A y \in S : z >= y
      BY <1>2
    <2>2. Max(S) \in S /\ \A y \in S : Max(S) >= y
      BY <2>1 DEF Max
    <2>3. x \in Int /\ Max(S) \in Int
      BY <2>2
    <2>4. x >= Max(S) /\ Max(S) >= x
      BY <1>2, <2>2
    <2>5. QED
      BY <2>3, <2>4
  <1>3. QED
    BY <1>1, <1>2

LEMMA MaxOfZero ==
    ASSUME NEW a \in Int
    PROVE  Max({a, 0}) = IF a >= 0 THEN a ELSE 0
  <1>1. \E x \in {a, 0} : \A y \in {a, 0} : x >= y
    BY a >= 0 \/ 0 >= a
  <1>2. Max({a, 0}) \in {a, 0} /\ \A y \in {a, 0} : Max({a, 0}) >= y
    BY <1>1 DEF Max
  <1>3. QED
    BY <1>2

LEMMA AgeType ==
    ASSUME TableTypeOK, NEW s \in Snaps
    PROVE  /\ Age(s) \in Nat
           /\ Age(s) = IF clock - Skew >= mtime[ListObj(s)]
                       THEN clock - Skew - mtime[ListObj(s)] ELSE 0
  <1>1. /\ clock \in Int /\ Skew \in Int /\ mtime[ListObj(s)] \in Int
        /\ clock - Skew - mtime[ListObj(s)] \in Int
    BY ObjectNames, TableAssumption, TableScanAssumption DEF TableTypeOK
  <1>2. QED
    BY <1>1, MaxOfZero DEF Age

(* What is counted is finite, and counts are naturals.                     *)
LEMMA FiniteCounts ==
    /\ \A S \in SUBSET Snaps : Cardinality(S) \in Nat
    /\ \A F \in SUBSET DataFiles : IsFiniteSet(F) /\ Cardinality(F) \in Nat
  <1>1. IsFiniteSet(Snaps) /\ IsFiniteSet(DataFiles)
    BY FS_Interval, TableAssumption, TableScanAssumption DEF Snaps
  <1>2. QED
    BY <1>1, FS_Subset, FS_CardinalityType

(* The two loops over the snapshots, turn by turn.                         *)
LEMMA OldestAgeLoop ==
    ASSUME TableTypeOK, NEW n \in Nat, NEW order \in [1..n -> Snaps]
    PROVE  \E best \in [0..n -> Nat] :
             /\ OldestAge(order) = best[n] /\ best[0] = 0
             /\ \A k \in 1..n : best[k] =
                  IF best[k - 1] = 0 \/ Age(order[k]) > best[k - 1]
                  THEN Age(order[k]) ELSE best[k - 1]
  <1> DEFINE Taken(k, b) == b = 0 \/ Age(order[k]) > b
             turn == [k \in 1..n |-> [b \in Nat |-> IF Taken(k, b) THEN Age(order[k]) ELSE b]]
             Loop(g) == [k \in 0..Len(order) |->
                           IF k = 0 THEN 0
                           ELSE IF g[k - 1] = 0 \/ Age(order[k]) > g[k - 1] THEN Age(order[k])
                           ELSE g[k - 1]]
             best == CHOOSE g : g = Loop(g)
  <1>a. Len(order) = n /\ \A k \in 1..n : order[k] \in Snaps /\ Age(order[k]) \in Nat
    BY AgeType
  <1>1. turn \in [1..n -> [Nat -> Nat]]
    BY <1>a
  <1>2. PICK f \in [0..n -> Nat] :
          f[0] = 0 /\ \A k \in 1..n : f[k] = turn[k][f[k - 1]]
    <2> HIDE DEF turn
    <2>1. QED
      BY <1>1, LoopExists, Zenon
  <1>3. \A k \in 1..n : f[k] = IF Taken(k, f[k - 1]) THEN Age(order[k]) ELSE f[k - 1]
    <2>1. \A k \in 1..n : f[k - 1] \in Nat
      BY <1>a, <1>2
    <2>2. QED
      BY <1>2, <2>1
  <1>4. f = Loop(f)
    BY <1>a, <1>2, <1>3
  <1>5. best = Loop(best)
    <2> HIDE DEF Loop
    <2>1. QED
      BY <1>4
  <1>6. best[0] = 0 /\ \A k \in 1..n : best[k] =
          IF Taken(k, best[k - 1]) THEN Age(order[k]) ELSE best[k - 1]
    <2> HIDE DEF best
    <2>1. QED
      BY <1>a, <1>5
  <1>7. OldestAge(order) = best[n]
    <2>1. OldestAge(order) = best[Len(order)]
      BY DEF OldestAge
    <2>2. QED
      BY <1>a, <2>1
  <1>8. best[n] = f[n]
    <2> HIDE DEF best
    <2> DEFINE T == {k \in 0..n : best[k] = f[k]}
    <2>1. 0 \in T
      BY <1>a, <1>2, <1>6
    <2>2. ASSUME NEW k \in 1..n, k - 1 \in T
          PROVE  k \in T
      <3>1. best[k - 1] = f[k - 1] /\ k \in 0..n
        BY <2>2
      <3>2. best[k] = IF Taken(k, best[k - 1]) THEN Age(order[k]) ELSE best[k - 1]
        BY <1>6
      <3>3. f[k] = IF Taken(k, f[k - 1]) THEN Age(order[k]) ELSE f[k - 1]
        BY <1>3
      <3> HIDE DEF Taken
      <3>4. QED
        BY <3>1, <3>2, <3>3
    <2>3. n \in T
      <3> HIDE DEF T
      <3>1. 0..n \subseteq T
        BY <1>a, <2>1, <2>2, Upwards
      <3>2. QED
        BY <1>a, <3>1
    <2>4. QED
      BY <2>3
  <1>9. QED
    BY <1>2, <1>3, <1>7, <1>8

LEMMA NewestAgeLoop ==
    ASSUME TableTypeOK, NEW n \in Nat, NEW order \in [1..n -> Snaps]
    PROVE  \E best \in [0..n -> Nat] :
             /\ NewestAge(order) = best[n] /\ best[0] = 0
             /\ \A k \in 1..n : best[k] =
                  IF best[k - 1] = 0 \/ Age(order[k]) < best[k - 1]
                  THEN Age(order[k]) ELSE best[k - 1]
  <1> DEFINE Taken(k, b) == b = 0 \/ Age(order[k]) < b
             turn == [k \in 1..n |-> [b \in Nat |-> IF Taken(k, b) THEN Age(order[k]) ELSE b]]
             Loop(g) == [k \in 0..Len(order) |->
                           IF k = 0 THEN 0
                           ELSE IF g[k - 1] = 0 \/ Age(order[k]) < g[k - 1] THEN Age(order[k])
                           ELSE g[k - 1]]
             best == CHOOSE g : g = Loop(g)
  <1>a. Len(order) = n /\ \A k \in 1..n : order[k] \in Snaps /\ Age(order[k]) \in Nat
    BY AgeType
  <1>1. turn \in [1..n -> [Nat -> Nat]]
    BY <1>a
  <1>2. PICK f \in [0..n -> Nat] :
          f[0] = 0 /\ \A k \in 1..n : f[k] = turn[k][f[k - 1]]
    <2> HIDE DEF turn
    <2>1. QED
      BY <1>1, LoopExists, Zenon
  <1>3. \A k \in 1..n : f[k] = IF Taken(k, f[k - 1]) THEN Age(order[k]) ELSE f[k - 1]
    <2>1. \A k \in 1..n : f[k - 1] \in Nat
      BY <1>a, <1>2
    <2>2. QED
      BY <1>2, <2>1
  <1>4. f = Loop(f)
    BY <1>a, <1>2, <1>3
  <1>5. best = Loop(best)
    <2> HIDE DEF Loop
    <2>1. QED
      BY <1>4
  <1>6. best[0] = 0 /\ \A k \in 1..n : best[k] =
          IF Taken(k, best[k - 1]) THEN Age(order[k]) ELSE best[k - 1]
    <2> HIDE DEF best
    <2>1. QED
      BY <1>a, <1>5
  <1>7. NewestAge(order) = best[n]
    <2>1. NewestAge(order) = best[Len(order)]
      BY DEF NewestAge
    <2>2. QED
      BY <1>a, <2>1
  <1>8. best[n] = f[n]
    <2> HIDE DEF best
    <2> DEFINE T == {k \in 0..n : best[k] = f[k]}
    <2>1. 0 \in T
      BY <1>a, <1>2, <1>6
    <2>2. ASSUME NEW k \in 1..n, k - 1 \in T
          PROVE  k \in T
      <3>1. best[k - 1] = f[k - 1] /\ k \in 0..n
        BY <2>2
      <3>2. best[k] = IF Taken(k, best[k - 1]) THEN Age(order[k]) ELSE best[k - 1]
        BY <1>6
      <3>3. f[k] = IF Taken(k, f[k - 1]) THEN Age(order[k]) ELSE f[k - 1]
        BY <1>3
      <3> HIDE DEF Taken
      <3>4. QED
        BY <3>1, <3>2, <3>3
    <2>3. n \in T
      <3> HIDE DEF T
      <3>1. 0..n \subseteq T
        BY <1>a, <2>1, <2>2, Upwards
      <3>2. QED
        BY <1>a, <3>1
    <2>4. QED
      BY <2>3
  <1>9. QED
    BY <1>2, <1>3, <1>7, <1>8

(* A running maximum, with 0 for none yet, ends with the maximum.          *)
LEMMA RunningMaximum ==
    ASSUME NEW n \in Nat, NEW a \in [1..n -> Nat], NEW best \in [0..n -> Nat], best[0] = 0,
           \A k \in 1..n : best[k] =
             IF best[k - 1] = 0 \/ a[k] > best[k - 1] THEN a[k] ELSE best[k - 1]
    PROVE  /\ \A j \in 1..n : a[j] <= best[n]
           /\ n # 0 => \E j \in 1..n : best[n] = a[j]
  <1> DEFINE Upper(k) == \A j \in 1..n : j <= k => a[j] <= best[k]
             Attained(k) == k = 0 \/ \E j \in 1..n : best[k] = a[j]
             T == {k \in 0..n : Upper(k) /\ Attained(k)}
  <1>1. 0 \in T
    OBVIOUS
  <1>2. ASSUME NEW k \in 1..n, k - 1 \in T
        PROVE  k \in T
    <2>1. k - 1 \in 0..n /\ k \in 0..n
      OBVIOUS
    <2>2. best[k - 1] \in Nat /\ best[k] \in Nat /\ a[k] \in Nat
      BY <2>1
    <2>3. best[k] = IF best[k - 1] = 0 \/ a[k] > best[k - 1] THEN a[k] ELSE best[k - 1]
      OBVIOUS
    <2>4. best[k - 1] <= best[k] /\ a[k] <= best[k]
      BY <2>2, <2>3
    <2>5. Upper(k)
      <3>1. SUFFICES ASSUME NEW j \in 1..n, j <= k
                     PROVE  a[j] <= best[k]
        OBVIOUS
      <3>2. CASE j = k
        BY <2>4, <3>2
      <3>3. CASE j # k
        <4>1. a[j] <= best[k - 1]
          BY <1>2, <3>1, <3>3
        <4>2. a[j] \in Nat
          OBVIOUS
        <4>3. QED
          BY <2>2, <2>4, <4>1, <4>2
      <3>4. QED
        BY <3>2, <3>3
    <2>6. Attained(k)
      <3>1. CASE best[k] = a[k]
        BY <3>1
      <3>2. CASE best[k] # a[k]
        <4>1. best[k] = best[k - 1] /\ best[k - 1] # 0
          BY <2>3, <3>2
        <4>2. k - 1 # 0
          BY <4>1
        <4>3. QED
          BY <1>2, <4>1, <4>2
      <3>3. QED
        BY <3>1, <3>2
    <2> HIDE DEF Upper, Attained
    <2>7. QED
      BY <2>1, <2>5, <2>6
  <1>3. n \in T
    <2> HIDE DEF T
    <2>1. 0..n \subseteq T
      BY <1>1, <1>2, Upwards
    <2>2. QED
      BY <2>1
  <1>4. QED
    BY <1>3

(* A running minimum that takes 0 for none yet ends with one of the        *)
(* numbers, and with the least if none of them is 0.                       *)
LEMMA RunningMinimum ==
    ASSUME NEW n \in Nat, NEW a \in [1..n -> Nat], NEW best \in [0..n -> Nat], best[0] = 0,
           \A k \in 1..n : best[k] =
             IF best[k - 1] = 0 \/ a[k] < best[k - 1] THEN a[k] ELSE best[k - 1]
    PROVE  /\ (\A j \in 1..n : a[j] # 0) => \A j \in 1..n : best[n] <= a[j]
           /\ n # 0 => \E j \in 1..n : best[n] = a[j]
  <1> DEFINE NoZero == \A j \in 1..n : a[j] # 0
             Lower(k) == NoZero => \A j \in 1..n : j <= k => best[k] <= a[j]
             Attained(k) == k = 0 \/ \E j \in 1..n : best[k] = a[j]
             T == {k \in 0..n : Lower(k) /\ Attained(k)}
  <1>1. 0 \in T
    OBVIOUS
  <1>2. ASSUME NEW k \in 1..n, k - 1 \in T
        PROVE  k \in T
    <2>1. k - 1 \in 0..n /\ k \in 0..n
      OBVIOUS
    <2>2. best[k - 1] \in Nat /\ best[k] \in Nat /\ a[k] \in Nat
      BY <2>1
    <2>3. best[k] = IF best[k - 1] = 0 \/ a[k] < best[k - 1] THEN a[k] ELSE best[k - 1]
      OBVIOUS
    <2>4. best[k] <= a[k]
      BY <2>2, <2>3
    <2>5. Lower(k)
      <3>1. SUFFICES ASSUME NoZero, NEW j \in 1..n, j <= k
                     PROVE  best[k] <= a[j]
        OBVIOUS
      <3>2. CASE j = k
        BY <2>4, <3>2
      <3>3. CASE j # k
        <4>1. j <= k - 1 /\ k - 1 # 0
          BY <3>1, <3>3
        <4>2. best[k - 1] <= a[j]
          BY <1>2, <3>1, <4>1
        <4>3. best[k - 1] # 0
          BY <1>2, <3>1, <4>1
        <4>4. a[j] \in Nat
          OBVIOUS
        <4>5. QED
          BY <2>2, <2>3, <4>2, <4>3, <4>4
      <3>4. QED
        BY <3>2, <3>3
    <2>6. Attained(k)
      <3>1. CASE best[k] = a[k]
        BY <3>1
      <3>2. CASE best[k] # a[k]
        <4>1. best[k] = best[k - 1] /\ best[k - 1] # 0
          BY <2>3, <3>2
        <4>2. k - 1 # 0
          BY <4>1
        <4>3. QED
          BY <1>2, <4>1, <4>2
      <3>3. QED
        BY <3>1, <3>2
    <2> HIDE DEF Lower, Attained
    <2>7. QED
      BY <2>1, <2>5, <2>6
  <1>3. n \in T
    <2> HIDE DEF T
    <2>1. 0..n \subseteq T
      BY <1>1, <1>2, Upwards
    <2>2. QED
      BY <2>1
  <1>4. QED
    BY <1>3

(* What the two loops end with.                                            *)
LEMMA OldestAgeBounds ==
    ASSUME TableTypeOK, NEW n \in Nat, NEW order \in [1..n -> Snaps]
    PROVE  /\ OldestAge(order) \in Nat
           /\ \A j \in 1..n : Age(order[j]) <= OldestAge(order)
           /\ n # 0 => \E j \in 1..n : OldestAge(order) = Age(order[j])
  <1> DEFINE a == [j \in 1..n |-> Age(order[j])]
  <1>1. a \in [1..n -> Nat] /\ \A j \in 1..n : a[j] = Age(order[j])
    BY AgeType
  <1>2. PICK best \in [0..n -> Nat] :
          /\ OldestAge(order) = best[n] /\ best[0] = 0
          /\ \A k \in 1..n : best[k] =
               IF best[k - 1] = 0 \/ Age(order[k]) > best[k - 1]
               THEN Age(order[k]) ELSE best[k - 1]
    BY OldestAgeLoop
  <1> HIDE DEF a
  <1>3. \A k \in 1..n : best[k] =
          IF best[k - 1] = 0 \/ a[k] > best[k - 1] THEN a[k] ELSE best[k - 1]
    BY <1>1, <1>2
  <1>4. /\ \A j \in 1..n : a[j] <= best[n]
        /\ n # 0 => \E j \in 1..n : best[n] = a[j]
    BY <1>1, <1>2, <1>3, RunningMaximum
  <1>5. QED
    BY <1>1, <1>2, <1>4

LEMMA NewestAgeBounds ==
    ASSUME TableTypeOK, NEW n \in Nat, NEW order \in [1..n -> Snaps]
    PROVE  /\ NewestAge(order) \in Nat
           /\ (\A j \in 1..n : Age(order[j]) # 0) =>
                \A j \in 1..n : NewestAge(order) <= Age(order[j])
           /\ n # 0 => \E j \in 1..n : NewestAge(order) = Age(order[j])
  <1> DEFINE a == [j \in 1..n |-> Age(order[j])]
  <1>1. a \in [1..n -> Nat] /\ \A j \in 1..n : a[j] = Age(order[j])
    BY AgeType
  <1>2. PICK best \in [0..n -> Nat] :
          /\ NewestAge(order) = best[n] /\ best[0] = 0
          /\ \A k \in 1..n : best[k] =
               IF best[k - 1] = 0 \/ Age(order[k]) < best[k - 1]
               THEN Age(order[k]) ELSE best[k - 1]
    BY NewestAgeLoop
  <1> HIDE DEF a
  <1>3. \A k \in 1..n : best[k] =
          IF best[k - 1] = 0 \/ a[k] < best[k - 1] THEN a[k] ELSE best[k - 1]
    BY <1>1, <1>2
  <1>4. /\ (\A j \in 1..n : a[j] # 0) => \A j \in 1..n : best[n] <= a[j]
        /\ n # 0 => \E j \in 1..n : best[n] = a[j]
    BY <1>1, <1>2, <1>3, RunningMinimum
  <1>5. QED
    BY <1>1, <1>2, <1>4

(* The ages of a report, for every order of the snapshots in the file.     *)
LEMMA AgesOfHistory ==
    ASSUME TableTypeOK, NEW snaps \in SUBSET Snaps, NEW order \in Orders(snaps)
    PROVE  LET ages == {Max({(clock - Skew) - mtime[ListObj(s)], 0}) : s \in snaps}
           IN  /\ OldestAge(order) \in Nat /\ NewestAge(order) \in Nat
               /\ snaps # {} =>
                    /\ OldestAge(order) = Max(ages)
                    /\ NewestAge(order) \in ages
                    /\ 0 \notin ages => NewestAge(order) = Min(ages)
  <1> DEFINE n == Cardinality(snaps)
             ages == {Max({(clock - Skew) - mtime[ListObj(s)], 0}) : s \in snaps}
  <1>a. n \in Nat
    BY FiniteCounts
  <1>b. /\ order \in [1..n -> snaps]
        /\ \A s \in snaps : \E k \in 1..n : order[k] = s
    BY DEF Orders
  <1>c. order \in [1..n -> Snaps]
    BY <1>b
  <1>d. ages = {Age(s) : s \in snaps}
    BY DEF Age
  <1> HIDE DEF n, ages
  <1>e. ages = {Age(order[k]) : k \in 1..n}
    BY <1>b, <1>d
  <1>f. ages \in SUBSET Int
    BY <1>c, <1>e, AgeType
  <1>1. OldestAge(order) \in Nat /\ NewestAge(order) \in Nat
    BY <1>a, <1>c, OldestAgeBounds, NewestAgeBounds
  <1>2. ASSUME snaps # {}
        PROVE  /\ OldestAge(order) = Max(ages)
               /\ NewestAge(order) \in ages
               /\ 0 \notin ages => NewestAge(order) = Min(ages)
    <2>1. n # 0
      BY <1>a, <1>b, <1>2
    <2>2. OldestAge(order) \in ages /\ \A a \in ages : OldestAge(order) >= a
      BY <1>a, <1>c, <1>e, <2>1, OldestAgeBounds, AgeType
    <2>3. NewestAge(order) \in ages
      BY <1>a, <1>c, <1>e, <2>1, NewestAgeBounds
    <2>4. ASSUME 0 \notin ages
          PROVE  \A a \in ages : NewestAge(order) <= a
      BY <1>a, <1>c, <1>e, <2>4, NewestAgeBounds
    <2>5. QED
      BY <1>f, <2>2, <2>3, <2>4, ExtremesOfSet
  <1>3. QED
    BY <1>1, <1>2 DEF ages

-----------------------------------------------------------------------------
(* The snapshot a scan picks is one the metadata has, or none.             *)
LEMMA TargetType ==
    ASSUME locked \in TableMetadata
    PROVE  /\ Target \in locked.snaps \cup {NoSnap}
           /\ Target \in 0..MaxSnap
           /\ Target # NoSnap => Target \in Snaps /\ Target \in locked.snaps
  BY TableAssumption DEF Target, ResolveSnapshot, TableMetadata, Snaps, NoSnap

(* Moving a branch changes no snapshot and drops none.                     *)
LEMMA SetBranchTypes ==
    ASSUME TableTypeOK, NEW s \in Snaps, SetBranch(s)
    PROVE  TableTypeOK'
  <1>1. /\ meta.current \in 0..MaxSnap /\ meta.snaps \in SUBSET Snaps
        /\ Publish(meta.current, meta.snaps)
        /\ UNCHANGED <<clock, lists, entries, removed, prep, inflight, garbage>>
    BY TypesOfTable DEF SetBranch
  <1>2. QED
    BY <1>1, PublishTypes DEF TableTypeOK

LEMMA SetBranchInv ==
    ASSUME TableInv, NEW s \in Snaps, SetBranch(s)
    PROVE  TableInv'
  <1>1. /\ meta.current \in 0..MaxSnap /\ meta.snaps \in SUBSET meta.snaps
        /\ meta.current = NoSnap \/ meta.current \in meta.snaps
        /\ Publish(meta.current, meta.snaps)
        /\ UNCHANGED <<clock, lists, entries, removed, prep, inflight, garbage>>
    BY TypesOfTable DEF SetBranch, TableInv, IdsAreFresh
  <1>2. TableTypeOK'
    BY SetBranchTypes DEF TableInv
  <1>3. QED
    BY <1>1, <1>2, PublishInv

(* What every step of the others keeps and leaves alone.                   *)
LEMMA TableSteps ==
    ASSUME TableInv, TableChanges
    PROVE  /\ TableInv'
           /\ \A s \in Snaps : mtime[ListObj(s)] # 0 => Unaltered(s)
           /\ meta'.snaps \subseteq meta.snaps \cup {prep.snap}
           /\ meta.version <= meta'.version
           /\ prep'.snap # prep.snap =>
                prep'.snap = NoSnap \/ mtime[ListObj(prep'.snap)] = 0
  <1>1. CASE Writers
    BY <1>1, WritersInv, SnapshotsAreImmutable, CatalogMovesForward DEF TableInv
  <1>2. ASSUME NEW t \in Snaps, SetBranch(t)
        PROVE  /\ TableInv'
               /\ \A s \in Snaps : Unaltered(s)
               /\ meta'.snaps = meta.snaps /\ meta'.version = meta.version + 1
               /\ prep' = prep
    BY <1>2, SetBranchInv, PublishAlters DEF TableInv, SetBranch, Publish
  <1>3. meta.version \in Nat
    BY TypesOfTable DEF TableInv
  <1>4. QED
    BY <1>1, <1>2, <1>3 DEF TableChanges

-----------------------------------------------------------------------------
(* Types.                                                                  *)
LEMMA InitTypeOK == Init => TypeOK
  <1> SUFFICES ASSUME Init
               PROVE  TypeOK
    OBVIOUS
  <1>1. TableTypeOK
    BY InitTableInv DEF Init, TableInv
  <1>2. stats \in [snap : 0..MaxSnap, snapshots : Nat, oldest : Nat, newest : Nat,
                   manifests : Nat, data : Nat, deletes : Nat]
    BY TableAssumption DEF Init, NoStats, NoSnap
  <1>3. QED
    BY <1>1, <1>2, TableAssumption DEF Init, TypeOK, TableTypeOK, NoSnap

(* Not inductive alone: a manifest list is read only of a snapshot found.  *)
SnapshotFound == phase \in {"list", "manifests"} => Target # NoSnap

LEMMA NextTypeOK == TypeOK /\ SnapshotFound /\ [Next]_vars => TypeOK'
  <1> SUFFICES ASSUME TypeOK, SnapshotFound, [Next]_vars
               PROVE  TypeOK'
    OBVIOUS
  <1> USE DEF TypeOK
  <1> DEFINE StatsType == [snap : 0..MaxSnap, snapshots : Nat, oldest : Nat, newest : Nat,
                           manifests : Nat, data : Nat, deletes : Nat]
  <1>a. NoStats \in StatsType /\ NoSnap \in 0..MaxSnap
    BY TableAssumption DEF NoStats, NoSnap
  <1>b. locked.snaps \in SUBSET Snaps /\ Target \in 0..MaxSnap
    BY TargetType DEF TableMetadata
  <1>1. CASE TableChanges /\ UNCHANGED scanVars
    <2>1. CASE Writers /\ UNCHANGED branch
      BY <1>1, <2>1, WritersTypeOK DEF scanVars
    <2>2. ASSUME NEW s \in Snaps, SetBranch(s)
          PROVE  TableTypeOK' /\ branch' \in 0..MaxSnap
      BY <2>2, SetBranchTypes, TableAssumption DEF SetBranch, Snaps
    <2>3. QED
      BY <1>1, <2>1, <2>2 DEF TableChanges, scanVars
  <1>2. CASE Tick /\ UNCHANGED <<branch, scanVars>>
    <2>1. TableTypeOK'
      BY <1>2, TableAssumption DEF Tick, TableTypeOK
    <2>2. QED
      BY <1>2, <2>1 DEF scanVars
  <1>3. CASE LoadTable
    BY <1>3 DEF LoadTable, tableVars, TableTypeOK
  <1>4. CASE ReadMetadata
    <2>0. PICK order \in Orders(locked.snaps) :
            stats' = [stats EXCEPT !.snap = Target,
                                   !.snapshots = Cardinality(locked.snaps),
                                   !.oldest = OldestAge(order),
                                   !.newest = NewestAge(order)]
      BY <1>4 DEF ReadMetadata
    <2>1. /\ now' = clock - Skew /\ phase' \in {"done", "list"}
          /\ UNCHANGED <<tableVars, useBranch, branch, locked, lockedRef, pending>>
      BY <1>4 DEF ReadMetadata
    <2>2. /\ Cardinality(locked.snaps) \in Nat
          /\ OldestAge(order) \in Nat /\ NewestAge(order) \in Nat
      BY <1>b, FiniteCounts, AgesOfHistory
    <2>3. stats' \in StatsType
      BY <1>b, <2>0, <2>2
    <2>4. clock - Skew \in (1 - Skew)..(MaxClock - Skew)
      BY TableAssumption, TableScanAssumption DEF TableTypeOK
    <2>5. QED
      BY <2>1, <2>3, <2>4 DEF tableVars, TableTypeOK
  <1>5. CASE ReadList
    <2>1. /\ pending' = lists[Target]
          /\ stats' = [stats EXCEPT !.manifests = Cardinality(lists[Target])]
          /\ phase' = "manifests" /\ phase = "list"
          /\ UNCHANGED <<tableVars, useBranch, branch, locked, lockedRef, now>>
      BY <1>5 DEF ReadList, ManifestsToRead
    <2>2. lists[Target] \in SUBSET Snaps
      BY <2>1, TargetType DEF TableTypeOK, SnapshotFound
    <2>3. stats' \in StatsType /\ pending' \in SUBSET Snaps
      BY <2>1, <2>2, FiniteCounts
    <2>4. QED
      BY <2>1, <2>3 DEF tableVars, TableTypeOK
  <1>6. ASSUME NEW m \in Snaps, ReadManifest(m)
        PROVE  TypeOK'
    <2>1. /\ stats' = [stats EXCEPT !.data = @ + Cardinality(Counted(m) \ DeleteFiles),
                                    !.deletes = @ + Cardinality(Counted(m) \cap DeleteFiles)]
          /\ pending' = pending \ {m}
          /\ UNCHANGED <<tableVars, useBranch, branch, phase, locked, lockedRef, now>>
      BY <1>6 DEF ReadManifest
    <2>2. /\ Cardinality(Counted(m) \ DeleteFiles) \in Nat
          /\ Cardinality(Counted(m) \cap DeleteFiles) \in Nat
      <3>1. /\ Counted(m) \ DeleteFiles \in SUBSET DataFiles
            /\ Counted(m) \cap DeleteFiles \in SUBSET DataFiles
        BY DEF Counted, TableTypeOK
      <3>2. QED
        BY <3>1, FiniteCounts
    <2> DEFINE d == stats.data + Cardinality(Counted(m) \ DeleteFiles)
               e == stats.deletes + Cardinality(Counted(m) \cap DeleteFiles)
    <2>3. d \in Nat /\ e \in Nat
      <3>1. stats.data \in Nat /\ stats.deletes \in Nat
        OBVIOUS
      <3>2. QED
        BY <2>2, <3>1
    <2>4. stats' = [stats EXCEPT !.data = d, !.deletes = e]
      BY <2>1
    <2>5. stats' \in StatsType
      <3> HIDE DEF d, e
      <3>1. QED
        BY <2>3, <2>4
    <2>6. QED
      BY <2>1, <2>5 DEF tableVars, TableTypeOK
  <1>7. CASE Finish
    BY <1>7 DEF Finish, tableVars, TableTypeOK
  <1>8. CASE OpenMissing
    BY <1>8, <1>a DEF OpenMissing, tableVars, TableTypeOK
  <1>9. CASE ScanError
    BY <1>9, <1>a DEF ScanError, tableVars, TableTypeOK
  <1>10. CASE UNCHANGED vars
    BY <1>10 DEF vars, tableVars, scanVars, TableTypeOK
  <1>11. QED
    BY <1>1, <1>2, <1>3, <1>4, <1>5, <1>6, <1>7, <1>8, <1>9, <1>10 DEF Next, Scanner

-----------------------------------------------------------------------------
(* The invariant, part by part.                                            *)

(* What was locked was published before, and no commit attempt is part of  *)
(* it: expiring a snapshot that was locked is final.                       *)
LockIsOld ==
    /\ locked.version <= meta.version
    /\ \A s \in locked.snaps : mtime[ListObj(s)] # 0 /\ s # prep.snap

(* At any time the figures are those of the manifests already read.        *)
CountedSoFar ==
    /\ phase \in {"idle", "loaded"} => stats = NoStats
    /\ phase = "list" =>
         stats.snap = Target /\ stats.manifests = 0 /\ stats.data = 0 /\ stats.deletes = 0
    /\ phase = "manifests" =>
         /\ pending \subseteq lists[Target]
         /\ stats.snap = Target
         /\ stats.manifests = Cardinality(lists[Target])
         /\ stats.data = Cardinality(Alive(lists[Target] \ pending) \ DeleteFiles)
         /\ stats.deletes = Cardinality(Alive(lists[Target] \ pending) \cap DeleteFiles)
    /\ phase = "done" => Reported = Figures(Target)

AgesSoFar ==
    phase \in {"list", "manifests", "done"} /\ locked.snaps # {} =>
        LET ages == AgesOf(locked.snaps)
        IN  /\ stats.oldest = Max(ages)
            /\ stats.newest \in ages
            /\ 0 \notin ages => stats.newest = Min(ages)

GoneIsExpired == phase = "missing" => Target \in locked.snaps \ meta.snaps

IInv ==
    /\ TypeOK
    /\ TableInv
    /\ SnapshotFound
    /\ LockIsOld
    /\ CountedSoFar
    /\ AgesSoFar
    /\ GoneIsExpired

LEMMA InitIInv == Init => IInv
  <1> SUFFICES ASSUME Init
               PROVE  IInv
    OBVIOUS
  <1>1. TypeOK
    BY InitTypeOK
  <1>2. TableInv
    BY InitTableInv DEF Init
  <1>3. LockIsOld
    BY TypesOfTable, <1>2 DEF Init, TableInit, LockIsOld
  <1>4. SnapshotFound /\ CountedSoFar /\ AgesSoFar /\ GoneIsExpired
    BY DEF Init, SnapshotFound, CountedSoFar, AgesSoFar, GoneIsExpired
  <1>5. QED
    BY <1>1, <1>2, <1>3, <1>4 DEF IInv

(* A step of the others leaves what the scan works from as it was.         *)
LEMMA OthersLeaveTheLock ==
    ASSUME TypeOK, UNCHANGED <<useBranch, locked, lockedRef>>,
           \A s \in locked.snaps : Unaltered(s)
    PROVE  /\ Target' = Target
           /\ Figures(Target)' = Figures(Target)
           /\ UNCHANGED now => AgesOf(locked.snaps)' = AgesOf(locked.snaps)
           /\ Target # NoSnap =>
                /\ lists'[Target] = lists[Target]
                /\ \A M \in SUBSET lists[Target] : 
                     UNION {entries'[m] \ removed'[m] : m \in M} = Alive(M)
  <1>1. Target' = Target
    BY DEF Target, ResolveSnapshot
  <1>2. Target # NoSnap => Unaltered(Target)
    BY TargetType DEF TypeOK
  <1>3. Target # NoSnap =>
          /\ lists'[Target] = lists[Target]
          /\ \A M \in SUBSET lists[Target] : 
               UNION {entries'[m] \ removed'[m] : m \in M} = Alive(M)
    BY <1>2 DEF Unaltered, Alive
  <1>4. Figures(Target)' = Figures(Target)
    <2> DEFINE M == IF Target = NoSnap THEN {} ELSE lists[Target]
    <2>1. M' = M
      BY <1>1, <1>3
    <2>2. Alive(M)' = Alive(M)
      <3>1. UNION {entries'[m] \ removed'[m] : m \in M} = Alive(M)
        BY <1>3 DEF Alive
      <3>2. QED
        BY <2>1, <3>1 DEF Alive
    <2>3. QED
      BY <1>1, <2>1, <2>2 DEF Figures
  <1>5. UNCHANGED now => AgesOf(locked.snaps)' = AgesOf(locked.snaps)
    BY DEF Unaltered, AgesOf
  <1>6. QED
    BY <1>1, <1>3, <1>4, <1>5

LEMMA OthersInv ==
    ASSUME IInv, TypeOK', TableInv', UNCHANGED scanVars,
           \A s \in Snaps : mtime[ListObj(s)] # 0 => Unaltered(s),
           meta'.snaps \subseteq meta.snaps \cup {prep.snap},
           meta.version <= meta'.version,
           prep'.snap # prep.snap => prep'.snap = NoSnap \/ mtime[ListObj(prep'.snap)] = 0
    PROVE  IInv'
  <1>a. /\ TypeOK /\ LockIsOld /\ CountedSoFar /\ AgesSoFar /\ GoneIsExpired /\ SnapshotFound
        /\ UNCHANGED <<useBranch, phase, locked, lockedRef, now, pending, stats>>
    BY DEF IInv, scanVars
  <1>b. locked.snaps \in SUBSET Snaps /\ NoSnap \notin locked.snaps
    BY <1>a, TableAssumption DEF TypeOK, TableMetadata, NoSnap, Snaps
  <1>c. locked.version \in Nat /\ meta.version \in Nat /\ meta'.version \in Nat
    <2>1. meta \in TableMetadata /\ meta' \in TableMetadata /\ locked \in TableMetadata
      BY <1>a DEF TypeOK, TableTypeOK
    <2>2. QED
      BY <2>1, TableAssumption DEF TableMetadata
  <1>1. \A s \in locked.snaps : Unaltered(s)
    BY <1>a, <1>b DEF LockIsOld
  <1>2. /\ Target' = Target
        /\ Figures(Target)' = Figures(Target)
        /\ AgesOf(locked.snaps)' = AgesOf(locked.snaps)
        /\ Target # NoSnap =>
             /\ lists'[Target] = lists[Target]
             /\ \A M \in SUBSET lists[Target] : 
                  UNION {entries'[m] \ removed'[m] : m \in M} = Alive(M)
    BY <1>a, <1>1, OthersLeaveTheLock
  <1>3. LockIsOld'
    <2>1. locked.version <= meta'.version
      BY <1>a, <1>c DEF LockIsOld
    <2>2. ASSUME NEW s \in locked.snaps
          PROVE  mtime'[ListObj(s)] # 0 /\ s # prep'.snap
      BY <1>a, <1>b, <1>1, <2>2 DEF LockIsOld, Unaltered
    <2>3. QED
      BY <1>a, <2>1, <2>2 DEF LockIsOld
  <1>4. SnapshotFound'
    BY <1>a, <1>2 DEF SnapshotFound
  <1>5. CountedSoFar'
    <2>1. CASE phase = "manifests"
      <3>1. Target # NoSnap /\ lists[Target] \ pending \in SUBSET lists[Target]
        BY <1>a, <2>1 DEF SnapshotFound
      <3>2. Alive(lists[Target] \ pending)' = Alive(lists[Target] \ pending)
        BY <1>a, <1>2, <3>1 DEF Alive
      <3>3. QED
        BY <1>a, <1>2, <2>1, <3>1, <3>2 DEF CountedSoFar
    <2>2. CASE phase = "done"
      BY <1>a, <1>2, <2>2 DEF CountedSoFar, Reported
    <2>3. CASE phase \notin {"manifests", "done"}
      BY <1>a, <1>2, <2>3 DEF CountedSoFar
    <2>4. QED
      BY <2>1, <2>2, <2>3
  <1>6. AgesSoFar'
    BY <1>a, <1>2 DEF AgesSoFar
  <1>7. GoneIsExpired'
    BY <1>a, <1>2 DEF GoneIsExpired, LockIsOld
  <1>8. QED
    BY <1>3, <1>4, <1>5, <1>6, <1>7 DEF IInv

(* A step of the scan leaves the table as it is.                           *)
LEMMA ScannerLeavesTheTable ==
    ASSUME TableInv, UNCHANGED tableVars
    PROVE  TableInv'
  <1>1. /\ clock' \in 1..MaxClock
        /\ UNCHANGED <<clock, store, mtime, meta, lists, entries, removed, prep, inflight, garbage>>
    BY DEF tableVars, TableInv, TableTypeOK
  <1>2. QED
    BY <1>1, StutterInv

LEMMA LoadTableInv ==
    ASSUME IInv, TypeOK', LoadTable
    PROVE  IInv'
  <1>1. /\ phase = "idle" /\ phase' = "loaded" /\ locked' = meta /\ stats' = stats
        /\ UNCHANGED tableVars
        /\ UNCHANGED <<clock, store, mtime, meta, lists, entries, removed, prep, inflight, garbage>>
    BY DEF LoadTable, tableVars
  <1>2. TableInv'
    BY <1>1, ScannerLeavesTheTable DEF IInv
  <1>3. LockIsOld'
    <2>1. meta.snaps \in SUBSET Snaps /\ meta.version \in Nat
      BY TypesOfTable DEF IInv, TableInv
    <2>2. QED
      BY <1>1, <2>1 DEF IInv, TableInv, IdsAreFresh, LockIsOld
  <1>4. SnapshotFound' /\ CountedSoFar' /\ AgesSoFar' /\ GoneIsExpired'
    BY <1>1 DEF IInv, SnapshotFound, CountedSoFar, AgesSoFar, GoneIsExpired
  <1>5. QED
    BY <1>2, <1>3, <1>4 DEF IInv

LEMMA ReadMetadataInv ==
    ASSUME IInv, TypeOK', ReadMetadata
    PROVE  IInv'
  <1>0. PICK order \in Orders(locked.snaps) :
          stats' = [stats EXCEPT !.snap = Target,
                                 !.snapshots = Cardinality(locked.snaps),
                                 !.oldest = OldestAge(order),
                                 !.newest = NewestAge(order)]
    BY DEF ReadMetadata
  <1>1. /\ phase = "loaded" /\ phase' = IF Target = NoSnap THEN "done" ELSE "list"
        /\ now' = clock - Skew
        /\ UNCHANGED tableVars /\ UNCHANGED <<useBranch, locked, lockedRef>>
        /\ UNCHANGED <<clock, store, mtime, meta, lists, entries, removed, prep, inflight, garbage>>
    BY DEF ReadMetadata, tableVars
  <1>2. TableInv'
    BY <1>1, ScannerLeavesTheTable DEF IInv
  <1>3. Target' = Target
    BY <1>1 DEF Target, ResolveSnapshot
  <1>4. LockIsOld' /\ SnapshotFound' /\ GoneIsExpired'
    BY <1>1, <1>3 DEF IInv, LockIsOld, SnapshotFound, GoneIsExpired
  <1>5. /\ stats'.snap = Target /\ stats'.manifests = 0
        /\ stats'.data = 0 /\ stats'.deletes = 0
        /\ stats'.oldest = OldestAge(order) /\ stats'.newest = NewestAge(order)
    <2>1. stats = NoStats
      BY <1>1 DEF IInv, CountedSoFar
    <2>2. QED
      BY <1>0, <2>1 DEF NoStats
  <1>6. CountedSoFar'
    <2>1. CASE Target = NoSnap
      <3>1. Figures(Target)' = [snap |-> NoSnap, manifests |-> 0, data |-> 0, deletes |-> 0]
        <4>1. Figures(NoSnap)' = [snap |-> NoSnap, manifests |-> 0, data |-> 0, deletes |-> 0]
          <5>1. /\ (UNION {entries'[m] \ removed'[m] : m \in {}}) \ DeleteFiles = {}
                /\ (UNION {entries'[m] \ removed'[m] : m \in {}}) \cap DeleteFiles = {}
            OBVIOUS
          <5>2. Cardinality({}) = 0
            BY FS_EmptySet
          <5>3. QED
            BY <5>1, <5>2 DEF Figures, Alive
        <4>2. QED
          BY <1>3, <2>1, <4>1
      <3>2. Reported' = [snap |-> NoSnap, manifests |-> 0, data |-> 0, deletes |-> 0]
        BY <1>5, <2>1 DEF Reported
      <3>3. QED
        BY <1>1, <2>1, <3>1, <3>2 DEF CountedSoFar
    <2>2. CASE Target # NoSnap
      BY <1>1, <1>3, <1>5, <2>2 DEF CountedSoFar
    <2>3. QED
      BY <2>1, <2>2
  <1>7. AgesSoFar'
    <2>1. AgesOf(locked.snaps)' = {Max({(clock - Skew) - mtime[ListObj(s)], 0}) : s \in locked.snaps}
      BY <1>1 DEF AgesOf
    <2>2. locked.snaps \in SUBSET Snaps /\ TableTypeOK
      BY DEF IInv, TypeOK, TableMetadata
    <2>3. QED
      BY <1>1, <1>5, <2>1, <2>2, AgesOfHistory DEF AgesSoFar
  <1>8. QED
    BY <1>2, <1>4, <1>6, <1>7 DEF IInv

LEMMA ReadListInv ==
    ASSUME IInv, TypeOK', ReadList
    PROVE  IInv'
  <1>1. /\ phase = "list" /\ phase' = "manifests"
        /\ pending' = lists[Target]
        /\ stats' = [stats EXCEPT !.manifests = Cardinality(lists[Target])]
        /\ UNCHANGED tableVars /\ UNCHANGED <<useBranch, locked, lockedRef, now>>
        /\ UNCHANGED <<clock, store, mtime, meta, lists, entries, removed, prep, inflight, garbage>>
    BY DEF ReadList, tableVars, ManifestsToRead
  <1>2. TableInv'
    BY <1>1, ScannerLeavesTheTable DEF IInv
  <1>3. Target' = Target
    BY <1>1 DEF Target, ResolveSnapshot
  <1>4. LockIsOld' /\ SnapshotFound' /\ GoneIsExpired'
    BY <1>1, <1>3 DEF IInv, LockIsOld, SnapshotFound, GoneIsExpired
  <1>5. /\ stats'.manifests = Cardinality(lists[Target])
        /\ stats'.snap = Target /\ stats'.data = 0 /\ stats'.deletes = 0
        /\ stats'.oldest = stats.oldest /\ stats'.newest = stats.newest
    BY <1>1 DEF IInv, TypeOK, CountedSoFar
  <1>6. CountedSoFar'
    <2>1. Alive(lists[Target] \ pending)' = {}
      BY <1>1, <1>3 DEF Alive
    <2>2. Cardinality({}) = 0
      BY FS_EmptySet
    <2>3. /\ Cardinality(Alive(lists[Target] \ pending) \ DeleteFiles)' = 0
          /\ Cardinality(Alive(lists[Target] \ pending) \cap DeleteFiles)' = 0
      <3>1. /\ (Alive(lists[Target] \ pending) \ DeleteFiles)' = {}
            /\ (Alive(lists[Target] \ pending) \cap DeleteFiles)' = {}
        BY <2>1
      <3>2. QED
        BY <2>2, <3>1
    <2>4. QED
      BY <1>1, <1>3, <1>5, <2>3 DEF CountedSoFar
  <1>7. AgesSoFar'
    BY <1>1, <1>5 DEF IInv, AgesSoFar, AgesOf
  <1>8. QED
    BY <1>2, <1>4, <1>6, <1>7 DEF IInv

(* One more manifest is counted: it shares no live file with the others.   *)
LEMMA ReadManifestInv ==
    ASSUME IInv, TypeOK', NEW m \in Snaps, ReadManifest(m)
    PROVE  IInv'
  <1>1. /\ phase = "manifests" /\ m \in pending /\ pending' = pending \ {m}
        /\ stats' = [stats EXCEPT !.data = @ + Cardinality(Counted(m) \ DeleteFiles),
                                  !.deletes = @ + Cardinality(Counted(m) \cap DeleteFiles)]
        /\ UNCHANGED tableVars /\ UNCHANGED <<useBranch, phase, locked, lockedRef, now>>
        /\ UNCHANGED <<clock, store, mtime, meta, lists, entries, removed, prep, inflight, garbage>>
    BY DEF ReadManifest, tableVars
  <1>2. TableInv'
    BY <1>1, ScannerLeavesTheTable DEF IInv
  <1>3. Target' = Target
    BY <1>1 DEF Target, ResolveSnapshot
  <1>4. LockIsOld' /\ SnapshotFound' /\ GoneIsExpired'
    BY <1>1, <1>3 DEF IInv, LockIsOld, SnapshotFound, GoneIsExpired
  <1>5. /\ stats'.snap = stats.snap /\ stats'.manifests = stats.manifests
        /\ stats'.oldest = stats.oldest /\ stats'.newest = stats.newest
        /\ stats'.data = stats.data + Cardinality(Counted(m) \ DeleteFiles)
        /\ stats'.deletes = stats.deletes + Cardinality(Counted(m) \cap DeleteFiles)
    BY <1>1 DEF IInv, TypeOK
  <1> DEFINE old == Alive(lists[Target] \ pending)
             new == Alive(lists[Target] \ (pending \ {m}))
  <1>6. /\ Target \in Snaps /\ pending \subseteq lists[Target] /\ lists[Target] \subseteq Snaps
        /\ stats.snap = Target /\ stats.manifests = Cardinality(lists[Target])
        /\ stats.data = Cardinality(old \ DeleteFiles)
        /\ stats.deletes = Cardinality(old \cap DeleteFiles)
    BY <1>1, TargetType DEF IInv, SnapshotFound, CountedSoFar, TypeOK, TableTypeOK
  <1>7. new = old \cup Counted(m)
    <2>1. lists[Target] \ (pending \ {m}) = (lists[Target] \ pending) \cup {m}
      BY <1>1, <1>6
    <2>2. QED
      BY <2>1 DEF Alive, Counted
  <1>8. old \cap Counted(m) = {}
    <2>1. \A n \in lists[Target] \ pending : Counted(n) \cap Counted(m) = {}
      BY <1>1, <1>6 DEF IInv, TableInv, ManifestsAreDisjoint, Counted
    <2>2. QED
      BY <2>1 DEF Alive, Counted
  <1>9. old \in SUBSET DataFiles /\ Counted(m) \in SUBSET DataFiles
    BY <1>6 DEF IInv, TypeOK, TableTypeOK, Alive, Counted
  <1>10. ASSUME NEW A \in SUBSET DataFiles, NEW B \in SUBSET DataFiles, A \cap B = {}
         PROVE  Cardinality(A \cup B) = Cardinality(A) + Cardinality(B)
    <2>1. IsFiniteSet(A) /\ IsFiniteSet(B) /\ Cardinality(A) \in Nat /\ Cardinality(B) \in Nat
      BY FiniteCounts
    <2>2. Cardinality(A \cup B) = Cardinality(A) + Cardinality(B) - Cardinality(A \cap B)
      BY <2>1, FS_Union
    <2>3. Cardinality(A \cap B) = 0
      BY <1>10, FS_EmptySet
    <2>4. QED
      BY <2>1, <2>2, <2>3
  <1>11. /\ Cardinality(new \ DeleteFiles)
              = Cardinality(old \ DeleteFiles) + Cardinality(Counted(m) \ DeleteFiles)
         /\ Cardinality(new \cap DeleteFiles)
              = Cardinality(old \cap DeleteFiles) + Cardinality(Counted(m) \cap DeleteFiles)
    <2> HIDE DEF old, new
    <2>1. /\ new \ DeleteFiles = (old \ DeleteFiles) \cup (Counted(m) \ DeleteFiles)
          /\ new \cap DeleteFiles = (old \cap DeleteFiles) \cup (Counted(m) \cap DeleteFiles)
          /\ (old \ DeleteFiles) \cap (Counted(m) \ DeleteFiles) = {}
          /\ (old \cap DeleteFiles) \cap (Counted(m) \cap DeleteFiles) = {}
      BY <1>7, <1>8
    <2>2. /\ old \ DeleteFiles \in SUBSET DataFiles
          /\ Counted(m) \ DeleteFiles \in SUBSET DataFiles
          /\ old \cap DeleteFiles \in SUBSET DataFiles
          /\ Counted(m) \cap DeleteFiles \in SUBSET DataFiles
      BY <1>9
    <2>3. QED
      BY <1>10, <2>1, <2>2
  <1>12. CountedSoFar'
    <2>1. new = Alive(lists[Target] \ pending)'
      BY <1>1, <1>3 DEF Alive
    <2>2. /\ stats'.data = Cardinality(Alive(lists[Target] \ pending) \ DeleteFiles)'
          /\ stats'.deletes = Cardinality(Alive(lists[Target] \ pending) \cap DeleteFiles)'
      <3> HIDE DEF old, new
      <3>1. QED
        BY <1>5, <1>6, <1>11, <2>1
    <2>3. pending' \subseteq lists'[Target]
      BY <1>1, <1>6
    <2>4. QED
      BY <1>1, <1>3, <1>5, <1>6, <2>2, <2>3 DEF CountedSoFar
  <1>13. AgesSoFar'
    BY <1>1, <1>5 DEF IInv, AgesSoFar, AgesOf
  <1>14. QED
    BY <1>2, <1>4, <1>12, <1>13 DEF IInv

LEMMA FinishInv ==
    ASSUME IInv, TypeOK', Finish
    PROVE  IInv'
  <1>1. /\ phase = "manifests" /\ pending = {} /\ phase' = "done" /\ stats' = stats
        /\ UNCHANGED tableVars /\ UNCHANGED <<useBranch, locked, lockedRef, now, pending>>
        /\ UNCHANGED <<clock, store, mtime, meta, lists, entries, removed, prep, inflight, garbage>>
    BY DEF Finish, tableVars
  <1>2. TableInv'
    BY <1>1, ScannerLeavesTheTable DEF IInv
  <1>3. Target' = Target
    BY <1>1 DEF Target, ResolveSnapshot
  <1>4. LockIsOld' /\ SnapshotFound' /\ GoneIsExpired' /\ AgesSoFar'
    BY <1>1, <1>3 DEF IInv, LockIsOld, SnapshotFound, GoneIsExpired, AgesSoFar, AgesOf
  <1>5. Reported = Figures(Target)
    <2>1. lists[Target] \ pending = lists[Target]
      BY <1>1
    <2>2. QED
      BY <1>1, <2>1 DEF IInv, SnapshotFound, CountedSoFar, Reported, Figures
  <1>6. Figures(Target)' = Figures(Target) /\ Reported' = Reported
    BY <1>1, <1>3 DEF Figures, Reported, Alive
  <1>7. CountedSoFar'
    BY <1>1, <1>5, <1>6 DEF CountedSoFar
  <1>8. QED
    BY <1>2, <1>4, <1>7 DEF IInv

(* The objects of a snapshot that is still retained are there to be read.  *)
LEMMA RetainedIsReadable ==
    ASSUME IInv
    PROVE  /\ MetadataObj(locked.version) \in store
           /\ Target \in meta.snaps =>
                /\ ListObj(Target) \in store
                /\ \A m \in lists[Target] : ManifestObj(m) \in store
  <1>1. TableTypeOK /\ locked \in TableMetadata
    BY DEF IInv, TypeOK
  <1>2. locked.version \in 0..meta.version
    BY <1>1, TypesOfTable, TableAssumption DEF IInv, LockIsOld, TableMetadata
  <1>3. meta.snaps \in SUBSET Snaps /\ Needed(meta.snaps) \subseteq store
    BY <1>1, TypesOfTable DEF IInv, TableInv, NeededIsStored
  <1>4. Needed(meta.snaps) = {ListObj(s) : s \in meta.snaps}
                               \cup {ManifestObj(m) : m \in ManifestsOf(meta.snaps)}
                               \cup {DataObj(f) : f \in Alive(ManifestsOf(meta.snaps))}
    BY <1>1, <1>3, NeededObjects
  <1>5. Target \in meta.snaps => lists[Target] \subseteq ManifestsOf(meta.snaps)
    BY DEF ManifestsOf
  <1>6. QED
    BY <1>2, <1>3, <1>4, <1>5 DEF IInv, TableInv, NeededIsStored

LEMMA OpenMissingInv ==
    ASSUME IInv, TypeOK', OpenMissing
    PROVE  IInv'
  <1>1. /\ phase' = "missing" /\ stats' = NoStats
        /\ UNCHANGED tableVars /\ UNCHANGED <<useBranch, locked, lockedRef, now, pending>>
        /\ UNCHANGED <<clock, store, mtime, meta, lists, entries, removed, prep, inflight, garbage>>
    BY DEF OpenMissing, tableVars
  <1>2. TableInv'
    BY <1>1, ScannerLeavesTheTable DEF IInv
  <1>3. Target' = Target
    BY <1>1 DEF Target, ResolveSnapshot
  <1>4. LockIsOld' /\ SnapshotFound' /\ CountedSoFar' /\ AgesSoFar'
    BY <1>1, <1>3 DEF IInv, LockIsOld, SnapshotFound, CountedSoFar, AgesSoFar
  <1>5. PICK o \in Wanted : o \notin store
    BY DEF OpenMissing
  <1>6. phase \in {"list", "manifests"} /\ Target \notin meta.snaps
    <2>1. phase \in {"loaded", "list", "manifests"}
      BY <1>5 DEF Wanted
    <2>2. CASE phase = "loaded"
      BY <1>5, <2>2, RetainedIsReadable DEF Wanted
    <2>3. CASE phase = "list"
      BY <1>5, <2>3, RetainedIsReadable DEF Wanted
    <2>4. CASE phase = "manifests"
      <3>1. PICK m \in pending : o = ManifestObj(m)
        BY <1>5, <2>4 DEF Wanted
      <3>2. m \in lists[Target]
        BY <2>4, <3>1 DEF IInv, CountedSoFar
      <3>3. QED
        BY <1>5, <2>4, <3>1, <3>2, RetainedIsReadable
    <2>5. QED
      BY <2>1, <2>2, <2>3, <2>4
  <1>7. Target \in locked.snaps
    BY <1>6, TargetType DEF IInv, SnapshotFound, TypeOK
  <1>8. GoneIsExpired'
    BY <1>1, <1>3, <1>6, <1>7 DEF GoneIsExpired
  <1>9. QED
    BY <1>2, <1>4, <1>8 DEF IInv

LEMMA ScanErrorInv ==
    ASSUME IInv, TypeOK', ScanError
    PROVE  IInv'
  <1>1. /\ phase' = "failed" /\ stats' = NoStats
        /\ UNCHANGED tableVars /\ UNCHANGED <<useBranch, locked, lockedRef, now, pending>>
        /\ UNCHANGED <<clock, store, mtime, meta, lists, entries, removed, prep, inflight, garbage>>
    BY DEF ScanError, tableVars
  <1>2. TableInv'
    BY <1>1, ScannerLeavesTheTable DEF IInv
  <1>3. SnapshotFound' /\ LockIsOld' /\ CountedSoFar' /\ AgesSoFar' /\ GoneIsExpired'
    BY <1>1 DEF IInv, LockIsOld, SnapshotFound, CountedSoFar, AgesSoFar, GoneIsExpired
  <1>4. QED
    BY <1>2, <1>3 DEF IInv

LEMMA NextIInv == IInv /\ [Next]_vars => IInv'
  <1> SUFFICES ASSUME IInv, [Next]_vars
               PROVE  IInv'
    OBVIOUS
  <1>1. TypeOK'
    BY NextTypeOK DEF IInv
  <1>2. CASE TableChanges /\ UNCHANGED scanVars
    <2>1. TableInv
      BY DEF IInv
    <2>2. /\ TableInv'
          /\ \A s \in Snaps : mtime[ListObj(s)] # 0 => Unaltered(s)
          /\ meta'.snaps \subseteq meta.snaps \cup {prep.snap}
          /\ meta.version <= meta'.version
          /\ prep'.snap # prep.snap =>
               prep'.snap = NoSnap \/ mtime[ListObj(prep'.snap)] = 0
      BY <1>2, <2>1, TableSteps
    <2>3. QED
      BY <1>1, <1>2, <2>2, OthersInv
  <1>3. CASE UNCHANGED <<store, mtime, meta, lists, entries, removed, prep, inflight, garbage>>
               /\ clock' \in 1..MaxClock /\ UNCHANGED scanVars
    <2>1. TableInv'
      BY <1>3, StutterInv DEF IInv
    <2>2. \A s \in Snaps : Unaltered(s)
      BY <1>3 DEF Unaltered
    <2>3. meta.version <= meta.version
      BY TypesOfTable DEF IInv, TableInv
    <2>4. QED
      BY <1>1, <1>3, <2>1, <2>2, <2>3, OthersInv
  <1>4. CASE Tick /\ UNCHANGED <<branch, scanVars>>
    <2>1. clock' \in 1..MaxClock
      BY <1>1 DEF TypeOK, TableTypeOK
    <2>2. QED
      BY <1>3, <1>4, <2>1 DEF Tick
  <1>5. CASE UNCHANGED vars
    <2>1. /\ UNCHANGED <<store, mtime, meta, lists, entries, removed, prep, inflight, garbage>>
          /\ clock' = clock /\ UNCHANGED scanVars
      BY <1>5 DEF vars, tableVars
    <2>2. clock' \in 1..MaxClock
      BY <1>1 DEF TypeOK, TableTypeOK
    <2>3. QED
      BY <1>3, <2>1, <2>2
  <1>6. CASE Scanner
    BY <1>1, <1>6, LoadTableInv, ReadMetadataInv, ReadListInv, ReadManifestInv, FinishInv,
       OpenMissingInv, ScanErrorInv DEF Scanner
  <1>7. QED
    BY <1>2, <1>4, <1>5, <1>6 DEF Next

(* The invariant holds of every run, whatever the writers do meanwhile.    *)
THEOREM Inductive == Spec => []IInv
  BY InitIInv, NextIInv, PTL DEF Spec

(* Every variable of the walk keeps its type; no age is negative.          *)
THEOREM TypeCorrect == Spec => []TypeOK
  <1>1. IInv => TypeOK
    BY DEF IInv
  <1>2. QED
    BY <1>1, Inductive, PTL

(* In whatever order the file lists the snapshots, the oldest age in a     *)
(* report is that of the oldest one; the newest age is that of some        *)
(* snapshot, and the least if no snapshot has the age 0.                   *)
THEOREM AgesOfAReport == Spec => []AgesAreExtreme
  <1>1. IInv => AgesAreExtreme
    BY DEF IInv, AgesSoFar, AgesAreExtreme
  <1>2. QED
    BY <1>1, Inductive, PTL

(* A scan finds an object missing only when its snapshot was expired.      *)
THEOREM OnlyExpiryDisturbs == Spec => []MissingMeansExpired
  <1>1. IInv => MissingMeansExpired
    BY DEF IInv, GoneIsExpired, MissingMeansExpired
  <1>2. QED
    BY <1>1, Inductive, PTL

-----------------------------------------------------------------------------
(* The walk implements a reading at one instant.                           *)
LEMMA FiguresAreViews ==
    ASSUME TableTypeOK, NEW s \in 0..MaxSnap
    PROVE  Figures(s) \in Views
  <1> DEFINE M == IF s = NoSnap THEN {} ELSE lists[s]
  <1>1. M \in SUBSET Snaps
    BY TableAssumption DEF TableTypeOK, NoSnap, Snaps
  <1>2. Alive(M) \in SUBSET DataFiles
    BY <1>1 DEF Alive, TableTypeOK
  <1>3. /\ Alive(M) \ DeleteFiles \in SUBSET DataFiles
        /\ Alive(M) \cap DeleteFiles \in SUBSET DataFiles
    BY <1>2
  <1>4. /\ Cardinality(M) \in Nat
        /\ Cardinality(Alive(M) \ DeleteFiles) \in Nat
        /\ Cardinality(Alive(M) \cap DeleteFiles) \in Nat
    BY <1>1, <1>3, FiniteCounts
  <1>5. Figures(s) = [snap |-> s, manifests |-> Cardinality(M),
                      data |-> Cardinality(Alive(M) \ DeleteFiles),
                      deletes |-> Cardinality(Alive(M) \cap DeleteFiles)]
    BY DEF Figures
  <1>6. QED
    BY <1>4, <1>5 DEF Views

(* The table, and what a scan locked, always look like a table.            *)
ViewsNow == Figures(TargetNow) \in Views /\ Figures(Target) \in Views

LEMMA TypedViews == TypeOK => ViewsNow
  <1> SUFFICES ASSUME TypeOK
               PROVE  ViewsNow
    OBVIOUS
  <1>1. TargetNow \in 0..MaxSnap
    BY TableAssumption DEF TypeOK, TableTypeOK, TableMetadata, TargetNow, ResolveSnapshot, NoSnap, Snaps
  <1>2. Target \in 0..MaxSnap
    BY TargetType DEF TypeOK
  <1>3. QED
    BY <1>1, <1>2, FiguresAreViews DEF TypeOK, ViewsNow

(* While the others work, what was locked and what was reported stay.      *)
LEMMA OthersRefine ==
    ASSUME IInv, ViewsNow', UNCHANGED scanVars,
           \A s \in Snaps : mtime[ListObj(s)] # 0 => Unaltered(s)
    PROVE  Lock!Change
  <1>1. \A s \in locked.snaps : Unaltered(s)
    BY DEF IInv, LockIsOld, TypeOK, TableMetadata
  <1>2. Figures(Target)' = Figures(Target)
    BY <1>1, OthersLeaveTheLock DEF IInv, scanVars
  <1>3. Figures(TargetNow)' \in Views
    BY DEF ViewsNow
  <1>4. Report' = Report
    BY DEF Report, Reported, scanVars
  <1>5. phase' = phase
    BY DEF scanVars
  <1>6. QED
    BY <1>2, <1>3, <1>4, <1>5 DEF Lock!Change, TargetNow

(* What the abstract specification sees of a scan.                         *)
seen == <<Figures(TargetNow), IF phase = "idle" THEN Nothing ELSE Figures(Target), Report>>

LEMMA ScannerRefines ==
    ASSUME IInv, IInv', Scanner
    PROVE  [Lock!Next]_seen
  <1>a. Figures(Target) \in Views /\ Figures(Target) # Nothing /\ NoReport # Nothing
    BY TypedViews, ReportAssumption DEF IInv, ViewsNow
  <1>1. ASSUME UNCHANGED tableVars, UNCHANGED <<useBranch, branch>>
        PROVE  /\ Figures(TargetNow)' = Figures(TargetNow)
               /\ UNCHANGED <<locked, lockedRef>> =>
                    Target' = Target /\ Figures(Target)' = Figures(Target)
    <2>1. UNCHANGED <<meta, lists, entries, removed>>
      BY <1>1 DEF tableVars
    <2>2. TargetNow' = TargetNow
      BY <1>1, <2>1 DEF TargetNow, ResolveSnapshot
    <2>3. Figures(TargetNow)' = Figures(TargetNow)
      BY <2>1, <2>2 DEF Figures, Alive
    <2>4. ASSUME UNCHANGED <<locked, lockedRef>>
          PROVE  Target' = Target /\ Figures(Target)' = Figures(Target)
      <3>1. Target' = Target
        BY <1>1, <2>4 DEF Target, ResolveSnapshot
      <3>2. QED
        BY <2>1, <3>1 DEF Figures, Alive
    <2>5. QED
      BY <2>3, <2>4
  <1>2. CASE LoadTable
    <2>1. /\ phase = "idle" /\ phase' = "loaded" /\ locked' = meta /\ lockedRef' = branch
          /\ UNCHANGED tableVars /\ UNCHANGED <<useBranch, branch>>
      BY <1>2 DEF LoadTable
    <2>2. Figures(Target)' = Figures(TargetNow)
      BY <2>1 DEF tableVars, TargetNow, Target, ResolveSnapshot, Figures, Alive
    <2>3. Report = Nothing /\ Report' = Nothing
      BY <2>1 DEF Report
    <2>4. Lock!Lock
      BY <1>1, <2>1, <2>2, <2>3 DEF Lock!Lock, TargetNow
    <2>5. QED
      BY <2>4 DEF Lock!Next
  <1>3. ASSUME phase \in {"loaded", "list", "manifests"}, phase' # "idle",
               UNCHANGED tableVars, UNCHANGED <<useBranch, branch, locked, lockedRef>>
        PROVE  [Lock!Next]_seen
    <2>1. /\ Figures(TargetNow)' = Figures(TargetNow)
          /\ Target' = Target /\ Figures(Target)' = Figures(Target)
      BY <1>1, <1>3
    <2>2. phase # "idle" /\ Report = Nothing
      BY <1>3 DEF Report
    <2>3. Report' \in {Nothing, Figures(Target), NoReport}
      <3>1. phase' = "done" => Reported' = Figures(Target)'
        BY DEF IInv, CountedSoFar
      <3>2. QED
        BY <2>1, <3>1 DEF Report
    <2>4. CASE Report' = Nothing
      BY <1>3, <2>1, <2>2, <2>4 DEF seen
    <2>5. CASE Report' \in {Figures(Target), NoReport}
      <3>1. Lock!Report
        BY <1>a, <1>3, <2>1, <2>2, <2>5 DEF Lock!Report, TargetNow
      <3>2. QED
        BY <3>1 DEF Lock!Next
    <2>6. QED
      BY <2>3, <2>4, <2>5
  <1>4. CASE ReadMetadata
    BY <1>3, <1>4 DEF ReadMetadata
  <1>5. CASE ReadList
    BY <1>3, <1>5 DEF ReadList
  <1>6. ASSUME NEW m \in Snaps, ReadManifest(m)
        PROVE  [Lock!Next]_seen
    BY <1>3, <1>6 DEF ReadManifest
  <1>7. CASE Finish
    BY <1>3, <1>7 DEF Finish
  <1>8. CASE OpenMissing
    <2>1. phase \in {"loaded", "list", "manifests"}
      BY <1>8 DEF OpenMissing, Wanted
    <2>2. QED
      BY <1>3, <1>8, <2>1 DEF OpenMissing
  <1>9. CASE ScanError
    BY <1>3, <1>9 DEF ScanError
  <1>10. QED
    BY <1>2, <1>4, <1>5, <1>6, <1>7, <1>8, <1>9 DEF Scanner

LEMMA NextRefines == IInv /\ IInv' /\ ViewsNow' /\ [Next]_vars => [Lock!Next]_seen
  <1> SUFFICES ASSUME IInv, IInv', ViewsNow', [Next]_vars
               PROVE  [Lock!Next]_seen
    OBVIOUS
  <1>1. CASE TableChanges /\ UNCHANGED scanVars
    <2>1. \A s \in Snaps : mtime[ListObj(s)] # 0 => Unaltered(s)
      BY <1>1, TableSteps DEF IInv
    <2>2. Lock!Change
      BY <1>1, <2>1, OthersRefine
    <2>3. QED
      BY <2>2 DEF Lock!Next
  <1>2. CASE (Tick /\ UNCHANGED <<branch, scanVars>>) \/ UNCHANGED vars
    <2>1. UNCHANGED scanVars /\ UNCHANGED <<mtime, lists, entries, removed>>
      BY <1>2 DEF Tick, vars, tableVars
    <2>2. \A s \in Snaps : Unaltered(s)
      BY <2>1 DEF Unaltered
    <2>3. Lock!Change
      BY <2>1, <2>2, OthersRefine
    <2>4. QED
      BY <2>3 DEF Lock!Next
  <1>3. CASE Scanner
    BY <1>3, ScannerRefines
  <1>4. QED
    BY <1>1, <1>2, <1>3 DEF Next

LEMMA InitRefines == Init => Lock!Init
  <1> SUFFICES ASSUME Init
               PROVE  Lock!Init
    OBVIOUS
  <1>1. Figures(TargetNow) \in Views
    BY InitTypeOK, TypedViews DEF ViewsNow
  <1>2. phase = "idle" /\ Report = Nothing
    BY DEF Init, Report
  <1>3. QED
    BY <1>1, <1>2 DEF Lock!Init, TargetNow

(* README.md:384: the report is what the table was at the lock, although   *)
(* commits, expiry and branch moves go on between any two reads.           *)
THEOREM ReportIsPointInTime == Spec => IsPointInTime
  BY InitRefines, NextRefines, TypedViews, TypeCorrect, Inductive, PTL
     DEF Spec, IsPointInTime, Lock!Spec, seen, TargetNow
=============================================================================
