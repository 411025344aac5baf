--------------------------- MODULE CatalogsProofs ---------------------------
(***************************************************************************)
(* What holds of the catalogs for every number of names, page size and     *)
(* tree of directories, whatever others do to the catalog meanwhile; of    *)
(* the Hive decoder for all parameters and lists of tables; and of the     *)
(* token cache for any number of callers and tokens, every margin, latency *)
(* and set of lifetimes.                                                   *)
(***************************************************************************)
EXTENDS Catalogs, OAuthToken, FiniteSetTheorems, SequenceTheorems,
        WellFoundedInduction, TLAPS

(* A set of naturals has a least element.                                  *)
LEMMA LeastNatural ==
    ASSUME NEW T \in SUBSET Nat, T # {}
    PROVE  \E x \in T : \A y \in T : x <= y
  <1>1. PICK x \in T : \A y \in T : ~ (<<y, x>> \in OpToRel(<, Nat))
    BY NatLessThanWellFounded, WFMin
  <1>2. \A y \in T : ~ (y < x)
    BY <1>1 DEF OpToRel
  <1>3. QED
    BY <1>2

(* Induction along a range, for a set that is given.                       *)
LEMMA Upwards ==
    ASSUME NEW n \in Nat, NEW T, 0 \in T, \A k \in 1..n : k - 1 \in T => k \in T
    PROVE  0..n \subseteq T
  <1> DEFINE bad == {k \in 0..n : k \notin T}
  <1> SUFFICES ASSUME bad # {}
               PROVE  FALSE
    OBVIOUS
  <1>1. PICK x \in bad : \A y \in bad : x <= y
    <2>1. bad \in SUBSET Nat
      OBVIOUS
    <2>2. QED
      BY <2>1, LeastNatural
  <1>2. x \in 1..n
    BY <1>1
  <1>3. x - 1 \in 0..n /\ ~ (x <= x - 1)
    BY <1>2
  <1>4. x - 1 \in T
    BY <1>1, <1>3
  <1>5. QED
    BY <1>1, <1>2, <1>4

(* A loop over a range has a result: the values of its one variable before *)
(* the first and after every turn are a function.                          *)
Runs(f, S, start, n, turn) ==
    f \in [0..n -> S] /\ f[0] = start /\ \A k \in 1..n : f[k] = turn[k][f[k - 1]]

LEMMA LoopExists ==
    ASSUME NEW S, NEW start \in S, NEW n \in Nat, NEW turn \in [1..n -> [S -> S]]
    PROVE  \E f : Runs(f, S, start, n, turn)
  <1> DEFINE Upto(m, f) == f[0] = start /\ \A k \in 1..m : f[k] = turn[k][f[k - 1]]
             T == {m \in 0..n : \E f \in [0..n -> S] : Upto(m, f)}
  <1>1. 0 \in T
    <2>1. [k \in 0..n |-> start] \in [0..n -> S] /\ Upto(0, [k \in 0..n |-> start])
      OBVIOUS
    <2>2. 0 \in 0..n
      OBVIOUS
    <2>3. QED
      BY <2>1, <2>2
  <1>2. ASSUME NEW m \in 1..n, m - 1 \in T
        PROVE  m \in T
    <2>1. PICK f \in [0..n -> S] : Upto(m - 1, f)
      BY <1>2
    <2> DEFINE g == [f EXCEPT ![m] = turn[m][f[m - 1]]]
    <2>2. turn[m][f[m - 1]] \in S
      <3>1. m - 1 \in 0..n
        OBVIOUS
      <3>2. f[m - 1] \in S
        BY <2>1, <3>1
      <3>3. turn[m] \in [S -> S]
        OBVIOUS
      <3>4. QED
        BY <3>2, <3>3
    <2>3. g \in [0..n -> S] /\ g[m] = turn[m][f[m - 1]]
      <3>1. m \in 0..n
        OBVIOUS
      <3>2. QED
        BY <2>1, <2>2, <3>1
    <2>4. \A k \in 0..n : k # m => g[k] = f[k]
      BY <2>1
    <2>5. Upto(m, g)
      <3>1. g[0] = start
        BY <2>1, <2>4
      <3>2. ASSUME NEW k \in 1..m
            PROVE  g[k] = turn[k][g[k - 1]]
        <4>1. k - 1 # m /\ k - 1 \in 0..n
          OBVIOUS
        <4>2. CASE k = m
          BY <2>3, <2>4, <4>1, <4>2
        <4>3. CASE k # m
          <5>1. k \in 1..(m - 1) /\ k \in 0..n
            BY <4>3
          <5>2. f[k] = turn[k][f[k - 1]]
            BY <2>1, <5>1
          <5>3. QED
            BY <2>4, <4>1, <4>3, <5>1, <5>2
        <4>4. QED
          BY <4>2, <4>3
      <3>3. QED
        BY <3>1, <3>2
    <2>6. m \in 0..n
      OBVIOUS
    <2> HIDE DEF g, Upto
    <2>7. QED
      BY <2>3, <2>5, <2>6
  <1>3. n \in T
    <2> HIDE DEF T
    <2>1. 0..n \subseteq T
      BY <1>1, <1>2, Upwards
    <2>2. QED
      BY <2>1
  <1>4. QED
    BY <1>3 DEF Runs

-----------------------------------------------------------------------------
(* The listing of Glue and REST.  The invariant, part by part.             *)

Ordered(s) == \A i, j \in DOMAIN s : i < j => s[i] < s[j]
Accepted(ns) == {n \in ns : IsIceberg(tables[n])}

(* What is listed is in order, up to the page token, and was there.        *)
OutInOrder ==
    /\ out \in Seq(Names) /\ Ordered(out)
    /\ listing = "idle" => pageToken = 0 /\ out = <<>>
    /\ listing = "paging" => \A n \in Listed : n <= pageToken
    /\ listing \in {"paging", "done"} => Listed \subseteq ever

(* Nothing that was there all along has been passed by.                    *)
NothingPassedBy ==
    /\ listing = "paging" => \A n \in always : n <= pageToken => n \in Listed
    /\ listing = "done" => cut \/ always \subseteq Listed

(* The histories: what is there now has been there at some instant.        *)
Histories ==
    /\ listing \in {"paging", "done"} => always \subseteq IcebergTables /\ IcebergTables \subseteq ever
    /\ listing = "idle" => loads = [n \in Names |-> NotLoaded]
    /\ always \subseteq ever /\ ever \subseteq Names
    /\ NotFoundMeansDropped

ListingTypes ==
    /\ tables \in [Names -> Registered \cup {Absent}]
    /\ changes \in 0..MaxChange
    /\ listing \in {"idle", "paging", "done", "failed"}
    /\ pageToken \in 0..MaxName
    /\ loads \in [Names -> {NotLoaded, "loaded", "not found", "no location", "error"}]

CutType == cut \in BOOLEAN

ListingInv == ListingTypes /\ CutType /\ OutInOrder /\ NothingPassedBy /\ Histories

(* A sequence in order has no element twice.                               *)
LEMMA OrderedHasNoTwins ==
    ASSUME NEW s \in Seq(Names), Ordered(s)
    PROVE  Len(s) = Cardinality(Range(s))
  <1>1. DOMAIN s = 1..Len(s) /\ Len(s) \in Nat /\ \A i \in DOMAIN s : s[i] \in Nat
    <2>1. DOMAIN s = 1..Len(s) /\ Len(s) \in Nat /\ \A i \in DOMAIN s : s[i] \in Names
      OBVIOUS
    <2>2. Names \subseteq Nat
      BY DEF Names
    <2>3. QED
      BY <2>1, <2>2
  <1>2. ASSUME NEW i \in DOMAIN s, NEW j \in DOMAIN s, s[i] = s[j]
        PROVE  i = j
    <2>1. ~ (s[i] < s[j]) /\ ~ (s[j] < s[i])
      BY <1>1, <1>2
    <2>2. QED
      BY <1>1, <1>2, <2>1 DEF Ordered
  <1>3. s \in Bijection(1..Len(s), Range(s))
    BY <1>1, <1>2 DEF Bijection, Injection, Surjection, IsInjective, Range
  <1>4. IsFiniteSet(1..Len(s)) /\ Cardinality(1..Len(s)) = Len(s)
    <2>1. Cardinality(1..Len(s)) = IF 1 > Len(s) THEN 0 ELSE Len(s) - 1 + 1
      BY <1>1, FS_Interval
    <2>2. QED
      BY <1>1, <2>1, FS_Interval
  <1>5. QED
    BY <1>3, <1>4, FS_Bijection DEF ExistsBijection

(* Appending one beyond all of them.                                       *)
LEMMA AppendInOrder ==
    ASSUME NEW s \in Seq(Names), Ordered(s), NEW n \in Names, \A m \in Range(s) : m < n
    PROVE  /\ Append(s, n) \in Seq(Names) /\ Ordered(Append(s, n))
           /\ Range(Append(s, n)) = Range(s) \cup {n}
  <1>1. /\ DOMAIN s = 1..Len(s) /\ Len(s) \in Nat
        /\ DOMAIN Append(s, n) = 1..(Len(s) + 1)
        /\ \A i \in 1..Len(s) : Append(s, n)[i] = s[i]
        /\ Append(s, n)[Len(s) + 1] = n
        /\ Append(s, n) \in Seq(Names)
    OBVIOUS
  <1>2. \A i \in 1..Len(s) : s[i] < n
    BY <1>1 DEF Range
  <1>3. Ordered(Append(s, n))
    BY <1>1, <1>2 DEF Ordered
  <1>4. Range(Append(s, n)) = Range(s) \cup {n}
    <2>1. 1..(Len(s) + 1) = 1..Len(s) \cup {Len(s) + 1}
      BY <1>1
    <2> DEFINE t == Append(s, n)
    <2>2. Range(t) = {t[i] : i \in 1..Len(s)} \cup {t[Len(s) + 1]}
      BY <1>1, <2>1 DEF Range
    <2>3. {t[i] : i \in 1..Len(s)} = {s[i] : i \in 1..Len(s)}
      BY <1>1
    <2>4. QED
      BY <1>1, <2>2, <2>3 DEF Range
  <1>5. QED
    BY <1>1, <1>3, <1>4

(* What the loop over a page makes of out: the accepted names of the page  *)
(* follow, in order.                                                       *)
LEMMA AppendedPage ==
    ASSUME NEW last \in Names, out \in Seq(Names), Ordered(out),
           \A n \in Listed : n <= pageToken, pageToken \in Nat
    PROVE  /\ Appended(last) \in Seq(Names) /\ Ordered(Appended(last))
           /\ Range(Appended(last)) = Listed \cup Accepted(Page(last))
  <1> DEFINE Taken(n) == n \in Page(last) /\ IsIceberg(tables[n])
             Turn(n, s) == IF Taken(n) THEN Append(s, n) ELSE s
             turn == [n \in 1..MaxName |-> [s \in Seq(Names) |-> Turn(n, s)]]
             Loop(g) == [n \in 0..MaxName |-> IF n = 0 THEN out ELSE Turn(n, g[n - 1])]
             upTo == CHOOSE g : g = Loop(g)
  <1>a. MaxName \in Nat /\ Names = 1..MaxName
    BY ListingAssumption DEF Names
  <1>b. \A n \in Page(last) : n \in Names /\ n > pageToken
    BY DEF Page, After
  <1>c. \A n \in Names : \A s \in Seq(Names) : Turn(n, s) \in Seq(Names)
    OBVIOUS
  <1>7. Appended(last) = upTo[MaxName]
    BY DEF Appended
  <1> HIDE DEF Turn
  <1>1. turn \in [1..MaxName -> [Seq(Names) -> Seq(Names)]]
    BY <1>a, <1>c
  <1>2. PICK f \in [0..MaxName -> Seq(Names)] :
          f[0] = out /\ \A n \in 1..MaxName : f[n] = turn[n][f[n - 1]]
    <2> DEFINE Lists == Seq(Names)
    <2>1. out \in Lists /\ MaxName \in Nat /\ turn \in [1..MaxName -> [Lists -> Lists]]
      BY <1>a, <1>1
    <2> HIDE DEF turn, Lists
    <2>2. PICK f : Runs(f, Lists, out, MaxName, turn)
      BY <2>1, LoopExists, Zenon
    <2>3. QED
      BY <2>2 DEF Lists, Runs
  <1>3. \A n \in 1..MaxName : f[n] = Turn(n, f[n - 1])
    <2>1. \A n \in 1..MaxName : f[n - 1] \in Seq(Names)
      BY <1>a, <1>2
    <2>2. QED
      BY <1>2, <2>1
  <1>4. f = Loop(f)
    BY <1>a, <1>2, <1>3
  <1>5. upTo = Loop(upTo)
    <2> HIDE DEF Loop
    <2>1. QED
      BY <1>4
  <1>6. upTo[0] = out /\ \A n \in 1..MaxName : upTo[n] = Turn(n, upTo[n - 1])
    <2> HIDE DEF upTo
    <2>1. QED
      BY <1>a, <1>5
  <1> HIDE DEF upTo, Loop, turn
  <1> DEFINE Good(n, s) ==
               /\ s \in Seq(Names) /\ Ordered(s)
               /\ Range(s) = Listed \cup {m \in Page(last) : m <= n /\ IsIceberg(tables[m])}
             T == {n \in 0..MaxName : Good(n, upTo[n])}
  <1>8. 0 \in T
    <2>1. {m \in Page(last) : m <= 0 /\ IsIceberg(tables[m])} = {}
      BY <1>a, <1>b
    <2>2. Good(0, out)
      BY <2>1 DEF Listed
    <2>3. QED
      BY <1>a, <1>6, <2>2
  <1>9. ASSUME NEW n \in 1..MaxName, n - 1 \in T
        PROVE  n \in T
    <2>1. Good(n - 1, upTo[n - 1]) /\ n \in 0..MaxName /\ n \in Names /\ n \in Nat
      BY <1>a, <1>9
    <2>2. CASE Taken(n)
      <3>1. n > pageToken /\ n \in Page(last)
        BY <1>b, <2>2
      <3>2. ASSUME NEW m \in Range(upTo[n - 1])
            PROVE  m < n
        <4>1. m \in Listed \/ (m \in Page(last) /\ m <= n - 1)
          BY <2>1, <3>2
        <4>2. CASE m \in Listed
          <5>1. m <= pageToken /\ m \in Nat
            BY <4>2, <1>a DEF Listed, Range
          <5>2. QED
            BY <2>1, <3>1, <5>1
        <4>3. CASE m \in Page(last) /\ m <= n - 1
          <5>1. m \in Nat
            BY <1>a, <1>b, <4>3
          <5>2. QED
            BY <2>1, <4>3, <5>1
        <4>4. QED
          BY <4>1, <4>2, <4>3
      <3>3. upTo[n] = Append(upTo[n - 1], n)
        BY <1>6, <2>2 DEF Turn
      <3>4. /\ upTo[n] \in Seq(Names) /\ Ordered(upTo[n])
            /\ Range(upTo[n]) = Range(upTo[n - 1]) \cup {n}
        BY <2>1, <3>2, <3>3, AppendInOrder
      <3>5. {m \in Page(last) : m <= n /\ IsIceberg(tables[m])}
              = {m \in Page(last) : m <= n - 1 /\ IsIceberg(tables[m])} \cup {n}
        <4>1. ASSUME NEW m \in Page(last)
              PROVE  m <= n <=> m <= n - 1 \/ m = n
          <5>1. m \in Nat
            BY <1>a, <1>b
          <5>2. QED
            BY <2>1, <5>1
        <4>2. n <= n /\ n \in Page(last) /\ IsIceberg(tables[n])
          BY <2>1, <2>2
        <4> HIDE DEF Taken
        <4>3. QED
          BY <4>1, <4>2, Zenon
      <3>6. QED
        BY <2>1, <3>4, <3>5
    <2>3. CASE ~Taken(n)
      <3>1. upTo[n] = upTo[n - 1]
        BY <1>6, <2>3 DEF Turn
      <3>2. {m \in Page(last) : m <= n /\ IsIceberg(tables[m])}
              = {m \in Page(last) : m <= n - 1 /\ IsIceberg(tables[m])}
        BY <1>a, <1>b, <2>1, <2>3
      <3>3. QED
        BY <2>1, <3>1, <3>2
    <2>4. QED
      BY <2>2, <2>3
  <1>10. MaxName \in T
    <2> HIDE DEF T
    <2>1. 0..MaxName \subseteq T
      BY <1>a, <1>8, <1>9, Upwards
    <2>2. QED
      BY <1>a, <2>1
  <1>11. {m \in Page(last) : m <= MaxName /\ IsIceberg(tables[m])} = Accepted(Page(last))
    BY <1>a, <1>b DEF Accepted
  <1>12. QED
    BY <1>7, <1>10, <1>11

LEMMA ListingCounters ==
    ASSUME ListingInv
    PROVE  /\ ListingTypes /\ changes \in 0..MaxChange /\ pageToken \in 0..MaxName
           /\ MaxChange \in Nat /\ MaxName \in Nat
  BY ListingAssumption, Zenon DEF ListingInv, ListingTypes, ListingAssumption

(* The Iceberg tables are those that the rule of Glue accepts.             *)
LEMMA AcceptedAreIceberg ==
    ASSUME ListingTypes, NEW n \in Names
    PROVE  /\ IsIceberg(tables[n]) <=> n \in IcebergTables
           /\ n \in IcebergTables => tables[n] # Absent
  <1>1. Registered \subseteq Parameters
    <2>1. [type |-> "ICEBERG", location |-> TRUE] \in Parameters
      BY DEF Parameters
    <2>2. QED
      BY <2>1 DEF Registered
  <1>2. tables[n] \in Parameters \cup {Absent}
    BY <1>1 DEF ListingTypes
  <1>3. CASE tables[n] = Absent
    <2>1. Absent.type = "absent" /\ Absent \notin IcebergParameters
      BY DEF Absent, IcebergParameters
    <2>2. QED
      BY <1>3, <2>1 DEF IsIceberg, IcebergTables
  <1>4. ASSUME NEW p \in Parameters
        PROVE  /\ IsIceberg(p) <=> p \in IcebergParameters
               /\ p # Absent
    <2>1. PICK t \in {"", "ICEBERG", "OTHER"}, l \in BOOLEAN : p = [type |-> t, location |-> l]
      BY DEF Parameters
    <2>2. p.type = t /\ p.location = l
      BY <2>1
    <2>3. p # Absent
      <3>1. p.type # "absent" /\ Absent.type = "absent"
        BY <2>2 DEF Absent
      <3>2. QED
        BY <3>1
    <2>4. IsIceberg(p) => p \in IcebergParameters
      BY <2>1, <2>2 DEF IsIceberg, IcebergParameters
    <2>5. \A q \in IcebergParameters : IsIceberg(q)
      <3>1. \A b \in BOOLEAN : [type |-> "ICEBERG", location |-> b].type = "ICEBERG"
        OBVIOUS
      <3>2. /\ [type |-> "", location |-> TRUE].type = ""
            /\ [type |-> "", location |-> TRUE].location
        OBVIOUS
      <3>3. QED
        BY <3>1, <3>2 DEF IsIceberg, IcebergParameters
    <2>6. QED
      BY <2>3, <2>4, <2>5
  <1>5. QED
    BY <1>2, <1>3, <1>4 DEF IcebergTables

LEMMA ListingInitInv == ListingInit => ListingInv
  <1> SUFFICES ASSUME ListingInit
               PROVE  ListingInv
    OBVIOUS
  <1>1. ListingTypes
    BY ListingAssumption DEF ListingInit, ListingTypes
  <1>2. OutInOrder
    BY DEF ListingInit, OutInOrder, Ordered
  <1>3. NothingPassedBy /\ Histories
    BY DEF ListingInit, NothingPassedBy, Histories, NotFoundMeansDropped, NotLoaded
  <1>4. CutType
    BY DEF ListingInit, CutType
  <1>5. QED
    BY <1>1, <1>2, <1>3, <1>4 DEF ListingInv

LEMMA StartInv ==
    ASSUME ListingInv, Start
    PROVE  ListingInv'
  <1>1. listing = "idle" /\ listing' = "paging" /\ always' = IcebergTables /\ ever' = IcebergTables
    BY DEF Start
  <1>2. UNCHANGED <<catalog, tables, changes, pageToken, out, loads, cut>>
    BY DEF Start
  <1>3. IcebergTables' = IcebergTables /\ Registered' = Registered /\ Listed' = Listed
    BY <1>2 DEF IcebergTables, Registered, Listed
  <1>4. Listed = {} /\ pageToken = 0
    BY <1>1 DEF ListingInv, OutInOrder, Listed, Range
  <1>5. ListingTypes'
    BY <1>1, <1>2, <1>3 DEF ListingInv, ListingTypes
  <1>6. OutInOrder'
    BY <1>1, <1>2, <1>3, <1>4 DEF ListingInv, OutInOrder, Ordered
  <1>7. \A n \in Names : ~ (n <= 0)
    BY DEF Names
  <1>8. IcebergTables \subseteq Names
    BY DEF IcebergTables
  <1>9. NothingPassedBy'
    BY <1>1, <1>2, <1>4, <1>7, <1>8 DEF NothingPassedBy
  <1>10. NotFoundMeansDropped'
    BY <1>1, <1>2 DEF ListingInv, Histories, NotFoundMeansDropped, NotLoaded
  <1>11. CutType'
    BY <1>2 DEF ListingInv, CutType
  <1>12. QED
    BY <1>11, <1>1, <1>3, <1>5, <1>6, <1>8, <1>9, <1>10 DEF ListingInv, Histories

LEMMA ReadPageInv ==
    ASSUME ListingInv, NEW last \in Names, ReadPage(last)
    PROVE  ListingInv'
  <1>a. /\ listing = "paging" /\ last > pageToken /\ out' = Appended(last)
        /\ UNCHANGED <<catalog, tables, changes, loads, always, ever>>
    BY DEF ReadPage
  <1>b. \/ catalog = "glue" /\ MoreAfter(last) /\ pageToken' = last /\ listing' = "paging" /\ cut' = cut
        \/ /\ listing' = "done" /\ pageToken' = pageToken
           /\ cut' = (catalog = "rest" /\ MoreAfter(last))
           /\ catalog # "glue" \/ ~MoreAfter(last)
    BY <1>a DEF ReadPage, GoesOn, NextToken
  <1>c. /\ ListingTypes /\ pageToken \in Nat /\ Names \subseteq Nat
        /\ out \in Seq(Names) /\ Ordered(out) /\ \A n \in Listed : n <= pageToken
        /\ Listed \subseteq ever /\ Listed \subseteq Names
        /\ \A n \in always : n <= pageToken => n \in Listed
        /\ always \subseteq IcebergTables /\ IcebergTables \subseteq ever /\ ever \subseteq Names
    <2>1. ListingTypes /\ pageToken \in Nat /\ Names \subseteq Nat
      BY ListingCounters DEF Names
    <2>2. /\ out \in Seq(Names) /\ Ordered(out) /\ \A n \in Listed : n <= pageToken
          /\ Listed \subseteq ever
      BY <1>a DEF ListingInv, OutInOrder
    <2>3. Listed \subseteq Names
      BY <2>2 DEF Listed, Range
    <2>4. \A n \in always : n <= pageToken => n \in Listed
      BY <1>a DEF ListingInv, NothingPassedBy
    <2>5. always \subseteq IcebergTables /\ IcebergTables \subseteq ever /\ ever \subseteq Names
      BY <1>a DEF ListingInv, Histories
    <2>6. QED
      BY <2>1, <2>2, <2>3, <2>4, <2>5
  <1>1. /\ out' \in Seq(Names) /\ Ordered(out')
        /\ Listed' = Listed \cup Accepted(Page(last))
    BY <1>a, <1>c, AppendedPage DEF Listed
  <1>2. Accepted(Page(last)) \subseteq IcebergTables /\ \A n \in Accepted(Page(last)) : n <= last
    BY <1>c, AcceptedAreIceberg DEF Accepted, Page, After
  <1>3. \A n \in Listed' : n <= last
    <2>1. \A n \in Listed : n <= last
      BY <1>a, <1>c
    <2>2. QED
      BY <1>1, <1>2, <2>1
  <1>4. ASSUME NEW n \in always
        PROVE  n \in Listed' \/ (n > last /\ MoreAfter(last))
    <2>1. n \in Names /\ n \in Nat /\ last \in Nat /\ IsIceberg(tables[n]) /\ tables[n] # Absent
      BY <1>c, AcceptedAreIceberg
    <2>2. CASE n <= pageToken
      BY <1>1, <1>c, <2>2
    <2>3. CASE pageToken < n /\ n <= last
      <3>1. n \in Accepted(Page(last))
        BY <2>1, <2>3 DEF Accepted, Page, After
      <3>2. QED
        BY <1>1, <3>1
    <2>4. CASE n > last
      BY <2>1, <2>4 DEF MoreAfter, After
    <2>5. QED
      BY <1>c, <2>1, <2>2, <2>3, <2>4
  <1>5. IcebergTables' = IcebergTables /\ Registered' = Registered
    BY <1>a DEF IcebergTables, Registered
  <1>6. ListingTypes'
    <2>1. listing' \in {"paging", "done"} /\ pageToken' \in {pageToken, last}
      BY <1>b
    <2>2. pageToken' \in 0..MaxName
      BY <1>c, <2>1, ListingCounters DEF Names
    <2>3. QED
      BY <1>a, <1>c, <1>5, <2>1, <2>2 DEF ListingTypes
  <1>7. OutInOrder'
    BY <1>a, <1>b, <1>c, <1>1, <1>2, <1>3, <1>5 DEF OutInOrder
  <1>8. NothingPassedBy'
    <2>1. catalog \in {"glue", "rest"} \/ ~MoreAfter(last)
      <3>1. catalog \notin {"glue", "rest"} => Registered = {}
        BY DEF Registered
      <3>2. Registered = {} => After(last) = {}
        BY <1>c DEF After, ListingTypes
      <3>3. QED
        BY <3>1, <3>2 DEF MoreAfter
    <2>2. CASE listing' = "paging"
      <3>1. \A n \in always' : n <= last => n \in Listed'
        <4>1. \A n \in Names : n <= last => ~ (n > last)
          BY <1>c
        <4>2. QED
          BY <1>a, <1>c, <1>4, <4>1
      <3>2. pageToken' = last
        BY <1>b, <2>2
      <3>3. QED
        BY <2>2, <3>1, <3>2 DEF NothingPassedBy
    <2>3. CASE listing' = "done" /\ MoreAfter(last)
      BY <1>b, <2>1, <2>3 DEF NothingPassedBy
    <2>4. CASE listing' = "done" /\ ~MoreAfter(last)
      BY <1>a, <1>4, <2>4 DEF NothingPassedBy
    <2>5. QED
      BY <1>b, <2>2, <2>3, <2>4
  <1>9. Histories'
    BY <1>a, <1>b, <1>c, <1>5 DEF ListingInv, Histories, NotFoundMeansDropped
  <1>10. CutType'
    BY <1>a, <1>b DEF ListingInv, CutType
  <1>11. QED
    BY <1>10, <1>6, <1>7, <1>8, <1>9 DEF ListingInv

LEMMA ReadFailsInv ==
    ASSUME ListingInv, ReadFails
    PROVE  ListingInv'
  <1>1. /\ listing' = "failed" /\ out' = <<>>
        /\ UNCHANGED <<catalog, tables, changes, pageToken, loads, cut, always, ever>>
    BY DEF ReadFails
  <1>2. ListingTypes'
    BY <1>1 DEF ListingInv, ListingTypes, Registered
  <1>3. OutInOrder' /\ NothingPassedBy'
    BY <1>1 DEF OutInOrder, NothingPassedBy, Ordered
  <1>4. Histories'
    BY <1>1 DEF ListingInv, Histories, NotFoundMeansDropped
  <1>5. CutType'
    BY <1>1 DEF ListingInv, CutType
  <1>6. QED
    BY <1>5, <1>2, <1>3, <1>4 DEF ListingInv

LEMMA LoadInv ==
    ASSUME ListingInv, NEW n \in Names, Load(n)
    PROVE  ListingInv'
  <1>1. /\ listing = "done"
        /\ UNCHANGED <<catalog, tables, changes, listing, pageToken, out, cut, always, ever>>
    BY DEF Load
  <1>2. PICK o \in {Outcome(tables[n]), "error"} : loads' = [loads EXCEPT ![n] = o]
    BY DEF Load
  <1>3. Listed' = Listed /\ IcebergTables' = IcebergTables /\ Registered' = Registered
    BY <1>1 DEF Listed, IcebergTables, Registered
  <1>4. o \in {"loaded", "not found", "no location", "error"} /\ (o = "not found" => tables[n] = Absent)
    BY <1>2 DEF Outcome
  <1>5. o = "not found" => n \notin always
    BY <1>1, <1>4, AcceptedAreIceberg DEF ListingInv, Histories
  <1>6. loads \in [Names -> {NotLoaded, "loaded", "not found", "no location", "error"}]
    BY DEF ListingInv, ListingTypes
  <1>7. ListingTypes'
    BY <1>1, <1>2, <1>3, <1>4, <1>6 DEF ListingInv, ListingTypes
  <1>8. NotFoundMeansDropped'
    BY <1>1, <1>2, <1>5, <1>6 DEF ListingInv, Histories, NotFoundMeansDropped
  <1>9. OutInOrder' /\ NothingPassedBy'
    BY <1>1, <1>3 DEF ListingInv, OutInOrder, NothingPassedBy, Ordered
  <1>10. CutType'
    BY <1>1 DEF ListingInv, CutType
  <1>11. QED
    BY <1>10, <1>1, <1>3, <1>7, <1>8, <1>9 DEF ListingInv, Histories

LEMMA ChangeInv ==
    ASSUME ListingInv, NEW n \in Names, Change(n)
    PROVE  ListingInv'
  <1>1. /\ changes < MaxChange /\ listing \in {"paging", "done"} /\ changes' = changes + 1
        /\ always' = always \cap IcebergTables' /\ ever' = ever \cup IcebergTables'
        /\ UNCHANGED <<catalog, listing, pageToken, out, loads, cut>>
    BY DEF Change
  <1>2. tables' \in [Names -> Registered \cup {Absent}]
    BY DEF Change, ListingInv, ListingTypes
  <1>3. Listed' = Listed /\ Registered' = Registered /\ IcebergTables' \subseteq Names
    BY <1>1 DEF Listed, IcebergTables, Registered
  <1>4. ListingTypes'
    <2>1. changes' \in 0..MaxChange
      <3>1. changes < MaxChange /\ changes' = changes + 1
        BY <1>1
      <3>2. QED
        BY <3>1, ListingCounters
    <2>2. UNCHANGED <<listing, pageToken, loads>>
      BY <1>1
    <2>3. QED
      BY <1>2, <1>3, <2>1, <2>2 DEF ListingInv, ListingTypes
  <1>5. OutInOrder' /\ NothingPassedBy'
    BY <1>1, <1>3 DEF ListingInv, OutInOrder, NothingPassedBy, Ordered
  <1>6. Histories'
    BY <1>1, <1>3 DEF ListingInv, Histories, NotFoundMeansDropped
  <1>7. CutType'
    BY <1>1 DEF ListingInv, CutType
  <1>8. QED
    BY <1>7, <1>4, <1>5, <1>6 DEF ListingInv

LEMMA ListingNextInv == ListingInv /\ [ListingNext]_listingVars => ListingInv'
  <1>1. ASSUME ListingInv, UNCHANGED listingVars
        PROVE  ListingInv'
    BY <1>1 DEF listingVars, ListingInv, ListingTypes, CutType, OutInOrder, NothingPassedBy, Histories,
                NotFoundMeansDropped, Listed, IcebergTables, Registered, Ordered
  <1>2. QED
    BY <1>1, StartInv, ReadPageInv, ReadFailsInv, LoadInv, ChangeInv DEF ListingNext

(* What the run checks of a listing follows.                               *)
LEMMA ListingInvImplies == ListingInv => ListingTypeOK /\ ListingIsExact /\ NotFoundMeansDropped
  <1> SUFFICES ASSUME ListingInv
               PROVE  ListingTypeOK /\ ListingIsExact /\ NotFoundMeansDropped
    OBVIOUS
  <1>1. Len(out) = Cardinality(Listed)
    BY OrderedHasNoTwins DEF ListingInv, OutInOrder, Listed
  <1>2. QED
    BY <1>1 DEF ListingInv, ListingTypes, CutType, OutInOrder, NothingPassedBy, Histories, ListingTypeOK,
                ListingIsExact

-----------------------------------------------------------------------------
(* localfs.  The order of the file names is that of these numbers: a name  *)
(* of one digit comes before those of two that begin with the same one.    *)
Rank(p, n) ==
    IF n < 10 /\ Naming[p] = "hadoop" THEN 20 * (n + 1) ELSE 20 * ((n \div 10) + 1) + (n % 10) + 1

TreeInv ==
    /\ TreeTypeOK
    /\ \A p \in Paths : FirstVersion - 1 <= newest[p]

LEMMA DivMod ==
    ASSUME NEW n \in Nat, n <= 99
    PROVE  n \div 10 \in 0..9 /\ n % 10 \in 0..9 /\ n = 10 * (n \div 10) + (n % 10)
  OBVIOUS

LEMMA RankType ==
    ASSUME NEW p \in Paths, NEW n \in 1..MaxVersion
    PROVE  n \in Nat /\ n <= 99 /\ Rank(p, n) \in 0..300
  <1>1. n \in Nat /\ n <= 99
    BY LocalFSAssumption
  <1>2. QED
    BY <1>1, DivMod DEF Rank

(* The order of lists that have two or three places in common.             *)
LEMMA BeforeInTwo ==
    ASSUME NEW a, NEW b, DOMAIN a \cap DOMAIN b = 1..2
    PROVE  Before(a, b) <=> a[1] < b[1] \/ (a[1] = b[1] /\ a[2] < b[2])
  <1>1. 1..2 = {1, 2} /\ 1..(1 - 1) = {} /\ 1..(2 - 1) = {1}
    OBVIOUS
  <1>2. QED
    BY <1>1 DEF Before

LEMMA BeforeInThree ==
    ASSUME NEW a, NEW b, DOMAIN a \cap DOMAIN b = 1..3
    PROVE  Before(a, b) <=> \/ a[1] < b[1]
                            \/ a[1] = b[1] /\ a[2] < b[2]
                            \/ a[1] = b[1] /\ a[2] = b[2] /\ a[3] < b[3]
  <1>1. 1..3 = {1, 2, 3} /\ 1..(1 - 1) = {} /\ 1..(2 - 1) = {1} /\ 1..(3 - 1) = {1, 2}
    OBVIOUS
  <1>2. QED
    BY <1>1 DEF Before

(* The shapes that two names can have.                                     *)
LEMMA NamesInOrder ==
    ASSUME NEW p \in Paths, NEW m \in 1..MaxVersion, NEW n \in 1..MaxVersion
    PROVE  Before(FileName(p, m), FileName(p, n)) <=> Rank(p, m) < Rank(p, n)
  <1>1. /\ m \in Nat /\ n \in Nat
        /\ m \div 10 \in 0..9 /\ m % 10 \in 0..9 /\ n \div 10 \in 0..9 /\ n % 10 \in 0..9
    BY RankType, DivMod
  <1> DEFINE Short(k) == k < 10 /\ Naming[p] = "hadoop"
             one(k) == <<k + 1, Dot>>
             two(k) == <<(k \div 10) + 1, (k % 10) + 1, Dot>>
  <1>2. \A k \in {m, n} : FileName(p, k) = IF Short(k) THEN one(k) ELSE two(k)
    <2>1. ASSUME NEW x \in Nat, NEW y \in Nat
          PROVE  Append(<<x>>, Dot) = <<x, Dot>> /\ Append(<<x, y>>, Dot) = <<x, y, Dot>>
      <3>1. /\ <<x, Dot>> \in Seq(Nat) /\ <<x, y, Dot>> \in Seq(Nat)
            /\ Append(<<x>>, Dot) \in Seq(Nat) /\ Append(<<x, y>>, Dot) \in Seq(Nat)
        BY DEF Dot
      <3>2. /\ Len(Append(<<x>>, Dot)) = 2
            /\ \A i \in 1..2 : Append(<<x>>, Dot)[i] = <<x, Dot>>[i]
        BY DEF Dot
      <3>3. /\ Len(Append(<<x, y>>, Dot)) = 3
            /\ \A i \in 1..3 : Append(<<x, y>>, Dot)[i] = <<x, y, Dot>>[i]
        BY DEF Dot
      <3>4. Len(<<x, Dot>>) = 2 /\ Len(<<x, y, Dot>>) = 3
        OBVIOUS
      <3>5. Append(<<x>>, Dot) = <<x, Dot>>
        BY <3>1, <3>2, <3>4, SeqEqual
      <3>6. Append(<<x, y>>, Dot) = <<x, y, Dot>>
        BY <3>1, <3>3, <3>4, SeqEqual
      <3>7. QED
        BY <3>5, <3>6
    <2>2. \A k \in {m, n} : k + 1 \in Nat /\ (k \div 10) + 1 \in Nat /\ (k % 10) + 1 \in Nat
      BY <1>1
    <2>3. QED
      BY <2>1, <2>2 DEF FileName, Digits
  <1>3. \A k \in {m, n} : Rank(p, k) = IF Short(k) THEN 20 * (k + 1)
                                       ELSE 20 * ((k \div 10) + 1) + (k % 10) + 1
    BY DEF Rank
  <1>4. CASE Short(m) /\ Short(n)
    <2>1. Before(one(m), one(n)) <=> m + 1 < n + 1
      <3>1. DOMAIN one(m) \cap DOMAIN one(n) = 1..2
        OBVIOUS
      <3>2. QED
        BY <1>1, <3>1, BeforeInTwo DEF Dot
    <2>2. QED
      BY <1>1, <1>2, <1>3, <1>4, <2>1
  <1>5. CASE Short(m) /\ ~Short(n)
    <2>1. Before(one(m), two(n)) <=> m <= n \div 10
      <3>1. DOMAIN one(m) \cap DOMAIN two(n) = 1..2
        OBVIOUS
      <3>2. QED
        BY <1>1, <3>1, BeforeInTwo DEF Dot
    <2>2. QED
      BY <1>1, <1>2, <1>3, <1>5, <2>1
  <1>6. CASE ~Short(m) /\ Short(n)
    <2>1. Before(two(m), one(n)) <=> m \div 10 < n
      <3>1. DOMAIN two(m) \cap DOMAIN one(n) = 1..2
        OBVIOUS
      <3>2. QED
        BY <1>1, <3>1, BeforeInTwo DEF Dot
    <2>2. Rank(p, m) = 20 * ((m \div 10) + 1) + (m % 10) + 1 /\ Rank(p, n) = 20 * (n + 1)
      BY <1>3, <1>6
    <2>3. \A a, b \in 0..9 : \A c \in Nat : 20 * (a + 1) + b + 1 < 20 * (c + 1) <=> a < c
      OBVIOUS
    <2>4. Rank(p, m) < Rank(p, n) <=> m \div 10 < n
      BY <1>1, <2>2, <2>3
    <2>5. QED
      BY <1>2, <1>6, <2>1, <2>4
  <1>7. CASE ~Short(m) /\ ~Short(n)
    <2>1. Before(two(m), two(n)) <=>
            m \div 10 < n \div 10 \/ (m \div 10 = n \div 10 /\ m % 10 < n % 10)
      <3>1. DOMAIN two(m) \cap DOMAIN two(n) = 1..3
        OBVIOUS
      <3>2. QED
        BY <1>1, <3>1, BeforeInThree DEF Dot
    <2>2. QED
      BY <1>1, <1>2, <1>3, <1>7, <2>1
  <1>8. QED
    BY <1>4, <1>5, <1>6, <1>7

LEMMA RanksDiffer ==
    ASSUME NEW p \in Paths, NEW m \in 1..MaxVersion, NEW n \in 1..MaxVersion, Rank(p, m) = Rank(p, n)
    PROVE  m = n
  <1>1. /\ m \in Nat /\ n \in Nat
        /\ m \div 10 \in 0..9 /\ m % 10 \in 0..9 /\ m = 10 * (m \div 10) + (m % 10)
        /\ n \div 10 \in 0..9 /\ n % 10 \in 0..9 /\ n = 10 * (n \div 10) + (n % 10)
    BY RankType, DivMod
  <1>2. \A a, b, c, d \in 0..10 : 20 * a + b = 20 * c + d => a = c /\ b = d
    OBVIOUS
  <1>3. QED
    BY <1>1, <1>2 DEF Rank

(* Of names equally long the order is that of the versions.                *)
LEMMA EquallyLong ==
    ASSUME NEW p \in Paths, NEW m \in 1..MaxVersion, NEW n \in 1..MaxVersion,
           Len(Digits(p, m)) = Len(Digits(p, n)), Rank(p, m) < Rank(p, n)
    PROVE  m < n
  <1>1. /\ m \in Nat /\ n \in Nat
        /\ m \div 10 \in 0..9 /\ m % 10 \in 0..9 /\ m = 10 * (m \div 10) + (m % 10)
        /\ n \div 10 \in 0..9 /\ n % 10 \in 0..9 /\ n = 10 * (n \div 10) + (n % 10)
    BY RankType, DivMod
  <1> DEFINE Short(k) == k < 10 /\ Naming[p] = "hadoop"
  <1>2. \A k \in {m, n} : Len(Digits(p, k)) = IF Short(k) THEN 1 ELSE 2
    BY DEF Digits
  <1>3. CASE Short(m) /\ Short(n)
    BY <1>1, <1>3 DEF Rank
  <1>4. CASE ~Short(m) /\ ~Short(n)
    <2>1. 20 * ((m \div 10) + 1) + (m % 10) + 1 < 20 * ((n \div 10) + 1) + (n % 10) + 1
      BY <1>4 DEF Rank
    <2>2. \A a, b, c, d \in 0..9 : 20 * (a + 1) + b + 1 < 20 * (c + 1) + d + 1 => 10 * a + b < 10 * c + d
      OBVIOUS
    <2>3. QED
      BY <1>1, <2>1, <2>2
  <1>5. QED
    BY <1>2, <1>3, <1>4, SMTT(40)

(* The last name in order is one of the directory.                         *)
LEMMA LastIsThere ==
    ASSUME TreeTypeOK, NEW p \in Paths, dir[p] # {}
    PROVE  /\ LastInOrder(p) \in dir[p]
           /\ \A m \in dir[p] \ {LastInOrder(p)} : Rank(p, m) < Rank(p, LastInOrder(p))
  <1>1. dir[p] \subseteq 1..MaxVersion
    BY DEF TreeTypeOK
  <1> DEFINE T == {300 - Rank(p, m) : m \in dir[p]}
  <1>2. T \in SUBSET Nat /\ T # {}
    BY <1>1, RankType
  <1>3. PICK x \in T : \A y \in T : x <= y
    BY <1>2, LeastNatural
  <1>4. PICK n \in dir[p] : x = 300 - Rank(p, n)
    BY <1>3
  <1>5. \A m \in dir[p] : Rank(p, m) <= Rank(p, n)
    <2>1. ASSUME NEW m \in dir[p]
          PROVE  Rank(p, m) <= Rank(p, n)
      <3>1. 300 - Rank(p, n) <= 300 - Rank(p, m)
        BY <1>3, <1>4
      <3>2. Rank(p, m) \in 0..300 /\ Rank(p, n) \in 0..300
        BY <1>1, RankType
      <3>3. \A a, b \in 0..300 : 300 - a <= 300 - b => b <= a
        OBVIOUS
      <3>4. QED
        BY <3>1, <3>2, <3>3
    <2>2. QED
      BY <2>1
  <1>6. \A m \in dir[p] \ {n} : Rank(p, m) # Rank(p, n)
    BY <1>1, RanksDiffer
  <1>7. \A m \in dir[p] \ {n} : Before(FileName(p, m), FileName(p, n))
    <2>1. \A a, b \in 0..300 : a <= b /\ a # b => a < b
      OBVIOUS
    <2>2. \A m \in dir[p] : Rank(p, m) \in 0..300
      BY <1>1, RankType
    <2>3. \A m \in dir[p] \ {n} : Rank(p, m) < Rank(p, n)
      BY <1>5, <1>6, <2>1, <2>2
    <2>4. QED
      BY <1>1, <2>3, NamesInOrder
  <1>8. /\ LastInOrder(p) \in dir[p]
        /\ \A m \in dir[p] \ {LastInOrder(p)} : Before(FileName(p, m), FileName(p, LastInOrder(p)))
    BY <1>7 DEF LastInOrder
  <1>9. QED
    BY <1>1, <1>8, NamesInOrder

LEMMA TreeInitInv == TreeInit => TreeInv
  <1> SUFFICES ASSUME TreeInit
               PROVE  TreeInv
    OBVIOUS
  <1>1. FirstVersion - 1 \in 0..MaxVersion /\ 0 \in 0..MaxVersion /\ FirstVersion \in Nat
    BY LocalFSAssumption
  <1>2. QED
    BY <1>1 DEF TreeInit, TreeInv, TreeTypeOK

LEMMA TreeNextInv == TreeInv /\ [TreeNext]_treeVars => TreeInv'
  <1> SUFFICES ASSUME TreeInv, [TreeNext]_treeVars
               PROVE  TreeInv'
    OBVIOUS
  <1>a. FirstVersion \in Nat \ {0} /\ MaxVersion \in Nat
    BY LocalFSAssumption
  <1>b. /\ dir \in [Paths -> SUBSET (1..MaxVersion)] /\ newest \in [Paths -> 0..MaxVersion]
        /\ made \subseteq Paths /\ found \subseteq made /\ \A p \in Paths : dir[p] # {} => p \in made
        /\ toWalk \subseteq Paths /\ loaded \in [Paths -> 0..MaxVersion]
        /\ listed = {IdOf(p) : p \in found}
    BY DEF TreeInv, TreeTypeOK
  <1>1. ASSUME NEW p \in Paths, Publish(p)
        PROVE  TreeInv'
    <2>1. newest[p] + 1 \in 1..MaxVersion
      BY <1>a, <1>b, <1>1 DEF Publish
    <2>2. /\ newest' \in [Paths -> 0..MaxVersion] /\ \A q \in Paths : newest'[q] >= newest[q]
          /\ dir' \in [Paths -> SUBSET (1..MaxVersion)]
      BY <1>a, <1>b, <1>1, <2>1 DEF Publish
    <2>3. \A q \in Paths : FirstVersion - 1 <= newest'[q]
      <3>1. \A q \in Paths : newest[q] \in Nat /\ newest'[q] \in Nat
        BY <1>a, <1>b, <2>2
      <3>2. QED
        BY <1>a, <2>2, <3>1 DEF TreeInv
    <2>4. UNCHANGED <<made, toWalk, listed, found, loaded>>
      BY <1>1 DEF Publish
    <2>5. \A q \in Paths : dir'[q] # {} => q \in made
      BY <1>b, <1>1 DEF Publish
    <2>6. QED
      BY <1>b, <2>2, <2>3, <2>4, <2>5 DEF TreeInv, TreeTypeOK
  <1>2. ASSUME NEW p \in Paths, CleanUp(p)
        PROVE  TreeInv'
    BY <1>b, <1>2 DEF CleanUp, TreeInv, TreeTypeOK
  <1>3. ASSUME NEW p \in Paths, Walk(p)
        PROVE  TreeInv'
    <2>1. /\ toWalk' \subseteq Paths /\ found' \subseteq made /\ listed' = {IdOf(q) : q \in found'}
      BY <1>b, <1>3 DEF Walk
    <2>2. UNCHANGED <<made, dir, newest, loaded>>
      BY <1>3 DEF Walk
    <2>3. QED
      BY <1>b, <2>1, <2>2 DEF TreeInv, TreeTypeOK
  <1>4. ASSUME NEW p \in Paths, LoadTable(p)
        PROVE  TreeInv'
    <2>1. dir[p] # {} /\ loaded' = [loaded EXCEPT ![p] = LastInOrder(p)]
          /\ UNCHANGED <<made, dir, newest, toWalk, listed, found>>
      BY <1>4 DEF LoadTable
    <2>2. LastInOrder(p) \in 0..MaxVersion
      <3>1. LastInOrder(p) \in dir[p]
        BY <2>1, LastIsThere DEF TreeInv
      <3>2. QED
        BY <1>b, <3>1
    <2>3. loaded' \in [Paths -> 0..MaxVersion]
      BY <1>b, <2>1, <2>2
    <2>4. QED
      BY <1>b, <2>1, <2>3 DEF TreeInv, TreeTypeOK
  <1>5. ASSUME NEW p \in Paths, MakeDirectory(p)
        PROVE  TreeInv'
    BY <1>b, <1>5 DEF MakeDirectory, TreeInv, TreeTypeOK
  <1>6. CASE UNCHANGED treeVars
    BY <1>6 DEF treeVars, TreeInv, TreeTypeOK
  <1>7. QED
    BY <1>1, <1>2, <1>3, <1>4, <1>5, <1>6 DEF TreeNext

(* What a load of a table returns, if the numbers are equally long.        *)
LEMMA LoadsTheHighest ==
    ASSUME TreeInv, NEW q \in Paths, LoadTable(q), NEW p \in Paths, loaded'[p] # loaded[p],
           \A m, n \in dir[p] : Len(Digits(p, m)) = Len(Digits(p, n))
    PROVE  loaded'[p] = Max(dir[p])
  <1>1. p = q /\ dir[p] # {} /\ loaded'[p] = LastInOrder(p)
    BY DEF LoadTable, TreeInv, TreeTypeOK
  <1>2. dir[p] \subseteq 1..MaxVersion
    BY DEF TreeInv, TreeTypeOK
  <1> DEFINE n == LastInOrder(p)
  <1>3. n \in dir[p] /\ \A m \in dir[p] \ {n} : Rank(p, m) < Rank(p, n)
    BY <1>1, LastIsThere DEF TreeInv
  <1> HIDE DEF n
  <1>4. \A m \in dir[p] \ {n} : m < n
    BY <1>2, <1>3, EquallyLong
  <1>5. dir[p] \subseteq Nat
    BY <1>2
  <1>6. Max(dir[p]) = n
    <2>1. \A y \in dir[p] : n >= y
      BY <1>3, <1>4, <1>5
    <2>2. \A x \in dir[p] : (\A y \in dir[p] : x >= y) => x = n
      BY <1>3, <1>4, <1>5
    <2>3. QED
      BY <1>3, <2>1, <2>2 DEF Max
  <1>7. QED
    BY <1>1, <1>6 DEF n

-----------------------------------------------------------------------------
(* The Hive decoder.  What the server sends is taken apart from the front, *)
(* and so are the readers.                                                 *)

LEMMA FrontOf ==
    ASSUME NEW S, NEW x \in S, NEW s \in Seq(S)
    PROVE  /\ <<x>> \o s \in Seq(S) /\ <<x>> \o s # <<>>
           /\ Head(<<x>> \o s) = x /\ Tail(<<x>> \o s) = s
  OBVIOUS

LEMMA FrontOfBoth ==
    ASSUME NEW S, NEW t \in Seq(S), NEW s \in Seq(S), t # <<>>
    PROVE  /\ t \o s \in Seq(S) /\ t \o s # <<>>
           /\ Head(t \o s) = Head(t) /\ Tail(t \o s) = Tail(t) \o s
  OBVIOUS

LEMMA Regroup ==
    ASSUME NEW S, NEW a \in Seq(S), NEW b \in Seq(S), NEW c \in Seq(S)
    PROVE  (a \o b) \o c = a \o (b \o c)
  OBVIOUS

(* What there is to read, and what reads it.                               *)
Texts == {""} \cup Keys \cup Locations \cup UNION {Range(ns) : ns \in HiveTables}
Items ==
    {[is |-> "message", body |-> b] :
        b \in {"exception", "misnamed", "empty", "MetaException", "NoSuchObject", "success"}}
    \cup {Number, Stop} \cup {Text(v) : v \in Texts}
    \cup {Field(t, id) : t \in Types, id \in 0..13}
    \cup {MapOf(k, v, n) : k \in Types, v \in Types, n \in Nat}
    \cup {ListOf(e, n) : e \in Types, n \in Nat}
Readers ==
    {Fields(o) : o \in Owners} \cup {Skip(t) : t \in Types}
    \cup {TheMap, TheList, TheKey, TheName, Message} \cup {TheValue(k) : k \in Texts}

LEMMA ItemsAre ==
    /\ Number \in Items /\ Stop \in Items /\ Text("") \in Items
    /\ \A v \in Texts : Text(v) \in Items
    /\ \A t \in Types, id \in 0..13 : Field(t, id) \in Items /\ Field(t, id) # Stop
    /\ \A k, v \in Types, n \in Nat : MapOf(k, v, n) \in Items
    /\ \A e \in Types, n \in Nat : ListOf(e, n) \in Items
  <1>1. Text("") \in Items /\ \A v \in Texts : Text(v) \in Items
    <2>1. \A v \in Texts : Text(v) \in Items
      BY DEF Items
    <2>2. "" \in Texts
      BY DEF Texts
    <2>3. QED
      BY <2>1, <2>2
  <1>2. \A t \in Types, id \in 0..13 : Field(t, id) \in Items
    BY DEF Items
  <1>3. \A t \in Types, id \in 0..13 : Field(t, id) # Stop
    <2>1. \A t, id : Field(t, id).type = t
      BY DEF Field
    <2>2. Stop.type = "stop" /\ "stop" \notin Types
      BY <2>1 DEF Stop, Types
    <2>3. QED
      BY <2>1, <2>2
  <1>4. \A k, v \in Types, n \in Nat : MapOf(k, v, n) \in Items
    BY DEF Items
  <1>5. \A e \in Types, n \in Nat : ListOf(e, n) \in Items
    BY DEF Items
  <1>6. Number \in Items /\ Stop \in Items
    BY DEF Items
  <1>7. QED
    BY <1>1, <1>2, <1>3, <1>4, <1>5, <1>6

LEMMA ReadersAre ==
    /\ \A o \in Owners : Fields(o) \in Readers
    /\ \A t \in Types : Skip(t) \in Readers
    /\ {TheMap, TheList, TheKey, TheName, Message} \subseteq Readers
    /\ \A k \in Texts : TheValue(k) \in Readers
  <1>1. \A o \in Owners : Fields(o) \in Readers
    BY DEF Readers
  <1>2. \A t \in Types : Skip(t) \in Readers
    BY DEF Readers
  <1>3. {TheMap, TheList, TheKey, TheName, Message} \subseteq Readers
    BY DEF Readers
  <1>4. \A k \in Texts : TheValue(k) \in Readers
    BY DEF Readers
  <1>5. QED
    BY <1>1, <1>2, <1>3, <1>4


(* The ways of a value nobody asked for: the readers that skip it and the  *)
(* items of it that are left, at every point of each of its types.         *)
Ways ==
    {<<<<>>, <<>>>>,
     <<<<Skip("string")>>, <<Text("")>>>>,
     <<<<Skip("i32")>>, <<Number>>>>,
     <<<<Skip("struct")>>, <<Field("list", 1), ListOf("struct", 1), Field("i32", 1), Number, Stop, Stop>>>>,
     <<<<Skip("list"), Skip("struct")>>, <<ListOf("struct", 1), Field("i32", 1), Number, Stop, Stop>>>>,
     <<<<Skip("struct"), Skip("struct")>>, <<Field("i32", 1), Number, Stop, Stop>>>>,
     <<<<Skip("i32"), Skip("struct"), Skip("struct")>>, <<Number, Stop, Stop>>>>,
     <<<<Skip("struct"), Skip("struct")>>, <<Stop, Stop>>>>,
     <<<<Skip("struct")>>, <<Stop>>>>,
     <<<<Skip("map")>>, <<MapOf("i32", "string", 2), Number, Text(""), Number, Text("")>>>>,
     <<<<Skip("i32"), Skip("string"), Skip("i32"), Skip("string")>>, <<Number, Text(""), Number, Text("")>>>>,
     <<<<Skip("string"), Skip("i32"), Skip("string")>>, <<Text(""), Number, Text("")>>>>,
     <<<<Skip("i32"), Skip("string")>>, <<Number, Text("")>>>>,
     <<<<Skip("list")>>, <<ListOf("string", 2), Text(""), Text("")>>>>,
     <<<<Skip("string"), Skip("string")>>, <<Text(""), Text("")>>>>,
     <<<<Skip("struct")>>, <<Field("i32", 1), Number, Stop>>>>,
     <<<<Skip("i32"), Skip("struct")>>, <<Number, Stop>>>>}

(* What a reader that skips leaves of itself when it takes an item.        *)
Leaves(r, i) ==
    CASE r = Skip("struct") -> IF i = Stop THEN <<>> ELSE <<Skip(i.type), r>>
      [] r = Skip("map") -> PairReaders(i)
      [] r = Skip("list") -> Copies(i.size, Skip(i.elem))
      [] OTHER -> <<>>

WayGoesOn(t, s) ==
    /\ t # <<>> /\ s # <<>>
    /\ \E type \in Types : Head(t) = Skip(type)
    /\ Head(s).is = Head(t).reads
    /\ Head(t) = Skip("struct") /\ Head(s) # Stop => Head(s).type \in Types
    /\ Leaves(Head(t), Head(s)) \in Seq(Readers)
    /\ <<Leaves(Head(t), Head(s)) \o Tail(t), Tail(s)>> \in Ways

LEMMA SkipsDiffer ==
    /\ Skip("struct") # Skip("map") /\ Skip("struct") # Skip("list")
    /\ Skip("struct") # Skip("string") /\ Skip("struct") # Skip("i32")
    /\ Skip("map") # Skip("list") /\ Skip("map") # Skip("string") /\ Skip("map") # Skip("i32")
    /\ Skip("list") # Skip("string") /\ Skip("list") # Skip("i32")
    /\ Skip("string") # Skip("i32")
  <1>1. /\ Skip("struct").reads = "field" /\ Skip("map").reads = "map" /\ Skip("list").reads = "list"
        /\ Skip("string").reads = "string" /\ Skip("i32").reads = "i32"
    BY DEF Skip
  <1>2. QED
    BY <1>1

LEMMA LeavesIs ==
    /\ \A i : Leaves(Skip("string"), i) = <<>> /\ Leaves(Skip("i32"), i) = <<>>
    /\ Leaves(Skip("struct"), Stop) = <<>>
    /\ \A type \in Types, id \in 0..13 :
          Leaves(Skip("struct"), Field(type, id)) = <<Skip(type), Skip("struct")>>
    /\ Leaves(Skip("map"), MapOf("i32", "string", 2))
         = <<Skip("i32"), Skip("string"), Skip("i32"), Skip("string")>>
    /\ Leaves(Skip("list"), ListOf("string", 2)) = <<Skip("string"), Skip("string")>>
    /\ Leaves(Skip("list"), ListOf("struct", 1)) = <<Skip("struct")>>
  <1>1. \A i : Leaves(Skip("string"), i) = <<>> /\ Leaves(Skip("i32"), i) = <<>>
    BY SkipsDiffer DEF Leaves
  <1>2. Leaves(Skip("struct"), Stop) = <<>>
    BY SkipsDiffer DEF Leaves
  <1>3. ASSUME NEW type \in Types, NEW id \in 0..13
        PROVE  Leaves(Skip("struct"), Field(type, id)) = <<Skip(type), Skip("struct")>>
    <2>1. Field(type, id) # Stop /\ Field(type, id).type = type
      BY ItemsAre DEF Field
    <2>2. QED
      BY <2>1, SkipsDiffer DEF Leaves
  <1>4. Leaves(Skip("map"), MapOf("i32", "string", 2))
          = <<Skip("i32"), Skip("string"), Skip("i32"), Skip("string")>>
    <2> DEFINE m == MapOf("i32", "string", 2)
    <2>1. m.size = 2 /\ m.key = "i32" /\ m.value = "string"
      BY DEF MapOf
    <2>2. Leaves(Skip("map"), m) = PairReaders(m)
      BY SkipsDiffer DEF Leaves
    <2> HIDE DEF m
    <2>3. PairReaders(m) = [i \in 1..(2 * 2) |-> IF i % 2 = 1 THEN Skip("i32") ELSE Skip("string")]
      BY <2>1 DEF PairReaders
    <2>4. [i \in 1..(2 * 2) |-> IF i % 2 = 1 THEN Skip("i32") ELSE Skip("string")]
            = <<Skip("i32"), Skip("string"), Skip("i32"), Skip("string")>>
      OBVIOUS
    <2>5. QED
      BY <2>2, <2>3, <2>4 DEF m
  <1>5. ASSUME NEW e \in Types, NEW n \in Nat
        PROVE  Leaves(Skip("list"), ListOf(e, n)) = [i \in 1..n |-> Skip(e)]
    <2>1. ListOf(e, n).size = n /\ ListOf(e, n).elem = e
      BY DEF ListOf
    <2>2. Leaves(Skip("list"), ListOf(e, n)) = Copies(ListOf(e, n).size, Skip(ListOf(e, n).elem))
      BY SkipsDiffer DEF Leaves
    <2>3. QED
      BY <2>1, <2>2 DEF Copies
  <1>6. Leaves(Skip("list"), ListOf("string", 2)) = <<Skip("string"), Skip("string")>>
    <2>1. [i \in 1..2 |-> Skip("string")] = <<Skip("string"), Skip("string")>>
      OBVIOUS
    <2>2. "string" \in Types
      BY DEF Types
    <2>3. QED
      BY <1>5, <2>1, <2>2
  <1>7. Leaves(Skip("list"), ListOf("struct", 1)) = <<Skip("struct")>>
    <2>1. [i \in 1..1 |-> Skip("struct")] = <<Skip("struct")>>
      OBVIOUS
    <2>2. "struct" \in Types
      BY DEF Types
    <2>3. QED
      BY <1>5, <2>1, <2>2
  <1>8. QED
    BY <1>1, <1>2, <1>3, <1>4, <1>6, <1>7


LEMMA TypesAre ==
    /\ "string" \in Types /\ "i32" \in Types /\ "struct" \in Types
    /\ "map" \in Types /\ "list" \in Types
  BY DEF Types

LEMMA PairsEqual ==
    \A t, s, x, y : <<t, s>> = <<x, y>> => t = x /\ s = y
  OBVIOUS

LEMMA Taken1 ==
    \A a : <<a>> # <<>> /\ Head(<<a>>) = a /\ Tail(<<a>>) = <<>>
  OBVIOUS

LEMMA Taken2 ==
    \A a, b : <<a, b>> # <<>> /\ Head(<<a, b>>) = a /\ Tail(<<a, b>>) = <<b>>
  OBVIOUS

LEMMA Taken3 ==
    \A a, b, c : <<a, b, c>> # <<>> /\ Head(<<a, b, c>>) = a /\ Tail(<<a, b, c>>) = <<b, c>>
  OBVIOUS

LEMMA Taken4 ==
    \A a, b, c, d : <<a, b, c, d>> # <<>> /\ Head(<<a, b, c, d>>) = a /\ Tail(<<a, b, c, d>>) = <<b, c, d>>
  OBVIOUS

LEMMA Taken5 ==
    \A a, b, c, d, e : <<a, b, c, d, e>> # <<>> /\ Head(<<a, b, c, d, e>>) = a /\ Tail(<<a, b, c, d, e>>) = <<b, c, d, e>>
  OBVIOUS

LEMMA Taken6 ==
    \A a, b, c, d, e, f : <<a, b, c, d, e, f>> # <<>> /\ Head(<<a, b, c, d, e, f>>) = a /\ Tail(<<a, b, c, d, e, f>>) = <<b, c, d, e, f>>
  OBVIOUS

LEMMA Joined ==
    /\ <<>> \o <<>> = <<>>
    /\ \A a : <<>> \o <<a>> = <<a>> /\ <<a>> \o <<>> = <<a>>
    /\ \A a, b : <<>> \o <<a, b>> = <<a, b>> /\ <<a, b>> \o <<>> = <<a, b>>
    /\ \A a, b : <<a>> \o <<b>> = <<a, b>>
    /\ \A a, b, c : <<>> \o <<a, b, c>> = <<a, b, c>> /\ <<a, b>> \o <<c>> = <<a, b, c>>
    /\ \A a, b, c, d : <<a, b, c, d>> \o <<>> = <<a, b, c, d>>
  <1>1. <<>> \o <<>> = <<>>
    OBVIOUS
  <1>2. \A a : <<>> \o <<a>> = <<a>> /\ <<a>> \o <<>> = <<a>>
    OBVIOUS
  <1>3. \A a, b : <<>> \o <<a, b>> = <<a, b>> /\ <<a, b>> \o <<>> = <<a, b>>
    OBVIOUS
  <1>4. ASSUME NEW a, NEW b
        PROVE  <<a>> \o <<b>> = <<a, b>>
    <2>1. <<a>> \o <<b>> \in Seq({a, b}) /\ <<a, b>> \in Seq({a, b})
      OBVIOUS
    <2>2. /\ Len(<<a>> \o <<b>>) = 2 /\ Len(<<a, b>>) = 2
          /\ (<<a>> \o <<b>>)[1] = a /\ (<<a>> \o <<b>>)[2] = b
          /\ <<a, b>>[1] = a /\ <<a, b>>[2] = b
      OBVIOUS
    <2>3. \A i \in 1..2 : (<<a>> \o <<b>>)[i] = <<a, b>>[i]
      BY <2>2
    <2>4. QED
      BY <2>1, <2>2, <2>3, SeqEqual
  <1>5. ASSUME NEW a, NEW b, NEW c
        PROVE  <<>> \o <<a, b, c>> = <<a, b, c>> /\ <<a, b>> \o <<c>> = <<a, b, c>>
    <2>1. <<a, b>> \o <<c>> \in Seq({a, b, c}) /\ <<a, b, c>> \in Seq({a, b, c})
      OBVIOUS
    <2>2. /\ Len(<<a, b>> \o <<c>>) = 3 /\ Len(<<a, b, c>>) = 3
          /\ (<<a, b>> \o <<c>>)[1] = a /\ (<<a, b>> \o <<c>>)[2] = b
          /\ (<<a, b>> \o <<c>>)[3] = c
          /\ <<a, b, c>>[1] = a /\ <<a, b, c>>[2] = b /\ <<a, b, c>>[3] = c
      OBVIOUS
    <2>3. \A i \in 1..3 : (<<a, b>> \o <<c>>)[i] = <<a, b, c>>[i]
      BY <2>2
    <2>4. <<a, b>> \o <<c>> = <<a, b, c>>
      BY <2>1, <2>2, <2>3, SeqEqual
    <2>5. <<>> \o <<a, b, c>> = <<a, b, c>>
      OBVIOUS
    <2>6. QED
      BY <2>4, <2>5
  <1>6. \A a, b, c, d : <<a, b, c, d>> \o <<>> = <<a, b, c, d>>
    OBVIOUS
  <1>7. QED
    BY <1>1, <1>2, <1>3, <1>4, <1>5, <1>6

LEMMA TuplesAre ==
    ASSUME NEW S
    PROVE  /\ <<>> \in Seq(S)
           /\ \A a \in S : <<a>> \in Seq(S)
           /\ \A a, b \in S : <<a, b>> \in Seq(S)
           /\ \A a, b, c \in S : <<a, b, c>> \in Seq(S)
           /\ \A a, b, c, d \in S : <<a, b, c, d>> \in Seq(S)
           /\ \A a, b, c, d, e \in S : <<a, b, c, d, e>> \in Seq(S)
           /\ \A a, b, c, d, e, f \in S : <<a, b, c, d, e, f>> \in Seq(S)
  OBVIOUS

LEMMA WaysGoOn ==
    ASSUME NEW t, NEW s, <<t, s>> \in Ways, t # <<>>
    PROVE  WayGoesOn(t, s)
  <1>b. /\ Skip("string") \in Readers /\ Skip("i32") \in Readers /\ Skip("struct") \in Readers
        /\ Skip("map") \in Readers /\ Skip("list") \in Readers
    BY ReadersAre, TypesAre
  <1>1. CASE <<t, s>> = <<<<Skip("string")>>,
                         <<Text("")>>>>
    <2>0. t = <<Skip("string")>> /\ s = <<Text("")>>
      BY <1>1, PairsEqual
    <2>1. t # <<>> /\ Head(t) = Skip("string") /\ Tail(t) = <<>>
      BY <2>0, Taken1
    <2>2. s # <<>> /\ Head(s) = Text("") /\ Tail(s) = <<>>
      BY <2>0, Taken1
    <2>3. Leaves(Skip("string"), Text("")) = <<>>
      BY LeavesIs, TypesAre
    <2>4. <<>> \o <<>> = <<>>
      BY Joined
    <2>5. <<<<>>,
            <<>>>> \in Ways
      BY DEF Ways
    <2>6. <<Leaves(Head(t), Head(s)) \o Tail(t), Tail(s)>> \in Ways
      BY <2>1, <2>2, <2>3, <2>4, <2>5
    <2>7. Skip("string").reads = Text("").is
      BY DEF Skip, Text, Number, Stop, Field, MapOf, ListOf
    <2>8. Skip("string") = Skip("struct") /\ Text("") # Stop => Text("").type \in Types
      BY SkipsDiffer, TypesAre DEF Field
    <2>9. Leaves(Head(t), Head(s)) \in Seq(Readers)
      BY <1>b, <2>1, <2>2, <2>3, TuplesAre
    <2>10. QED
      BY <2>1, <2>2, <2>6, <2>7, <2>8, <2>9, TypesAre DEF WayGoesOn
  <1>2. CASE <<t, s>> = <<<<Skip("i32")>>,
                         <<Number>>>>
    <2>0. t = <<Skip("i32")>> /\ s = <<Number>>
      BY <1>2, PairsEqual
    <2>1. t # <<>> /\ Head(t) = Skip("i32") /\ Tail(t) = <<>>
      BY <2>0, Taken1
    <2>2. s # <<>> /\ Head(s) = Number /\ Tail(s) = <<>>
      BY <2>0, Taken1
    <2>3. Leaves(Skip("i32"), Number) = <<>>
      BY LeavesIs, TypesAre
    <2>4. <<>> \o <<>> = <<>>
      BY Joined
    <2>5. <<<<>>,
            <<>>>> \in Ways
      BY DEF Ways
    <2>6. <<Leaves(Head(t), Head(s)) \o Tail(t), Tail(s)>> \in Ways
      BY <2>1, <2>2, <2>3, <2>4, <2>5
    <2>7. Skip("i32").reads = Number.is
      BY DEF Skip, Text, Number, Stop, Field, MapOf, ListOf
    <2>8. Skip("i32") = Skip("struct") /\ Number # Stop => Number.type \in Types
      BY SkipsDiffer, TypesAre DEF Field
    <2>9. Leaves(Head(t), Head(s)) \in Seq(Readers)
      BY <1>b, <2>1, <2>2, <2>3, TuplesAre
    <2>10. QED
      BY <2>1, <2>2, <2>6, <2>7, <2>8, <2>9, TypesAre DEF WayGoesOn
  <1>3. CASE <<t, s>> = <<<<Skip("struct")>>,
                         <<Field("list", 1), ListOf("struct", 1), Field("i32", 1), Number, Stop, Stop>>>>
    <2>0. t = <<Skip("struct")>> /\ s = <<Field("list", 1), ListOf("struct", 1), Field("i32", 1), Number, Stop, Stop>>
      BY <1>3, PairsEqual
    <2>1. t # <<>> /\ Head(t) = Skip("struct") /\ Tail(t) = <<>>
      BY <2>0, Taken1
    <2>2. s # <<>> /\ Head(s) = Field("list", 1) /\ Tail(s) = <<ListOf("struct", 1), Field("i32", 1), Number, Stop, Stop>>
      BY <2>0, Taken6
    <2>3. Leaves(Skip("struct"), Field("list", 1)) = <<Skip("list"), Skip("struct")>>
      BY LeavesIs, TypesAre
    <2>4. <<Skip("list"), Skip("struct")>> \o <<>> = <<Skip("list"), Skip("struct")>>
      BY Joined
    <2>5. <<<<Skip("list"), Skip("struct")>>,
            <<ListOf("struct", 1), Field("i32", 1), Number, Stop, Stop>>>> \in Ways
      BY DEF Ways
    <2>6. <<Leaves(Head(t), Head(s)) \o Tail(t), Tail(s)>> \in Ways
      BY <2>1, <2>2, <2>3, <2>4, <2>5
    <2>7. Skip("struct").reads = Field("list", 1).is
      BY DEF Skip, Text, Number, Stop, Field, MapOf, ListOf
    <2>8. Skip("struct") = Skip("struct") /\ Field("list", 1) # Stop => Field("list", 1).type \in Types
      BY SkipsDiffer, TypesAre DEF Field
    <2>9. Leaves(Head(t), Head(s)) \in Seq(Readers)
      BY <1>b, <2>1, <2>2, <2>3, TuplesAre
    <2>10. QED
      BY <2>1, <2>2, <2>6, <2>7, <2>8, <2>9, TypesAre DEF WayGoesOn
  <1>4. CASE <<t, s>> = <<<<Skip("list"), Skip("struct")>>,
                         <<ListOf("struct", 1), Field("i32", 1), Number, Stop, Stop>>>>
    <2>0. t = <<Skip("list"), Skip("struct")>> /\ s = <<ListOf("struct", 1), Field("i32", 1), Number, Stop, Stop>>
      BY <1>4, PairsEqual
    <2>1. t # <<>> /\ Head(t) = Skip("list") /\ Tail(t) = <<Skip("struct")>>
      BY <2>0, Taken2
    <2>2. s # <<>> /\ Head(s) = ListOf("struct", 1) /\ Tail(s) = <<Field("i32", 1), Number, Stop, Stop>>
      BY <2>0, Taken5
    <2>3. Leaves(Skip("list"), ListOf("struct", 1)) = <<Skip("struct")>>
      BY LeavesIs, TypesAre
    <2>4. <<Skip("struct")>> \o <<Skip("struct")>> = <<Skip("struct"), Skip("struct")>>
      BY Joined
    <2>5. <<<<Skip("struct"), Skip("struct")>>,
            <<Field("i32", 1), Number, Stop, Stop>>>> \in Ways
      BY DEF Ways
    <2>6. <<Leaves(Head(t), Head(s)) \o Tail(t), Tail(s)>> \in Ways
      BY <2>1, <2>2, <2>3, <2>4, <2>5
    <2>7. Skip("list").reads = ListOf("struct", 1).is
      BY DEF Skip, Text, Number, Stop, Field, MapOf, ListOf
    <2>8. Skip("list") = Skip("struct") /\ ListOf("struct", 1) # Stop => ListOf("struct", 1).type \in Types
      BY SkipsDiffer, TypesAre DEF Field
    <2>9. Leaves(Head(t), Head(s)) \in Seq(Readers)
      BY <1>b, <2>1, <2>2, <2>3, TuplesAre
    <2>10. QED
      BY <2>1, <2>2, <2>6, <2>7, <2>8, <2>9, TypesAre DEF WayGoesOn
  <1>5. CASE <<t, s>> = <<<<Skip("struct"), Skip("struct")>>,
                         <<Field("i32", 1), Number, Stop, Stop>>>>
    <2>0. t = <<Skip("struct"), Skip("struct")>> /\ s = <<Field("i32", 1), Number, Stop, Stop>>
      BY <1>5, PairsEqual
    <2>1. t # <<>> /\ Head(t) = Skip("struct") /\ Tail(t) = <<Skip("struct")>>
      BY <2>0, Taken2
    <2>2. s # <<>> /\ Head(s) = Field("i32", 1) /\ Tail(s) = <<Number, Stop, Stop>>
      BY <2>0, Taken4
    <2>3. Leaves(Skip("struct"), Field("i32", 1)) = <<Skip("i32"), Skip("struct")>>
      BY LeavesIs, TypesAre
    <2>4. <<Skip("i32"), Skip("struct")>> \o <<Skip("struct")>> = <<Skip("i32"), Skip("struct"), Skip("struct")>>
      BY Joined
    <2>5. <<<<Skip("i32"), Skip("struct"), Skip("struct")>>,
            <<Number, Stop, Stop>>>> \in Ways
      BY DEF Ways
    <2>6. <<Leaves(Head(t), Head(s)) \o Tail(t), Tail(s)>> \in Ways
      BY <2>1, <2>2, <2>3, <2>4, <2>5
    <2>7. Skip("struct").reads = Field("i32", 1).is
      BY DEF Skip, Text, Number, Stop, Field, MapOf, ListOf
    <2>8. Skip("struct") = Skip("struct") /\ Field("i32", 1) # Stop => Field("i32", 1).type \in Types
      BY SkipsDiffer, TypesAre DEF Field
    <2>9. Leaves(Head(t), Head(s)) \in Seq(Readers)
      BY <1>b, <2>1, <2>2, <2>3, TuplesAre
    <2>10. QED
      BY <2>1, <2>2, <2>6, <2>7, <2>8, <2>9, TypesAre DEF WayGoesOn
  <1>6. CASE <<t, s>> = <<<<Skip("i32"), Skip("struct"), Skip("struct")>>,
                         <<Number, Stop, Stop>>>>
    <2>0. t = <<Skip("i32"), Skip("struct"), Skip("struct")>> /\ s = <<Number, Stop, Stop>>
      BY <1>6, PairsEqual
    <2>1. t # <<>> /\ Head(t) = Skip("i32") /\ Tail(t) = <<Skip("struct"), Skip("struct")>>
      BY <2>0, Taken3
    <2>2. s # <<>> /\ Head(s) = Number /\ Tail(s) = <<Stop, Stop>>
      BY <2>0, Taken3
    <2>3. Leaves(Skip("i32"), Number) = <<>>
      BY LeavesIs, TypesAre
    <2>4. <<>> \o <<Skip("struct"), Skip("struct")>> = <<Skip("struct"), Skip("struct")>>
      BY Joined
    <2>5. <<<<Skip("struct"), Skip("struct")>>,
            <<Stop, Stop>>>> \in Ways
      BY DEF Ways
    <2>6. <<Leaves(Head(t), Head(s)) \o Tail(t), Tail(s)>> \in Ways
      BY <2>1, <2>2, <2>3, <2>4, <2>5
    <2>7. Skip("i32").reads = Number.is
      BY DEF Skip, Text, Number, Stop, Field, MapOf, ListOf
    <2>8. Skip("i32") = Skip("struct") /\ Number # Stop => Number.type \in Types
      BY SkipsDiffer, TypesAre DEF Field
    <2>9. Leaves(Head(t), Head(s)) \in Seq(Readers)
      BY <1>b, <2>1, <2>2, <2>3, TuplesAre
    <2>10. QED
      BY <2>1, <2>2, <2>6, <2>7, <2>8, <2>9, TypesAre DEF WayGoesOn
  <1>7. CASE <<t, s>> = <<<<Skip("struct"), Skip("struct")>>,
                         <<Stop, Stop>>>>
    <2>0. t = <<Skip("struct"), Skip("struct")>> /\ s = <<Stop, Stop>>
      BY <1>7, PairsEqual
    <2>1. t # <<>> /\ Head(t) = Skip("struct") /\ Tail(t) = <<Skip("struct")>>
      BY <2>0, Taken2
    <2>2. s # <<>> /\ Head(s) = Stop /\ Tail(s) = <<Stop>>
      BY <2>0, Taken2
    <2>3. Leaves(Skip("struct"), Stop) = <<>>
      BY LeavesIs, TypesAre
    <2>4. <<>> \o <<Skip("struct")>> = <<Skip("struct")>>
      BY Joined
    <2>5. <<<<Skip("struct")>>,
            <<Stop>>>> \in Ways
      BY DEF Ways
    <2>6. <<Leaves(Head(t), Head(s)) \o Tail(t), Tail(s)>> \in Ways
      BY <2>1, <2>2, <2>3, <2>4, <2>5
    <2>7. Skip("struct").reads = Stop.is
      BY DEF Skip, Text, Number, Stop, Field, MapOf, ListOf
    <2>8. Skip("struct") = Skip("struct") /\ Stop # Stop => Stop.type \in Types
      BY SkipsDiffer, TypesAre DEF Field
    <2>9. Leaves(Head(t), Head(s)) \in Seq(Readers)
      BY <1>b, <2>1, <2>2, <2>3, TuplesAre
    <2>10. QED
      BY <2>1, <2>2, <2>6, <2>7, <2>8, <2>9, TypesAre DEF WayGoesOn
  <1>8. CASE <<t, s>> = <<<<Skip("struct")>>,
                         <<Stop>>>>
    <2>0. t = <<Skip("struct")>> /\ s = <<Stop>>
      BY <1>8, PairsEqual
    <2>1. t # <<>> /\ Head(t) = Skip("struct") /\ Tail(t) = <<>>
      BY <2>0, Taken1
    <2>2. s # <<>> /\ Head(s) = Stop /\ Tail(s) = <<>>
      BY <2>0, Taken1
    <2>3. Leaves(Skip("struct"), Stop) = <<>>
      BY LeavesIs, TypesAre
    <2>4. <<>> \o <<>> = <<>>
      BY Joined
    <2>5. <<<<>>,
            <<>>>> \in Ways
      BY DEF Ways
    <2>6. <<Leaves(Head(t), Head(s)) \o Tail(t), Tail(s)>> \in Ways
      BY <2>1, <2>2, <2>3, <2>4, <2>5
    <2>7. Skip("struct").reads = Stop.is
      BY DEF Skip, Text, Number, Stop, Field, MapOf, ListOf
    <2>8. Skip("struct") = Skip("struct") /\ Stop # Stop => Stop.type \in Types
      BY SkipsDiffer, TypesAre DEF Field
    <2>9. Leaves(Head(t), Head(s)) \in Seq(Readers)
      BY <1>b, <2>1, <2>2, <2>3, TuplesAre
    <2>10. QED
      BY <2>1, <2>2, <2>6, <2>7, <2>8, <2>9, TypesAre DEF WayGoesOn
  <1>9. CASE <<t, s>> = <<<<Skip("map")>>,
                         <<MapOf("i32", "string", 2), Number, Text(""), Number, Text("")>>>>
    <2>0. t = <<Skip("map")>> /\ s = <<MapOf("i32", "string", 2), Number, Text(""), Number, Text("")>>
      BY <1>9, PairsEqual
    <2>1. t # <<>> /\ Head(t) = Skip("map") /\ Tail(t) = <<>>
      BY <2>0, Taken1
    <2>2. s # <<>> /\ Head(s) = MapOf("i32", "string", 2) /\ Tail(s) = <<Number, Text(""), Number, Text("")>>
      <3> DEFINE m == MapOf("i32", "string", 2)
                 n == Number
                 e == Text("")
      <3> HIDE DEF m, n, e
      <3>1. s = <<m, n, e, n, e>>
        BY <2>0 DEF m, n, e
      <3>2. s # <<>> /\ Head(s) = m /\ Tail(s) = <<n, e, n, e>>
        BY <3>1, Taken5
      <3>3. QED
        BY <3>2 DEF m, n, e
    <2>3. Leaves(Skip("map"), MapOf("i32", "string", 2)) = <<Skip("i32"), Skip("string"), Skip("i32"), Skip("string")>>
      BY LeavesIs, TypesAre
    <2>4. <<Skip("i32"), Skip("string"), Skip("i32"), Skip("string")>> \o <<>> = <<Skip("i32"), Skip("string"), Skip("i32"), Skip("string")>>
      BY Joined
    <2>5. <<<<Skip("i32"), Skip("string"), Skip("i32"), Skip("string")>>,
            <<Number, Text(""), Number, Text("")>>>> \in Ways
      BY DEF Ways
    <2>6. <<Leaves(Head(t), Head(s)) \o Tail(t), Tail(s)>> \in Ways
      BY <2>1, <2>2, <2>3, <2>4, <2>5
    <2>7. Skip("map").reads = MapOf("i32", "string", 2).is
      BY DEF Skip, Text, Number, Stop, Field, MapOf, ListOf
    <2>8. Skip("map") = Skip("struct") /\ MapOf("i32", "string", 2) # Stop => MapOf("i32", "string", 2).type \in Types
      BY SkipsDiffer, TypesAre DEF Field
    <2>9. Leaves(Head(t), Head(s)) \in Seq(Readers)
      <3>1. <<Skip("i32"), Skip("string"), Skip("i32"), Skip("string")>> \in Seq(Readers)
        BY <1>b, TuplesAre, Zenon
      <3>2. QED
        BY <2>1, <2>2, <2>3, <3>1
    <2>10. QED
      BY <2>1, <2>2, <2>6, <2>7, <2>8, <2>9, TypesAre DEF WayGoesOn
  <1>10. CASE <<t, s>> = <<<<Skip("i32"), Skip("string"), Skip("i32"), Skip("string")>>,
                         <<Number, Text(""), Number, Text("")>>>>
    <2>0. t = <<Skip("i32"), Skip("string"), Skip("i32"), Skip("string")>> /\ s = <<Number, Text(""), Number, Text("")>>
      BY <1>10, PairsEqual
    <2>1. t # <<>> /\ Head(t) = Skip("i32") /\ Tail(t) = <<Skip("string"), Skip("i32"), Skip("string")>>
      BY <2>0, Taken4
    <2>2. s # <<>> /\ Head(s) = Number /\ Tail(s) = <<Text(""), Number, Text("")>>
      BY <2>0, Taken4
    <2>3. Leaves(Skip("i32"), Number) = <<>>
      BY LeavesIs, TypesAre
    <2>4. <<>> \o <<Skip("string"), Skip("i32"), Skip("string")>> = <<Skip("string"), Skip("i32"), Skip("string")>>
      BY Joined
    <2>5. <<<<Skip("string"), Skip("i32"), Skip("string")>>,
            <<Text(""), Number, Text("")>>>> \in Ways
      BY DEF Ways
    <2>6. <<Leaves(Head(t), Head(s)) \o Tail(t), Tail(s)>> \in Ways
      BY <2>1, <2>2, <2>3, <2>4, <2>5
    <2>7. Skip("i32").reads = Number.is
      BY DEF Skip, Text, Number, Stop, Field, MapOf, ListOf
    <2>8. Skip("i32") = Skip("struct") /\ Number # Stop => Number.type \in Types
      BY SkipsDiffer, TypesAre DEF Field
    <2>9. Leaves(Head(t), Head(s)) \in Seq(Readers)
      BY <1>b, <2>1, <2>2, <2>3, TuplesAre
    <2>10. QED
      BY <2>1, <2>2, <2>6, <2>7, <2>8, <2>9, TypesAre DEF WayGoesOn
  <1>11. CASE <<t, s>> = <<<<Skip("string"), Skip("i32"), Skip("string")>>,
                         <<Text(""), Number, Text("")>>>>
    <2>0. t = <<Skip("string"), Skip("i32"), Skip("string")>> /\ s = <<Text(""), Number, Text("")>>
      BY <1>11, PairsEqual
    <2>1. t # <<>> /\ Head(t) = Skip("string") /\ Tail(t) = <<Skip("i32"), Skip("string")>>
      BY <2>0, Taken3
    <2>2. s # <<>> /\ Head(s) = Text("") /\ Tail(s) = <<Number, Text("")>>
      BY <2>0, Taken3
    <2>3. Leaves(Skip("string"), Text("")) = <<>>
      BY LeavesIs, TypesAre
    <2>4. <<>> \o <<Skip("i32"), Skip("string")>> = <<Skip("i32"), Skip("string")>>
      BY Joined
    <2>5. <<<<Skip("i32"), Skip("string")>>,
            <<Number, Text("")>>>> \in Ways
      BY DEF Ways
    <2>6. <<Leaves(Head(t), Head(s)) \o Tail(t), Tail(s)>> \in Ways
      BY <2>1, <2>2, <2>3, <2>4, <2>5
    <2>7. Skip("string").reads = Text("").is
      BY DEF Skip, Text, Number, Stop, Field, MapOf, ListOf
    <2>8. Skip("string") = Skip("struct") /\ Text("") # Stop => Text("").type \in Types
      BY SkipsDiffer, TypesAre DEF Field
    <2>9. Leaves(Head(t), Head(s)) \in Seq(Readers)
      BY <1>b, <2>1, <2>2, <2>3, TuplesAre
    <2>10. QED
      BY <2>1, <2>2, <2>6, <2>7, <2>8, <2>9, TypesAre DEF WayGoesOn
  <1>12. CASE <<t, s>> = <<<<Skip("i32"), Skip("string")>>,
                         <<Number, Text("")>>>>
    <2>0. t = <<Skip("i32"), Skip("string")>> /\ s = <<Number, Text("")>>
      BY <1>12, PairsEqual
    <2>1. t # <<>> /\ Head(t) = Skip("i32") /\ Tail(t) = <<Skip("string")>>
      BY <2>0, Taken2
    <2>2. s # <<>> /\ Head(s) = Number /\ Tail(s) = <<Text("")>>
      BY <2>0, Taken2
    <2>3. Leaves(Skip("i32"), Number) = <<>>
      BY LeavesIs, TypesAre
    <2>4. <<>> \o <<Skip("string")>> = <<Skip("string")>>
      BY Joined
    <2>5. <<<<Skip("string")>>,
            <<Text("")>>>> \in Ways
      BY DEF Ways
    <2>6. <<Leaves(Head(t), Head(s)) \o Tail(t), Tail(s)>> \in Ways
      BY <2>1, <2>2, <2>3, <2>4, <2>5
    <2>7. Skip("i32").reads = Number.is
      BY DEF Skip, Text, Number, Stop, Field, MapOf, ListOf
    <2>8. Skip("i32") = Skip("struct") /\ Number # Stop => Number.type \in Types
      BY SkipsDiffer, TypesAre DEF Field
    <2>9. Leaves(Head(t), Head(s)) \in Seq(Readers)
      BY <1>b, <2>1, <2>2, <2>3, TuplesAre
    <2>10. QED
      BY <2>1, <2>2, <2>6, <2>7, <2>8, <2>9, TypesAre DEF WayGoesOn
  <1>13. CASE <<t, s>> = <<<<Skip("list")>>,
                         <<ListOf("string", 2), Text(""), Text("")>>>>
    <2>0. t = <<Skip("list")>> /\ s = <<ListOf("string", 2), Text(""), Text("")>>
      BY <1>13, PairsEqual
    <2>1. t # <<>> /\ Head(t) = Skip("list") /\ Tail(t) = <<>>
      BY <2>0, Taken1
    <2>2. s # <<>> /\ Head(s) = ListOf("string", 2) /\ Tail(s) = <<Text(""), Text("")>>
      BY <2>0, Taken3
    <2>3. Leaves(Skip("list"), ListOf("string", 2)) = <<Skip("string"), Skip("string")>>
      BY LeavesIs, TypesAre
    <2>4. <<Skip("string"), Skip("string")>> \o <<>> = <<Skip("string"), Skip("string")>>
      BY Joined
    <2>5. <<<<Skip("string"), Skip("string")>>,
            <<Text(""), Text("")>>>> \in Ways
      BY DEF Ways
    <2>6. <<Leaves(Head(t), Head(s)) \o Tail(t), Tail(s)>> \in Ways
      BY <2>1, <2>2, <2>3, <2>4, <2>5
    <2>7. Skip("list").reads = ListOf("string", 2).is
      BY DEF Skip, Text, Number, Stop, Field, MapOf, ListOf
    <2>8. Skip("list") = Skip("struct") /\ ListOf("string", 2) # Stop => ListOf("string", 2).type \in Types
      BY SkipsDiffer, TypesAre DEF Field
    <2>9. Leaves(Head(t), Head(s)) \in Seq(Readers)
      BY <1>b, <2>1, <2>2, <2>3, TuplesAre
    <2>10. QED
      BY <2>1, <2>2, <2>6, <2>7, <2>8, <2>9, TypesAre DEF WayGoesOn
  <1>14. CASE <<t, s>> = <<<<Skip("string"), Skip("string")>>,
                         <<Text(""), Text("")>>>>
    <2>0. t = <<Skip("string"), Skip("string")>> /\ s = <<Text(""), Text("")>>
      BY <1>14, PairsEqual
    <2>1. t # <<>> /\ Head(t) = Skip("string") /\ Tail(t) = <<Skip("string")>>
      BY <2>0, Taken2
    <2>2. s # <<>> /\ Head(s) = Text("") /\ Tail(s) = <<Text("")>>
      BY <2>0, Taken2
    <2>3. Leaves(Skip("string"), Text("")) = <<>>
      BY LeavesIs, TypesAre
    <2>4. <<>> \o <<Skip("string")>> = <<Skip("string")>>
      BY Joined
    <2>5. <<<<Skip("string")>>,
            <<Text("")>>>> \in Ways
      BY DEF Ways
    <2>6. <<Leaves(Head(t), Head(s)) \o Tail(t), Tail(s)>> \in Ways
      BY <2>1, <2>2, <2>3, <2>4, <2>5
    <2>7. Skip("string").reads = Text("").is
      BY DEF Skip, Text, Number, Stop, Field, MapOf, ListOf
    <2>8. Skip("string") = Skip("struct") /\ Text("") # Stop => Text("").type \in Types
      BY SkipsDiffer, TypesAre DEF Field
    <2>9. Leaves(Head(t), Head(s)) \in Seq(Readers)
      BY <1>b, <2>1, <2>2, <2>3, TuplesAre
    <2>10. QED
      BY <2>1, <2>2, <2>6, <2>7, <2>8, <2>9, TypesAre DEF WayGoesOn
  <1>15. CASE <<t, s>> = <<<<Skip("struct")>>,
                         <<Field("i32", 1), Number, Stop>>>>
    <2>0. t = <<Skip("struct")>> /\ s = <<Field("i32", 1), Number, Stop>>
      BY <1>15, PairsEqual
    <2>1. t # <<>> /\ Head(t) = Skip("struct") /\ Tail(t) = <<>>
      BY <2>0, Taken1
    <2>2. s # <<>> /\ Head(s) = Field("i32", 1) /\ Tail(s) = <<Number, Stop>>
      BY <2>0, Taken3
    <2>3. Leaves(Skip("struct"), Field("i32", 1)) = <<Skip("i32"), Skip("struct")>>
      BY LeavesIs, TypesAre
    <2>4. <<Skip("i32"), Skip("struct")>> \o <<>> = <<Skip("i32"), Skip("struct")>>
      BY Joined
    <2>5. <<<<Skip("i32"), Skip("struct")>>,
            <<Number, Stop>>>> \in Ways
      BY DEF Ways
    <2>6. <<Leaves(Head(t), Head(s)) \o Tail(t), Tail(s)>> \in Ways
      BY <2>1, <2>2, <2>3, <2>4, <2>5
    <2>7. Skip("struct").reads = Field("i32", 1).is
      BY DEF Skip, Text, Number, Stop, Field, MapOf, ListOf
    <2>8. Skip("struct") = Skip("struct") /\ Field("i32", 1) # Stop => Field("i32", 1).type \in Types
      BY SkipsDiffer, TypesAre DEF Field
    <2>9. Leaves(Head(t), Head(s)) \in Seq(Readers)
      BY <1>b, <2>1, <2>2, <2>3, TuplesAre
    <2>10. QED
      BY <2>1, <2>2, <2>6, <2>7, <2>8, <2>9, TypesAre DEF WayGoesOn
  <1>16. CASE <<t, s>> = <<<<Skip("i32"), Skip("struct")>>,
                         <<Number, Stop>>>>
    <2>0. t = <<Skip("i32"), Skip("struct")>> /\ s = <<Number, Stop>>
      BY <1>16, PairsEqual
    <2>1. t # <<>> /\ Head(t) = Skip("i32") /\ Tail(t) = <<Skip("struct")>>
      BY <2>0, Taken2
    <2>2. s # <<>> /\ Head(s) = Number /\ Tail(s) = <<Stop>>
      BY <2>0, Taken2
    <2>3. Leaves(Skip("i32"), Number) = <<>>
      BY LeavesIs, TypesAre
    <2>4. <<>> \o <<Skip("struct")>> = <<Skip("struct")>>
      BY Joined
    <2>5. <<<<Skip("struct")>>,
            <<Stop>>>> \in Ways
      BY DEF Ways
    <2>6. <<Leaves(Head(t), Head(s)) \o Tail(t), Tail(s)>> \in Ways
      BY <2>1, <2>2, <2>3, <2>4, <2>5
    <2>7. Skip("i32").reads = Number.is
      BY DEF Skip, Text, Number, Stop, Field, MapOf, ListOf
    <2>8. Skip("i32") = Skip("struct") /\ Number # Stop => Number.type \in Types
      BY SkipsDiffer, TypesAre DEF Field
    <2>9. Leaves(Head(t), Head(s)) \in Seq(Readers)
      BY <1>b, <2>1, <2>2, <2>3, TuplesAre
    <2>10. QED
      BY <2>1, <2>2, <2>6, <2>7, <2>8, <2>9, TypesAre DEF WayGoesOn
  <1>17. QED
    <2>1. \/ <<t, s>> = <<<<>>, <<>>>>
          \/ <<t, s>> = <<<<Skip("string")>>, <<Text("")>>>>
          \/ <<t, s>> = <<<<Skip("i32")>>, <<Number>>>>
          \/ <<t, s>> = <<<<Skip("struct")>>, <<Field("list", 1), ListOf("struct", 1), Field("i32", 1), Number, Stop, Stop>>>>
          \/ <<t, s>> = <<<<Skip("list"), Skip("struct")>>, <<ListOf("struct", 1), Field("i32", 1), Number, Stop, Stop>>>>
          \/ <<t, s>> = <<<<Skip("struct"), Skip("struct")>>, <<Field("i32", 1), Number, Stop, Stop>>>>
          \/ <<t, s>> = <<<<Skip("i32"), Skip("struct"), Skip("struct")>>, <<Number, Stop, Stop>>>>
          \/ <<t, s>> = <<<<Skip("struct"), Skip("struct")>>, <<Stop, Stop>>>>
          \/ <<t, s>> = <<<<Skip("struct")>>, <<Stop>>>>
          \/ <<t, s>> = <<<<Skip("map")>>, <<MapOf("i32", "string", 2), Number, Text(""), Number, Text("")>>>>
          \/ <<t, s>> = <<<<Skip("i32"), Skip("string"), Skip("i32"), Skip("string")>>, <<Number, Text(""), Number, Text("")>>>>
          \/ <<t, s>> = <<<<Skip("string"), Skip("i32"), Skip("string")>>, <<Text(""), Number, Text("")>>>>
          \/ <<t, s>> = <<<<Skip("i32"), Skip("string")>>, <<Number, Text("")>>>>
          \/ <<t, s>> = <<<<Skip("list")>>, <<ListOf("string", 2), Text(""), Text("")>>>>
          \/ <<t, s>> = <<<<Skip("string"), Skip("string")>>, <<Text(""), Text("")>>>>
          \/ <<t, s>> = <<<<Skip("struct")>>, <<Field("i32", 1), Number, Stop>>>>
          \/ <<t, s>> = <<<<Skip("i32"), Skip("struct")>>, <<Number, Stop>>>>
      BY Zenon DEF Ways
    <2>2. <<t, s>> # <<<<>>, <<>>>>
      BY PairsEqual
    <2>3. QED
      BY <2>1, <2>2, Zenon, <1>1, <1>2, <1>3, <1>4, <1>5, <1>6, <1>7, <1>8, <1>9, <1>10, <1>11, <1>12, <1>13, <1>14, <1>15, <1>16


(* The readers of a way do nothing but skip.                               *)
Skips == {Skip(type) : type \in Types}

LEMMA WaysSkip ==
    ASSUME NEW t, NEW s, <<t, s>> \in Ways
    PROVE  t \in Seq(Skips) /\ s \in Seq(Items)
  <1>1. \/ <<t, s>> = <<<<>>, <<>>>>
        \/ <<t, s>> = <<<<Skip("string")>>, <<Text("")>>>>
        \/ <<t, s>> = <<<<Skip("i32")>>, <<Number>>>>
        \/ <<t, s>> = <<<<Skip("struct")>>, <<Field("list", 1), ListOf("struct", 1), Field("i32", 1), Number, Stop, Stop>>>>
        \/ <<t, s>> = <<<<Skip("list"), Skip("struct")>>, <<ListOf("struct", 1), Field("i32", 1), Number, Stop, Stop>>>>
        \/ <<t, s>> = <<<<Skip("struct"), Skip("struct")>>, <<Field("i32", 1), Number, Stop, Stop>>>>
        \/ <<t, s>> = <<<<Skip("i32"), Skip("struct"), Skip("struct")>>, <<Number, Stop, Stop>>>>
        \/ <<t, s>> = <<<<Skip("struct"), Skip("struct")>>, <<Stop, Stop>>>>
        \/ <<t, s>> = <<<<Skip("struct")>>, <<Stop>>>>
        \/ <<t, s>> = <<<<Skip("map")>>, <<MapOf("i32", "string", 2), Number, Text(""), Number, Text("")>>>>
        \/ <<t, s>> = <<<<Skip("i32"), Skip("string"), Skip("i32"), Skip("string")>>, <<Number, Text(""), Number, Text("")>>>>
        \/ <<t, s>> = <<<<Skip("string"), Skip("i32"), Skip("string")>>, <<Text(""), Number, Text("")>>>>
        \/ <<t, s>> = <<<<Skip("i32"), Skip("string")>>, <<Number, Text("")>>>>
        \/ <<t, s>> = <<<<Skip("list")>>, <<ListOf("string", 2), Text(""), Text("")>>>>
        \/ <<t, s>> = <<<<Skip("string"), Skip("string")>>, <<Text(""), Text("")>>>>
        \/ <<t, s>> = <<<<Skip("struct")>>, <<Field("i32", 1), Number, Stop>>>>
        \/ <<t, s>> = <<<<Skip("i32"), Skip("struct")>>, <<Number, Stop>>>>
    BY Zenon DEF Ways
  <1>2. /\ Skip("string") \in Skips /\ Skip("i32") \in Skips /\ Skip("struct") \in Skips
        /\ Skip("map") \in Skips /\ Skip("list") \in Skips
    BY TypesAre DEF Skips
  <1>3. /\ Text("") \in Items /\ Number \in Items /\ Stop \in Items
        /\ Field("list", 1) \in Items /\ Field("i32", 1) \in Items
        /\ MapOf("i32", "string", 2) \in Items
        /\ ListOf("string", 2) \in Items /\ ListOf("struct", 1) \in Items
    <2>1. 1 \in 0..13 /\ 1 \in Nat /\ 2 \in Nat
      OBVIOUS
    <2>2. Text("") \in Items /\ Number \in Items /\ Stop \in Items
      BY ItemsAre
    <2>3. Field("list", 1) \in Items /\ Field("i32", 1) \in Items
      BY <2>1, ItemsAre, TypesAre, Zenon
    <2>4. MapOf("i32", "string", 2) \in Items
      BY <2>1, ItemsAre, TypesAre, Zenon
    <2>5. ListOf("string", 2) \in Items /\ ListOf("struct", 1) \in Items
      BY <2>1, ItemsAre, TypesAre, Zenon
    <2>6. QED
      BY <2>2, <2>3, <2>4, <2>5
  <1>4. CASE <<t, s>> = <<<<>>, <<>>>>
    <2>1. t = <<>> /\ s = <<>>
      BY <1>4, PairsEqual
    <2>2. QED
      BY <2>1
  <1>5. CASE <<t, s>> = <<<<Skip("string")>>, <<Text("")>>>>
    <2>1. t = <<Skip("string")>> /\ s = <<Text("")>>
      BY <1>5, PairsEqual
    <2>2. QED
      BY <1>2, <1>3, <2>1, TuplesAre, Zenon
  <1>6. CASE <<t, s>> = <<<<Skip("i32")>>, <<Number>>>>
    <2>1. t = <<Skip("i32")>> /\ s = <<Number>>
      BY <1>6, PairsEqual
    <2>2. QED
      BY <1>2, <1>3, <2>1, TuplesAre, Zenon
  <1>7. CASE <<t, s>> = <<<<Skip("struct")>>, <<Field("list", 1), ListOf("struct", 1), Field("i32", 1), Number, Stop, Stop>>>>
    <2>1. t = <<Skip("struct")>> /\ s = <<Field("list", 1), ListOf("struct", 1), Field("i32", 1), Number, Stop, Stop>>
      BY <1>7, PairsEqual
    <2>2. QED
      BY <1>2, <1>3, <2>1, TuplesAre, Zenon
  <1>8. CASE <<t, s>> = <<<<Skip("list"), Skip("struct")>>, <<ListOf("struct", 1), Field("i32", 1), Number, Stop, Stop>>>>
    <2>1. t = <<Skip("list"), Skip("struct")>> /\ s = <<ListOf("struct", 1), Field("i32", 1), Number, Stop, Stop>>
      BY <1>8, PairsEqual
    <2>2. QED
      BY <1>2, <1>3, <2>1, TuplesAre, Zenon
  <1>9. CASE <<t, s>> = <<<<Skip("struct"), Skip("struct")>>, <<Field("i32", 1), Number, Stop, Stop>>>>
    <2>1. t = <<Skip("struct"), Skip("struct")>> /\ s = <<Field("i32", 1), Number, Stop, Stop>>
      BY <1>9, PairsEqual
    <2>2. QED
      BY <1>2, <1>3, <2>1, TuplesAre, Zenon
  <1>10. CASE <<t, s>> = <<<<Skip("i32"), Skip("struct"), Skip("struct")>>, <<Number, Stop, Stop>>>>
    <2>1. t = <<Skip("i32"), Skip("struct"), Skip("struct")>> /\ s = <<Number, Stop, Stop>>
      BY <1>10, PairsEqual
    <2>2. QED
      BY <1>2, <1>3, <2>1, TuplesAre, Zenon
  <1>11. CASE <<t, s>> = <<<<Skip("struct"), Skip("struct")>>, <<Stop, Stop>>>>
    <2>1. t = <<Skip("struct"), Skip("struct")>> /\ s = <<Stop, Stop>>
      BY <1>11, PairsEqual
    <2>2. QED
      BY <1>2, <1>3, <2>1, TuplesAre, Zenon
  <1>12. CASE <<t, s>> = <<<<Skip("struct")>>, <<Stop>>>>
    <2>1. t = <<Skip("struct")>> /\ s = <<Stop>>
      BY <1>12, PairsEqual
    <2>2. QED
      BY <1>2, <1>3, <2>1, TuplesAre, Zenon
  <1>13. CASE <<t, s>> = <<<<Skip("map")>>, <<MapOf("i32", "string", 2), Number, Text(""), Number, Text("")>>>>
    <2>1. t = <<Skip("map")>> /\ s = <<MapOf("i32", "string", 2), Number, Text(""), Number, Text("")>>
      BY <1>13, PairsEqual
    <2>2. QED
      BY <1>2, <1>3, <2>1, TuplesAre, Zenon
  <1>14. CASE <<t, s>> = <<<<Skip("i32"), Skip("string"), Skip("i32"), Skip("string")>>, <<Number, Text(""), Number, Text("")>>>>
    <2>1. t = <<Skip("i32"), Skip("string"), Skip("i32"), Skip("string")>> /\ s = <<Number, Text(""), Number, Text("")>>
      BY <1>14, PairsEqual
    <2>2. QED
      BY <1>2, <1>3, <2>1, TuplesAre, Zenon
  <1>15. CASE <<t, s>> = <<<<Skip("string"), Skip("i32"), Skip("string")>>, <<Text(""), Number, Text("")>>>>
    <2>1. t = <<Skip("string"), Skip("i32"), Skip("string")>> /\ s = <<Text(""), Number, Text("")>>
      BY <1>15, PairsEqual
    <2>2. QED
      BY <1>2, <1>3, <2>1, TuplesAre, Zenon
  <1>16. CASE <<t, s>> = <<<<Skip("i32"), Skip("string")>>, <<Number, Text("")>>>>
    <2>1. t = <<Skip("i32"), Skip("string")>> /\ s = <<Number, Text("")>>
      BY <1>16, PairsEqual
    <2>2. QED
      BY <1>2, <1>3, <2>1, TuplesAre, Zenon
  <1>17. CASE <<t, s>> = <<<<Skip("list")>>, <<ListOf("string", 2), Text(""), Text("")>>>>
    <2>1. t = <<Skip("list")>> /\ s = <<ListOf("string", 2), Text(""), Text("")>>
      BY <1>17, PairsEqual
    <2>2. QED
      BY <1>2, <1>3, <2>1, TuplesAre, Zenon
  <1>18. CASE <<t, s>> = <<<<Skip("string"), Skip("string")>>, <<Text(""), Text("")>>>>
    <2>1. t = <<Skip("string"), Skip("string")>> /\ s = <<Text(""), Text("")>>
      BY <1>18, PairsEqual
    <2>2. QED
      BY <1>2, <1>3, <2>1, TuplesAre, Zenon
  <1>19. CASE <<t, s>> = <<<<Skip("struct")>>, <<Field("i32", 1), Number, Stop>>>>
    <2>1. t = <<Skip("struct")>> /\ s = <<Field("i32", 1), Number, Stop>>
      BY <1>19, PairsEqual
    <2>2. QED
      BY <1>2, <1>3, <2>1, TuplesAre, Zenon
  <1>20. CASE <<t, s>> = <<<<Skip("i32"), Skip("struct")>>, <<Number, Stop>>>>
    <2>1. t = <<Skip("i32"), Skip("struct")>> /\ s = <<Number, Stop>>
      BY <1>20, PairsEqual
    <2>2. QED
      BY <1>2, <1>3, <2>1, TuplesAre, Zenon
  <1>21. QED
    BY <1>1, <1>4, <1>5, <1>6, <1>7, <1>8, <1>9, <1>10, <1>11, <1>12, <1>13, <1>14, <1>15, <1>16, <1>17, <1>18, <1>19, <1>20, Zenon

LEMMA LargerSeq ==
    ASSUME NEW S, NEW T, S \subseteq T, NEW q \in Seq(S)
    PROVE  q \in Seq(T)
  OBVIOUS

LEMMA WaysAre ==
    ASSUME NEW t, NEW s, <<t, s>> \in Ways
    PROVE  t \in Seq(Readers) /\ s \in Seq(Items)
  <1>1. Skips \subseteq Readers
    BY ReadersAre DEF Skips
  <1>2. t \in Seq(Skips) /\ s \in Seq(Items)
    BY WaysSkip
  <1>3. QED
    BY <1>1, <1>2, LargerSeq

(* Which step reads an item is determined by the innermost reader.         *)
DecodeStep ==
    \/ ReadMessageBegin \/ ReadMap \/ ReadKey \/ ReadList \/ ReadName
    \/ \E owner \in Owners : ReadField(owner) \/ ReadStop(owner)
    \/ \E k \in Keys : ReadValue(k)
    \/ \E type \in Types : SkipItem(type)

LEMMA ReadersDiffer ==
    /\ \A o : Fields(o).reads = "field" /\ Fields(o).of = o
    /\ \A type \in Types : /\ Skip(type).of = "skipped"
                           /\ Skip(type).reads = IF type = "struct" THEN "field" ELSE type
    /\ TheMap.reads = "map" /\ TheMap.of = "params"
    /\ TheList.reads = "list" /\ TheList.of = "names"
    /\ TheKey.reads = "string" /\ TheKey.of = "key"
    /\ TheName.reads = "string" /\ TheName.of = "name"
    /\ Message.reads = "message" /\ Message.of = "reply"
    /\ \A k : TheValue(k).reads = "string" /\ TheValue(k).of = "value" /\ TheValue(k).key = k
    /\ Skip("struct") = Fields("skipped")
  BY DEF Fields, Skip, TheMap, TheList, TheKey, TheName, Message, TheValue

LEMMA OwnersAre ==
    /\ "get_table" \in Owners /\ "get_all_tables" \in Owners /\ "table" \in Owners
    /\ "MetaException" \in Owners /\ "NoSuchObject" \in Owners /\ "skipped" \in Owners
    /\ Calls \subseteq Owners
  BY DEF Owners, Calls

(* The reader that a step is a step of.                                    *)
LEMMA WhoseStep ==
    ASSUME DecodeStep
    PROVE  \/ ReadMessageBegin /\ Head(todo) = Message
           \/ ReadMap /\ Head(todo) = TheMap
           \/ ReadKey /\ Head(todo) = TheKey
           \/ ReadList /\ Head(todo) = TheList
           \/ ReadName /\ Head(todo) = TheName
           \/ \E owner \in Owners : (ReadField(owner) \/ ReadStop(owner)) /\ Head(todo) = Fields(owner)
           \/ \E k \in Keys : ReadValue(k) /\ Head(todo) = TheValue(k)
           \/ \E type \in Types \ {"struct"} : SkipItem(type) /\ Head(todo) = Skip(type)
  BY DEF DecodeStep, ReadMessageBegin, ReadMap, ReadKey, ReadList, ReadName, ReadField, ReadStop,
         ReadValue, SkipItem, Reads

LEMMA WhichStep ==
    ASSUME DecodeStep
    PROVE  /\ Head(todo) = Message => ReadMessageBegin
           /\ Head(todo) = TheMap => ReadMap
           /\ Head(todo) = TheKey => ReadKey
           /\ Head(todo) = TheList => ReadList
           /\ Head(todo) = TheName => ReadName
           /\ \A o \in Owners : Head(todo) = Fields(o) => ReadField(o) \/ ReadStop(o)
           /\ \A k : Head(todo) = TheValue(k) => ReadValue(k)
           /\ \A type \in Types \ {"struct"} : Head(todo) = Skip(type) => SkipItem(type)
  <1> DEFINE r == Head(todo)
  <1>1. "field" \notin Types /\ "message" \notin Types
    BY DEF Types
  <1>2. /\ "skipped" \notin {"params", "names", "key", "name", "reply", "value"}
        /\ "value" \notin {"params", "names", "key", "name", "reply"}
    OBVIOUS
  <1> HIDE DEF r
  <1>3. r = Message => ReadMessageBegin
    BY WhoseStep, ReadersDiffer, <1>1 DEF r
  <1>4. r = TheMap => ReadMap
    BY WhoseStep, ReadersDiffer, <1>1, <1>2 DEF r
  <1>5. r = TheKey => ReadKey
    BY WhoseStep, ReadersDiffer, <1>1, <1>2 DEF r
  <1>6. r = TheList => ReadList
    BY WhoseStep, ReadersDiffer, <1>1, <1>2 DEF r
  <1>7. r = TheName => ReadName
    BY WhoseStep, ReadersDiffer, <1>1, <1>2 DEF r
  <1>8. ASSUME NEW o \in Owners, r = Fields(o)
        PROVE  ReadField(o) \/ ReadStop(o)
    BY WhoseStep, ReadersDiffer, <1>1, <1>8 DEF r
  <1>9. ASSUME NEW k, r = TheValue(k)
        PROVE  ReadValue(k)
    BY WhoseStep, ReadersDiffer, <1>1, <1>2, <1>9 DEF r
  <1>10. ASSUME NEW type \in Types \ {"struct"}, r = Skip(type)
         PROVE  SkipItem(type)
    BY WhoseStep, ReadersDiffer, <1>1, <1>2, <1>10 DEF r
  <1>11. QED
    BY <1>3, <1>4, <1>5, <1>6, <1>7, <1>8, <1>9, <1>10 DEF r


-----------------------------------------------------------------------------
(* What a server may answer.                                               *)

LEMMA AnswerIs ==
    ASSUME NEW c \in Calls, NEW a \in Answers(c)
    PROVE  /\ a.body \in {"exception", "misnamed", "empty", "MetaException", "NoSuchObject", "success"}
           /\ a.before \in Optional /\ a.after \in Optional
           /\ a.body = "NoSuchObject" => c = "get_table"
           /\ a.body = "empty" => a.of = NoValue
           /\ a.body = "success" /\ c = "get_table" =>
                 \/ a.of.type \in {"none", "list", "foreign"} /\ a.of.value = NoParams
                 \/ a.of.type = "params" /\ a.of.value \in Params
           /\ a.body = "success" /\ c = "get_all_tables" =>
                 \/ a.of.type = "names" /\ a.of.value \in HiveTables
                 \/ a.of.type = "foreign" /\ a.of.value = <<>>
  <1>1. "struct" \in Types /\ "map" \in Types
    BY TypesAre
  <1>2. <<>> \in Optional /\ <<"struct">> \in Optional /\ <<"map">> \in Optional
    BY <1>1 DEF Optional
  <1> DEFINE Plain == [body : {"exception", "misnamed", "empty", "MetaException"}, of : {NoValue},
                       before : {<<>>}, after : {<<>>}]
             Missing == [body : {"NoSuchObject"}, of : {NoValue}, before : Optional, after : Optional]
             Bare == [body : {"success"}, of : [type : {"none", "list", "foreign"}, value : {NoParams}],
                      before : Optional, after : Optional]
             Given == [body : {"success"}, of : [type : {"params"}, value : Params],
                       before : {<<>>, <<"struct">>}, after : {<<>>, <<"map">>}]
             Named == [body : {"success"},
                       of : [type : {"names"}, value : HiveTables] \cup {[type |-> "foreign", value |-> <<>>]},
                       before : Optional, after : Optional]
  <1>3. \/ a \in Plain
        \/ c = "get_table" /\ (a \in Missing \/ a \in Bare \/ a \in Given)
        \/ c = "get_all_tables" /\ a \in Named
    BY DEF Answers, Calls
  <1>4. CASE a \in Plain
    BY <1>2, <1>4
  <1>5. CASE c = "get_table" /\ a \in Missing
    BY <1>2, <1>5
  <1>6. CASE c = "get_table" /\ a \in Bare
    BY <1>2, <1>6
  <1>7. CASE c = "get_table" /\ a \in Given
    BY <1>2, <1>7
  <1>8. CASE c = "get_all_tables" /\ a \in Named
    BY <1>2, <1>8
  <1>9. QED
    BY <1>3, <1>4, <1>5, <1>6, <1>7, <1>8

(* Items of a value, and of a field that may be there.                     *)
LEMMA ValueIs ==
    /\ Value("string") = <<Text("")>> /\ Value("i32") = <<Number>>
    /\ Value("struct") = <<Field("list", 1), ListOf("struct", 1), Field("i32", 1), Number, Stop, Stop>>
    /\ Value("map") = <<MapOf("i32", "string", 2), Number, Text(""), Number, Text("")>>
    /\ Value("list") = <<ListOf("string", 2), Text(""), Text("")>>
  <1>1. Value("string") = <<Text("")>>
    BY DEF Value
  <1>2. Value("i32") = <<Number>>
    BY DEF Value
  <1>3. Value("struct") = <<Field("list", 1), ListOf("struct", 1), Field("i32", 1), Number, Stop, Stop>>
    BY DEF Value
  <1>4. Value("map") = <<MapOf("i32", "string", 2), Number, Text(""), Number, Text("")>>
    BY DEF Value
  <1>5. Value("list") = <<ListOf("string", 2), Text(""), Text("")>>
    BY DEF Value
  <1>6. QED
    BY <1>1, <1>2, <1>3, <1>4, <1>5

LEMMA WayOfValue ==
    ASSUME NEW type \in Types
    PROVE  <<<<Skip(type)>>, Value(type)>> \in Ways
  <1>1. CASE type = "string"
    BY <1>1, ValueIs, Zenon DEF Ways
  <1>2. CASE type = "i32"
    BY <1>2, ValueIs, Zenon DEF Ways
  <1>3. CASE type = "struct"
    BY <1>3, ValueIs, Zenon DEF Ways
  <1>4. CASE type = "map"
    BY <1>4, ValueIs, Zenon DEF Ways
  <1>5. CASE type = "list"
    BY <1>5, ValueIs, Zenon DEF Ways
  <1>6. QED
    BY <1>1, <1>2, <1>3, <1>4, <1>5 DEF Types

LEMMA ValuesAre ==
    ASSUME NEW type \in Types
    PROVE  Value(type) \in Seq(Items)
  BY WayOfValue, WaysAre

LEMMA FieldOfIs ==
    ASSUME NEW type \in Types, NEW id \in 0..13
    PROVE  /\ FieldOf(<<type>>, id) = <<Field(type, id)>> \o Value(type)
           /\ FieldOf(<<type>>, id) \in Seq(Items)
  <1>1. FieldOf(<<type>>, id) = <<Field(type, id)>> \o Value(type)
    <2>1. <<type>> # <<>> /\ <<type>>[1] = type
      OBVIOUS
    <2>2. QED
      BY <2>1 DEF FieldOf
  <1>2. Field(type, id) \in Items /\ Value(type) \in Seq(Items)
    BY ItemsAre, ValuesAre
  <1>3. <<Field(type, id)>> \o Value(type) \in Seq(Items)
    <2> HIDE DEF Items
    <2>1. QED
      BY <1>2, FrontOf, Zenon
  <1>4. QED
    BY <1>1, <1>3

LEMMA OptionalFieldIs ==
    ASSUME NEW o \in Optional, NEW id \in 0..13
    PROVE  /\ FieldOf(o, id) \in Seq(Items)
           /\ \/ o = <<>> /\ FieldOf(o, id) = <<>>
              \/ \E type \in Types : o = <<type>>
  <1>1. CASE o = <<>>
    BY <1>1 DEF FieldOf
  <1>2. CASE \E type \in Types : o = <<type>>
    BY <1>2, FieldOfIs
  <1>3. QED
    BY <1>1, <1>2 DEF Optional

-----------------------------------------------------------------------------
(* What is left to read, from the end of each struct forwards.             *)

ExceptionAfter(a) == FieldOf(a.after, 4) \o <<Stop, Stop>>
ExceptionMid(a) == FieldOf(<<"string">>, 1) \o ExceptionAfter(a)
ExceptionAll(a) == FieldOf(a.before, 3) \o ExceptionMid(a)

Column12(a) ==
    CASE a.of.type = "none" -> <<>>
      [] a.of.type = "list" -> FieldOf(<<"list">>, 12)
      [] a.of.type = "foreign" -> FieldOf(<<"map">>, 12)
      [] a.of.type = "params" -> <<Field("map", 12),
           MapOf("string", "string", Cardinality(DOMAIN a.of.value))>> \o Pairs(a.of.value)
TableAfter(a) == FieldOf(a.after, 13) \o <<Stop, Stop>>
TableMid(a) == Column12(a) \o TableAfter(a)
TableAll(a) == FieldOf(a.before, 7) \o TableMid(a)

ListAfter(a) == FieldOf(a.after, 6) \o <<Stop>>
ListMid(a) == <<Field("list", 0)>> \o (ListItems(a) \o ListAfter(a))
ListAll(a) == FieldOf(a.before, 5) \o ListMid(a)

(* The parameters of the first i keys, and the names as items.             *)
KeysOf(p) == SetToSeq(DOMAIN p)
FirstOf(p, i) == [x \in {KeysOf(p)[j] : j \in 1..i} |-> p[x]]
Spelt(ns) == [i \in DOMAIN ns |-> Text(ns[i])]

(* The points between two values of a reply: the readers O, the items W    *)
(* left to them, and the parameters P and names N that were decoded.       *)
InTable(c) == <<Fields("table"), Fields(c)>>
AtKey(c, a, i, O, W, P) ==
    /\ a.of.type = "params" /\ P = FirstOf(a.of.value, i)
    /\ O = Copies(Len(KeysOf(a.of.value)) - i, TheKey) \o InTable(c)
    /\ W = SubSeq(Pairs(a.of.value), (2 * i) + 1, 2 * Len(KeysOf(a.of.value))) \o TableAfter(a)
AtValue(c, a, i, O, W, P) ==
    /\ a.of.type = "params" /\ P = FirstOf(a.of.value, i - 1)
    /\ O = <<TheValue(KeysOf(a.of.value)[i])>>
             \o (Copies(Len(KeysOf(a.of.value)) - i, TheKey) \o InTable(c))
    /\ W = SubSeq(Pairs(a.of.value), 2 * i, 2 * Len(KeysOf(a.of.value))) \o TableAfter(a)
AtName(c, a, i, O, W, N) ==
    /\ a.of.type = "names" /\ N = SubSeq(a.of.value, 1, i)
    /\ O = Copies(Len(a.of.value) - i, TheName) \o <<Fields(c)>>
    /\ W = SubSeq(Spelt(a.of.value), i + 1, Len(a.of.value)) \o ListAfter(a)
Point(c, a, O, W, P, N) ==
    \/ O = <<Message>> /\ W = ReplyItems(c, a) /\ P = NoParams /\ N = <<>>
    \/ /\ a.body \notin {"exception", "misnamed"}
       /\ O = <<Fields(c)>> /\ W = ResultItems(c, a) /\ P = NoParams /\ N = <<>>
    \/ /\ a.body \in {"success", "empty"}
       /\ O = <<Fields(c)>> /\ W = <<Stop>>
       /\ c = "get_table" => P = a.of.value
       /\ c = "get_all_tables" => N = a.of.value /\ P = NoParams
    \/ /\ a.body \in {"MetaException", "NoSuchObject"} /\ P = NoParams
       /\ O = <<Fields(a.body), Fields(c)>>
       /\ W \in {ExceptionAll(a), ExceptionMid(a), ExceptionAfter(a), <<Stop, Stop>>}
    \/ /\ a.body = "success" /\ c = "get_table"
       /\ \/ O = InTable(c) /\ W \in {TableAll(a), TableMid(a)} /\ P = NoParams
          \/ O = InTable(c) /\ W \in {TableAfter(a), <<Stop, Stop>>} /\ P = a.of.value
          \/ /\ O = <<TheMap>> \o InTable(c) /\ W = Value("map") \o TableAfter(a)
             /\ P = NoParams /\ a.of.type = "foreign"
          \/ /\ O = <<TheMap>> \o InTable(c) /\ a.of.type = "params" /\ P = NoParams
             /\ W = <<MapOf("string", "string", Len(KeysOf(a.of.value)))>> \o (Pairs(a.of.value) \o TableAfter(a))
          \/ \E i \in 0..Len(KeysOf(a.of.value)) : AtKey(c, a, i, O, W, P)
          \/ \E i \in 1..Len(KeysOf(a.of.value)) : AtValue(c, a, i, O, W, P)
    \/ /\ a.body = "success" /\ c = "get_all_tables" /\ P = NoParams
       /\ \/ O = <<Fields(c)>> /\ W \in {ListAll(a), ListMid(a)} /\ N = <<>>
          \/ O = <<Fields(c)>> /\ W = ListAfter(a) /\ N = a.of.value
          \/ O = <<TheList, Fields(c)>> /\ W = ListItems(a) \o ListAfter(a) /\ N = <<>>
          \/ \E i \in 0..Len(a.of.value) : AtName(c, a, i, O, W, N)

(* Where a step may lead, and what is claimed of every point: reader and   *)
(* item agree, and the step leads to another point or to the right result. *)
Goes ==
    \/ step' = "done" /\ result' = Meaning
    \/ /\ step' = "reading" /\ result' = result
       /\ \E O \in Seq(Readers), W \in Seq(Items) : \E t, s :
             /\ <<t, s>> \in Ways /\ todo' = t \o O /\ wire' = s \o W
             /\ Point(call, answer, O, W, params', names')
Sound ==
    /\ todo # <<>> /\ wire # <<>> /\ Head(wire).is = Head(todo).reads
    /\ DecodeStep => Goes

LEMMA RegroupReaders == \A a, b, c \in Seq(Readers) : (a \o b) \o c = a \o (b \o c)
  <1> DEFINE S == Readers
  <1> HIDE DEF S
  <1>1. \A a, b, c \in Seq(S) : (a \o b) \o c = a \o (b \o c)
    OBVIOUS
  <1>2. QED
    BY <1>1 DEF S

LEMMA RegroupItems == \A a, b, c \in Seq(Items) : (a \o b) \o c = a \o (b \o c)
  <1> DEFINE S == Items
  <1> HIDE DEF S
  <1>1. \A a, b, c \in Seq(S) : (a \o b) \o c = a \o (b \o c)
    OBVIOUS
  <1>2. QED
    BY <1>1 DEF S

LEMMA NothingLeft == <<<<>>, <<>>>> \in Ways
  BY Zenon DEF Ways

(* A step to a point with nothing being skipped.                           *)
LEMMA GoesTo ==
    ASSUME NEW O \in Seq(Readers), NEW W \in Seq(Items),
           todo' = O, wire' = W, step' = "reading", result' = result,
           Point(call, answer, O, W, params', names')
    PROVE  Goes
  <1>1. O = <<>> \o O /\ W = <<>> \o W
    <2> HIDE DEF Readers, Items
    <2>1. QED
      OBVIOUS
  <1>2. \E O1 \in Seq(Readers), W1 \in Seq(Items) : \E t, s :
             /\ <<t, s>> \in Ways /\ todo' = t \o O1 /\ wire' = s \o W1
             /\ Point(call, answer, O1, W1, params', names')
    BY <1>1, NothingLeft, Zenon
  <1>3. QED
    BY <1>2 DEF Goes

(* In the midst of a value that is skipped.                                *)
LEMMA SkipPoint ==
    ASSUME step = "reading",
           NEW O \in Seq(Readers), NEW W \in Seq(Items), NEW t, NEW s,
           <<t, s>> \in Ways, t # <<>>, todo = t \o O, wire = s \o W,
           Point(call, answer, O, W, params, names)
    PROVE  Sound
  <1>1. t \in Seq(Readers) /\ s \in Seq(Items) /\ WayGoesOn(t, s)
    BY WaysAre, WaysGoOn
  <1>2. PICK type \in Types : Head(t) = Skip(type)
    BY <1>1 DEF WayGoesOn
  <1>3. /\ todo # <<>> /\ Head(todo) = Skip(type) /\ Tail(todo) = Tail(t) \o O
        /\ Tail(t) \in Seq(Readers)
    <2> HIDE DEF Readers
    <2>1. QED
      BY <1>1, <1>2, FrontOfBoth
  <1>4. /\ wire # <<>> /\ Head(wire) = Head(s) /\ Tail(wire) = Tail(s) \o W
        /\ Head(wire).is = Head(todo).reads
    <2> HIDE DEF Items
    <2>1. s # <<>>
      BY <1>1 DEF WayGoesOn
    <2>2. Head(s).is = Skip(type).reads
      BY <1>1, <1>2 DEF WayGoesOn
    <2>3. wire # <<>> /\ Head(wire) = Head(s) /\ Tail(wire) = Tail(s) \o W
      BY <1>1, <2>1, FrontOfBoth
    <2>4. QED
      BY <1>3, <2>2, <2>3
  <1>5. ASSUME DecodeStep
        PROVE  Goes
    <2> DEFINE left == Leaves(Skip(type), Head(s))
    <2>1. left \in Seq(Readers) /\ <<left \o Tail(t), Tail(s)>> \in Ways
      BY <1>1, <1>2 DEF WayGoesOn
    <2>2. /\ Take(left) /\ step' = "reading" /\ result' = result
          /\ params' = params /\ names' = names
      <3>1. CASE type = "struct"
        <4>1. Head(todo) = Fields("skipped") /\ "skipped" \in Owners
          BY <1>3, <3>1, ReadersDiffer, OwnersAre
        <4>2. ReadField("skipped") \/ ReadStop("skipped")
          BY <1>5, <4>1, WhichStep
        <4>3. CASE ReadField("skipped")
          <5>1. Reader("skipped", Head(wire)) = Skip(Head(wire).type)
            BY DEF Reader, Calls
          <5>2. Skip(Head(wire).type) # Fields("table")
            <6>1. Skip(Head(wire).type).of = "skipped" /\ Fields("table").of = "table"
              BY DEF Skip, Fields
            <6>2. QED
              BY <6>1
          <5>3. Head(wire) # Stop /\ Take(<<Skip(Head(wire).type), Head(todo)>>)
            BY <4>3, <5>1 DEF ReadField
          <5>4. left = <<Skip(Head(wire).type), Head(todo)>>
            BY <1>3, <1>4, <3>1, <5>3, SkipsDiffer DEF Leaves
          <5>5. params' = params
            BY <4>3, <5>1, <5>2 DEF ReadField
          <5>6. QED
            BY <4>3, <5>3, <5>4, <5>5 DEF ReadField
        <4>4. CASE ReadStop("skipped")
          <5>1. Head(wire) = Stop /\ Take(<<>>)
            BY <4>4 DEF ReadStop
          <5>2. left = <<>>
            BY <1>4, <3>1, <5>1, LeavesIs
          <5>3. UNCHANGED <<step, result>>
            BY <4>4 DEF ReadStop
          <5>4. QED
            BY <4>4, <5>1, <5>2, <5>3 DEF ReadStop
        <4>5. QED
          BY <4>2, <4>3, <4>4
      <3>2. CASE type # "struct"
        <4>1. SkipItem(type)
          BY <1>3, <1>5, <3>2, WhichStep
        <4>2. left = CASE type = "map" -> PairReaders(Head(s))
                       [] type = "list" -> Copies(Head(s).size, Skip(Head(s).elem))
                       [] OTHER -> <<>>
          <5>1. CASE type = "map"
            BY <5>1, SkipsDiffer DEF Leaves
          <5>2. CASE type = "list"
            BY <5>2, SkipsDiffer DEF Leaves
          <5>3. CASE type = "string" \/ type = "i32"
            BY <5>3, SkipsDiffer DEF Leaves
          <5>4. QED
            BY <3>2, <5>1, <5>2, <5>3 DEF Types
        <4>3. QED
          BY <1>4, <4>1, <4>2 DEF SkipItem
      <3>3. QED
        BY <3>1, <3>2
    <2>3. todo' = (left \o Tail(t)) \o O
      <3>1. todo' = left \o (Tail(t) \o O)
        BY <1>3, <2>2 DEF Take
      <3> HIDE DEF left
      <3>2. (left \o Tail(t)) \o O = left \o (Tail(t) \o O)
        BY <1>3, <2>1, RegroupReaders
      <3>3. QED
        BY <3>1, <3>2
    <2>4. wire' = Tail(s) \o W
      BY <1>4, <2>2 DEF Take
    <2>5. Point(call, answer, O, W, params', names')
      BY <2>2
    <2>6. \E O1 \in Seq(Readers), W1 \in Seq(Items) : \E t1, s1 :
             /\ <<t1, s1>> \in Ways /\ todo' = t1 \o O1 /\ wire' = s1 \o W1
             /\ Point(call, answer, O1, W1, params', names')
      BY <2>1, <2>3, <2>4, <2>5, Zenon
    <2>7. QED
      BY <2>2, <2>6 DEF Goes
  <1>6. QED
    BY <1>3, <1>4, <1>5 DEF Sound

(* At a field nobody asked for, of owner o.                                *)
LEMMA FieldPoint ==
    ASSUME step = "reading",
           NEW o \in Owners, NEW R \in Seq(Readers), todo = <<Fields(o)>> \o R,
           NEW type \in Types, NEW id \in 0..13, NEW W \in Seq(Items),
           wire = FieldOf(<<type>>, id) \o W,
           Reader(o, Field(type, id)) = Skip(type),
           Point(call, answer, <<Fields(o)>> \o R, W, params, names)
    PROVE  Sound
  <1>1. Fields(o) \in Readers /\ Field(type, id) \in Items /\ Value(type) \in Seq(Items)
    BY ReadersAre, ItemsAre, ValuesAre
  <1>2. todo \in Seq(Readers) /\ todo # <<>> /\ Head(todo) = Fields(o) /\ Tail(todo) = R
    <2> HIDE DEF Readers
    <2>1. QED
      BY <1>1, FrontOf
  <1>3. wire = <<Field(type, id)>> \o (Value(type) \o W)
    <2>1. wire = (<<Field(type, id)>> \o Value(type)) \o W
      BY FieldOfIs
    <2>2. <<Field(type, id)>> \in Seq(Items)
      BY <1>1, TuplesAre
    <2>3. (<<Field(type, id)>> \o Value(type)) \o W = <<Field(type, id)>> \o (Value(type) \o W)
      BY <1>1, <2>2, RegroupItems
    <2>4. QED
      BY <2>1, <2>3
  <1>4. wire # <<>> /\ Head(wire) = Field(type, id) /\ Tail(wire) = Value(type) \o W
    <2> HIDE DEF Items
    <2>1. Value(type) \o W \in Seq(Items)
      BY <1>1
    <2>2. QED
      BY <1>1, <1>3, <2>1, FrontOf, ZenonT(60)
  <1>5. Head(wire).is = Head(todo).reads
    BY <1>2, <1>4 DEF Field, Fields
  <1>6. ASSUME DecodeStep
        PROVE  Goes
    <2>1. ReadField(o)
      <3>1. ReadField(o) \/ ReadStop(o)
        BY <1>2, <1>6, WhichStep
      <3>2. Head(wire) # Stop
        BY <1>4, ItemsAre
      <3>3. QED
        BY <3>1, <3>2 DEF ReadStop
    <2>2. wire' = Value(type) \o W /\ todo' = <<Skip(type), Fields(o)>> \o R
      BY <1>2, <1>4, <2>1 DEF ReadField, Take
    <2>3. todo' = <<Skip(type)>> \o (<<Fields(o)>> \o R)
      <3>1. <<Skip(type), Fields(o)>> = <<Skip(type)>> \o <<Fields(o)>>
        BY Joined
      <3>2. <<Skip(type)>> \in Seq(Readers) /\ <<Fields(o)>> \in Seq(Readers)
        BY <1>1, ReadersAre, TuplesAre
      <3> HIDE DEF Readers
      <3>3. QED
        BY <2>2, <3>1, <3>2, Regroup
    <2>4. params' = params
      <3>1. Skip(type) # Fields("table")
        <4>1. Skip(type).of = "skipped" /\ Fields("table").of = "table"
          BY DEF Skip, Fields
        <4>2. QED
          BY <4>1
      <3>2. QED
        BY <1>4, <2>1, <3>1 DEF ReadField
    <2>5. step' = "reading" /\ result' = result /\ names' = names
      BY <2>1 DEF ReadField
    <2>6. Point(call, answer, <<Fields(o)>> \o R, W, params', names')
      BY <2>4, <2>5
    <2>7. <<<<Skip(type)>>, Value(type)>> \in Ways
      BY WayOfValue
    <2>8. \E O1 \in Seq(Readers), W1 \in Seq(Items) : \E t1, s1 :
             /\ <<t1, s1>> \in Ways /\ todo' = t1 \o O1 /\ wire' = s1 \o W1
             /\ Point(call, answer, O1, W1, params', names')
      <3>1. <<Fields(o)>> \o R \in Seq(Readers)
        BY <1>2
      <3>2. QED
        BY <2>2, <2>3, <2>6, <2>7, <3>1, Zenon
    <2>9. QED
      BY <2>5, <2>8 DEF Goes
  <1>7. QED
    BY <1>2, <1>4, <1>5, <1>6 DEF Sound

(* The readers of fields.                                                  *)
LEMMA ReaderIs ==
    /\ Reader("get_table", Field("struct", 0)) = Fields("table")
    /\ Reader("get_table", Field("struct", 2)) = Fields("NoSuchObject")
    /\ \A c \in Calls : Reader(c, Field("struct", 1)) = Fields("MetaException")
    /\ Reader("get_all_tables", Field("list", 0)) = TheList
    /\ Reader("table", Field("map", 12)) = TheMap
  <1>1. \A type, id : Field(type, id).type = type /\ Field(type, id).id = id
    BY DEF Field
  <1>2. Reader("get_table", Field("struct", 0)) = Fields("table")
    BY <1>1 DEF Reader
  <1>3. Reader("get_table", Field("struct", 2)) = Fields("NoSuchObject")
    BY <1>1 DEF Reader
  <1>4. ASSUME NEW c \in Calls
        PROVE  Reader(c, Field("struct", 1)) = Fields("MetaException")
    BY <1>1 DEF Reader, Calls
  <1>5. Reader("get_all_tables", Field("list", 0)) = TheList
    BY <1>1 DEF Reader, Calls
  <1>6. Reader("table", Field("map", 12)) = TheMap
    BY <1>1 DEF Reader, Calls
  <1>7. QED
    BY <1>2, <1>3, <1>4, <1>5, <1>6

LEMMA OthersAreSkipped ==
    ASSUME NEW o \in Owners, NEW type \in Types, NEW id \in 0..13,
           \/ o \notin Calls \cup {"table"}
           \/ o \in Calls /\ id \notin {0, 1, 2}
           \/ o = "table" /\ (id # 12 \/ type # "map")
    PROVE  Reader(o, Field(type, id)) = Skip(type)
  <1>1. Field(type, id).type = type /\ Field(type, id).id = id
    BY DEF Field
  <1>2. QED
    BY <1>1 DEF Reader, Calls

(* The keys of some parameters, in the order the server sends them.        *)
LEMMA KeysAreFinite == IsFiniteSet(Keys)
  <1>1. LocationKeys \in Seq(Range(LocationKeys))
    BY HiveAssumption
  <1>2. /\ Len(LocationKeys) \in Nat /\ DOMAIN LocationKeys = 1..Len(LocationKeys)
        /\ LocationKeys \in [1..Len(LocationKeys) -> Range(LocationKeys)]
    BY <1>1
  <1>3. IsFiniteSet(1..Len(LocationKeys))
    BY <1>2, FS_Interval
  <1>4. LocationKeys \in Surjection(1..Len(LocationKeys), Range(LocationKeys))
    BY <1>2 DEF Surjection, Range
  <1>5. IsFiniteSet(Range(LocationKeys))
    BY <1>3, <1>4, FS_Surjection
  <1>6. QED
    BY <1>5, FS_AddElement DEF Keys

LEMMA ParamsAre ==
    ASSUME NEW p \in Params
    PROVE  /\ DOMAIN p \subseteq Keys /\ IsFiniteSet(DOMAIN p)
           /\ p = [x \in DOMAIN p |-> p[x]]
           /\ \A x \in DOMAIN p : p[x] \in Locations
  <1>1. CASE p \in UNION {[ks -> Locations] : ks \in (SUBSET Keys) \ {{}}}
    <2>1. PICK ks \in SUBSET Keys : p \in [ks -> Locations]
      BY <1>1
    <2>2. IsFiniteSet(ks)
      BY KeysAreFinite, FS_Subset
    <2>3. QED
      BY <2>1, <2>2
  <1>2. CASE p = NoParams
    <2>1. DOMAIN p = {} /\ p = [x \in DOMAIN p |-> p[x]]
      BY <1>2 DEF NoParams
    <2>2. QED
      BY <2>1, FS_EmptySet
  <1>3. QED
    BY <1>1, <1>2 DEF Params

LEMMA KeysOfAre ==
    ASSUME NEW p \in Params
    PROVE  /\ Len(KeysOf(p)) \in Nat /\ Len(KeysOf(p)) = Cardinality(DOMAIN p)
           /\ KeysOf(p) \in [1..Len(KeysOf(p)) -> DOMAIN p]
           /\ {KeysOf(p)[j] : j \in 1..Len(KeysOf(p))} = DOMAIN p
           /\ \A i, j \in 1..Len(KeysOf(p)) : KeysOf(p)[i] = KeysOf(p)[j] => i = j
  <1> DEFINE D == DOMAIN p
             n == Cardinality(D)
             f == KeysOf(p)
  <1>1. IsFiniteSet(D)
    BY ParamsAre
  <1>2. n \in Nat /\ ExistsBijection(1..n, D)
    BY <1>1, FS_CardinalityType
  <1>3. \E g \in [1..n -> D] : IsInjective(g)
    BY <1>2 DEF ExistsBijection, Bijection, Injection, IsInjective
  <1>4. f \in [1..n -> D] /\ IsInjective(f)
    BY <1>3 DEF KeysOf, SetToSeq
  <1>5. f \in Injection(1..n, D)
    BY <1>4 DEF Injection
  <1>6. Cardinality(1..n) = n
    <2>1. Cardinality(1..n) = IF 1 > n THEN 0 ELSE n - 1 + 1
      BY <1>2, FS_Interval
    <2>2. QED
      BY <1>2, <2>1
  <1>7. f \in Surjection(1..n, D)
    BY <1>1, <1>5, <1>6, FS_Injection
  <1>8. Len(f) = n
    BY <1>2, <1>4
  <1>9. {f[j] : j \in 1..n} = D
    BY <1>4, <1>7 DEF Surjection
  <1>10. \A i, j \in 1..n : f[i] = f[j] => i = j
    BY <1>4 DEF IsInjective
  <1>11. QED
    BY <1>2, <1>4, <1>8, <1>9, <1>10

LEMMA PairsAre ==
    ASSUME NEW p \in Params
    PROVE  /\ Pairs(p) \in Seq(Items) /\ Len(Pairs(p)) = 2 * Len(KeysOf(p))
           /\ \A i \in 1..Len(KeysOf(p)) :
                 /\ Pairs(p)[(2 * i) - 1] = Text(KeysOf(p)[i])
                 /\ Pairs(p)[2 * i] = Text(p[KeysOf(p)[i]])
  <1> DEFINE ks == KeysOf(p)
             n == Len(ks)
             At(i) == IF i % 2 = 1 THEN ks[(i + 1) \div 2] ELSE p[ks[i \div 2]]
  <1>1. n \in Nat /\ ks \in [1..n -> DOMAIN p]
    BY KeysOfAre
  <1>2. Pairs(p) = [i \in 1..(2 * n) |-> Text(At(i))]
    BY DEF Pairs, KeysOf
  <1>3. \A i \in 1..n : ks[i] \in Texts /\ p[ks[i]] \in Texts
    BY <1>1, ParamsAre DEF Texts
  <1>4. ASSUME NEW i \in 1..n
        PROVE  At((2 * i) - 1) = ks[i] /\ At(2 * i) = p[ks[i]]
    <2>1. ((2 * i) - 1) % 2 = 1 /\ (((2 * i) - 1) + 1) \div 2 = i
      BY <1>1
    <2>2. (2 * i) % 2 = 0 /\ (2 * i) \div 2 = i
      BY <1>1
    <2>3. QED
      BY <2>1, <2>2
  <1>5. \A j \in 1..(2 * n) : \E i \in 1..n : j = (2 * i) - 1 \/ j = 2 * i
    <2>1. SUFFICES ASSUME NEW j \in 1..(2 * n)
                   PROVE  \E i \in 1..n : j = (2 * i) - 1 \/ j = 2 * i
      OBVIOUS
    <2>2. (j + 1) \div 2 \in 1..n /\ (j = (2 * ((j + 1) \div 2)) - 1 \/ j = 2 * ((j + 1) \div 2))
      BY <1>1
    <2>3. QED
      BY <2>2
  <1> HIDE DEF n, ks, At
  <1>6. \A j \in 1..(2 * n) : At(j) \in Texts
    BY <1>3, <1>4, <1>5
  <1>7. \A j \in 1..(2 * n) : Text(At(j)) \in Items
    BY <1>6, ItemsAre
  <1>8. [j \in 1..(2 * n) |-> Text(At(j))] \in Seq(Items) /\ Len([j \in 1..(2 * n) |-> Text(At(j))]) = 2 * n
    <2> HIDE DEF Items
    <2>1. 2 * n \in Nat
      BY <1>1
    <2>2. QED
      BY <1>7, <2>1
  <1>9. \A i \in 1..n : (2 * i) - 1 \in 1..(2 * n) /\ 2 * i \in 1..(2 * n)
    BY <1>1
  <1>10. \A i \in 1..n : Pairs(p)[(2 * i) - 1] = Text(ks[i]) /\ Pairs(p)[2 * i] = Text(p[ks[i]])
    BY <1>2, <1>4, <1>9
  <1>11. QED
    BY <1>2, <1>8, <1>10 DEF n, ks

(* The first keys make up the parameters one by one.                       *)
LEMMA FirstOfAre ==
    ASSUME NEW p \in Params
    PROVE  /\ FirstOf(p, 0) = NoParams /\ FirstOf(p, Len(KeysOf(p))) = p
           /\ \A i \in 0..Len(KeysOf(p)) : FirstOf(p, i) \in Params
           /\ \A i \in 1..Len(KeysOf(p)) :
                 FirstOf(p, i) = [x \in DOMAIN FirstOf(p, i - 1) \cup {KeysOf(p)[i]} |->
                                    IF x = KeysOf(p)[i] THEN p[KeysOf(p)[i]] ELSE FirstOf(p, i - 1)[x]]
  <1> DEFINE ks == KeysOf(p)
             n == Len(ks)
             K(i) == {ks[j] : j \in 1..i}
  <1>1. n \in Nat /\ ks \in [1..n -> DOMAIN p] /\ K(n) = DOMAIN p
    BY KeysOfAre
  <1>2. \A i : FirstOf(p, i) = [x \in K(i) |-> p[x]]
    BY DEF FirstOf
  <1>3. DOMAIN p \subseteq Keys /\ p = [x \in DOMAIN p |-> p[x]] /\ \A x \in DOMAIN p : p[x] \in Locations
    BY ParamsAre
  <1>4. K(0) = {}
    OBVIOUS
  <1>5. FirstOf(p, 0) = NoParams
    <2>1. [x \in {} |-> p[x]] = <<>>
      OBVIOUS
    <2>2. QED
      BY <1>2, <1>4, <2>1 DEF NoParams
  <1>6. FirstOf(p, n) = p
    BY <1>1, <1>2, <1>3
  <1>7. ASSUME NEW i \in 0..n
        PROVE  FirstOf(p, i) \in Params
    <2>1. CASE i = 0
      BY <1>5, <2>1 DEF Params
    <2>2. CASE i # 0
      <3>1. K(i) \subseteq DOMAIN p
        BY <1>1
      <3>2. ks[1] \in K(i)
        BY <1>1, <2>2
      <3>3. K(i) \in (SUBSET Keys) \ {{}}
        BY <1>3, <3>1, <3>2
      <3> HIDE DEF K
      <3>4. FirstOf(p, i) \in [K(i) -> Locations]
        BY <1>2, <1>3, <3>1
      <3>5. QED
        BY <3>3, <3>4 DEF Params
    <2>3. QED
      BY <2>1, <2>2
  <1>8. ASSUME NEW i \in 1..n
        PROVE  FirstOf(p, i) = [x \in DOMAIN FirstOf(p, i - 1) \cup {ks[i]} |->
                                  IF x = ks[i] THEN p[ks[i]] ELSE FirstOf(p, i - 1)[x]]
    <2>1. K(i) = K(i - 1) \cup {ks[i]}
      <3>1. 1..i = 1..(i - 1) \cup {i}
        BY <1>1
      <3>2. QED
        BY <3>1
    <2> HIDE DEF K
    <2>2. DOMAIN FirstOf(p, i - 1) = K(i - 1) /\ \A x \in K(i - 1) : FirstOf(p, i - 1)[x] = p[x]
      BY <1>2
    <2> DEFINE F == FirstOf(p, i - 1)
               k == ks[i]
               D == K(i - 1)
    <2>3. DOMAIN F = D /\ \A x \in D : F[x] = p[x]
      BY <2>2
    <2>4. FirstOf(p, i) = [x \in D \cup {k} |-> p[x]]
      BY <1>2, <2>1
    <2> HIDE DEF F, k, D
    <2>5. [x \in D \cup {k} |-> p[x]] = [x \in DOMAIN F \cup {k} |-> IF x = k THEN p[k] ELSE F[x]]
      BY <2>3
    <2>6. FirstOf(p, i) = [x \in DOMAIN F \cup {k} |-> IF x = k THEN p[k] ELSE F[x]]
      BY <2>4, <2>5
    <2>7. QED
      BY <2>6 DEF F, k
  <1>9. QED
    BY <1>5, <1>6, <1>7, <1>8

LEMMA CopiesAre ==
    ASSUME NEW S, NEW r \in S, NEW n \in Nat
    PROVE  /\ Copies(n, r) \in Seq(S) /\ Len(Copies(n, r)) = n
           /\ n = 0 => Copies(n, r) = <<>>
           /\ n > 0 => Copies(n, r) # <<>> /\ Head(Copies(n, r)) = r /\ Tail(Copies(n, r)) = Copies(n - 1, r)
  <1>1. Copies(n, r) = [i \in 1..n |-> r]
    BY DEF Copies
  <1>2. Copies(n, r) \in Seq(S) /\ Len(Copies(n, r)) = n
    BY <1>1
  <1>3. n = 0 => Copies(n, r) = <<>>
    BY <1>2
  <1>4. ASSUME n > 0
        PROVE  Copies(n, r) # <<>> /\ Head(Copies(n, r)) = r /\ Tail(Copies(n, r)) = Copies(n - 1, r)
    <2>1. n - 1 \in Nat /\ Copies(n - 1, r) = [i \in 1..(n - 1) |-> r]
      BY <1>4 DEF Copies
    <2>2. QED
      BY <1>1, <1>2, <1>4, <2>1
  <1>5. QED
    BY <1>2, <1>3, <1>4

(* Taking the first item of a part.                                        *)
LEMMA PartGoesOn ==
    ASSUME NEW S, NEW s \in Seq(S), NEW n \in Nat, Len(s) = n, NEW i \in 1..n, NEW w \in Seq(S)
    PROVE  /\ SubSeq(s, i, n) \o w \in Seq(S) /\ SubSeq(s, i, n) \o w # <<>>
           /\ Head(SubSeq(s, i, n) \o w) = s[i]
           /\ Tail(SubSeq(s, i, n) \o w) = SubSeq(s, i + 1, n) \o w
           /\ SubSeq(s, i + 1, n) \o w \in Seq(S)
  <1> DEFINE a == SubSeq(s, i, n)
  <1>1. i \in 1..Len(s) /\ n \in i..Len(s) /\ s[i] \in S
    OBVIOUS
  <1>2. Head(a) = s[i] /\ Tail(a) = SubSeq(s, i + 1, n)
    BY <1>1, HeadTailOfSubSeq
  <1>3. a \in Seq(S) /\ Len(a) = n - i + 1 /\ a # <<>>
    <2>1. \A j \in i..n : s[j] \in S
      BY <1>1
    <2>2. a \in Seq(S) /\ Len(a) = IF i <= n THEN n - i + 1 ELSE 0
      BY <1>1, <2>1, SubSeqProperties
    <2> HIDE DEF a
    <2>3. a # <<>>
      <3>1. Len(a) > 0
        BY <1>1, <2>2
      <3>2. QED
        BY <3>1
    <2>4. QED
      BY <1>1, <2>2, <2>3
  <1>4. SubSeq(s, i + 1, n) \in Seq(S)
    <2>1. \A j \in (i + 1)..n : s[j] \in S
      BY <1>1
    <2>2. i + 1 \in Int /\ n \in Int
      BY <1>1
    <2>3. QED
      BY <2>1, <2>2, SubSeqProperties
  <1> HIDE DEF a
  <1>5. a \o w \in Seq(S) /\ a \o w # <<>> /\ Head(a \o w) = Head(a) /\ Tail(a \o w) = Tail(a) \o w
    BY <1>3, FrontOfBoth
  <1>6. SubSeq(s, i + 1, n) \o w \in Seq(S)
    BY <1>4
  <1>7. QED
    BY <1>2, <1>5, <1>6 DEF a

LEMMA PartIsLeft ==
    ASSUME NEW S, NEW s \in Seq(S), NEW n \in Nat, Len(s) = n, NEW i \in 1..n, NEW w \in Seq(S)
    PROVE  SubSeq(s, i, n) \o w # <<>>
  <1> DEFINE a == SubSeq(s, i, n)
  <1>1. \A j \in i..n : s[j] \in S
    OBVIOUS
  <1>2. a \in Seq(S) /\ Len(a) = IF i <= n THEN n - i + 1 ELSE 0
    BY <1>1, SubSeqProperties
  <1> HIDE DEF a
  <1>3. Len(a) > 0
    BY <1>2
  <1>4. a # <<>>
    BY <1>3
  <1>5. a \o w # <<>>
    BY <1>2, <1>4, FrontOfBoth
  <1>6. QED
    BY <1>5 DEF a

-----------------------------------------------------------------------------
(* The reply, item by item from the front.                                 *)

LEMMA NestItems ==
    /\ \A a, b, c, d \in Seq(Items) : ((a \o b) \o c) \o d = a \o (b \o (c \o d))
    /\ \A a, b, c, d, e \in Seq(Items) :
          (((a \o b) \o c) \o d) \o e = a \o (b \o (c \o (d \o e)))
    /\ \A a, b \in Seq(Items) : a \o b \in Seq(Items)
  <1> DEFINE S == Items
  <1> HIDE DEF S
  <1>1. ASSUME NEW a \in Seq(S), NEW b \in Seq(S), NEW c \in Seq(S), NEW d \in Seq(S)
        PROVE  ((a \o b) \o c) \o d = a \o (b \o (c \o d))
    <2>1. a \o b \in Seq(S) /\ c \o d \in Seq(S)
      OBVIOUS
    <2>2. ((a \o b) \o c) \o d = (a \o b) \o (c \o d)
      BY <2>1
    <2>3. (a \o b) \o (c \o d) = a \o (b \o (c \o d))
      BY <2>1, SMTT(40)
    <2>4. QED
      BY <2>2, <2>3
  <1>2. ASSUME NEW a \in Seq(S), NEW b \in Seq(S), NEW c \in Seq(S), NEW d \in Seq(S), NEW e \in Seq(S)
        PROVE  (((a \o b) \o c) \o d) \o e = a \o (b \o (c \o (d \o e)))
    <2>1. (a \o b) \o c \in Seq(S) /\ d \o e \in Seq(S)
      OBVIOUS
    <2>2. (((a \o b) \o c) \o d) \o e = ((a \o b) \o c) \o (d \o e)
      BY <2>1, SMTT(40)
    <2> DEFINE f == d \o e
    <2>3. f \in Seq(S)
      BY <2>1
    <2> HIDE DEF f
    <2> DEFINE g == a \o b
               h == c \o f
    <2>a. g \in Seq(S) /\ h \in Seq(S)
      BY <2>3
    <2>b. a \o (b \o h) = g \o h
      <3> HIDE DEF h
      <3>1. QED
        BY <2>a, SMTT(40)
    <2>c. (g \o c) \o f = g \o h
      <3> HIDE DEF g
      <3>1. QED
        BY <2>a, <2>3, SMTT(40)
    <2>4. ((a \o b) \o c) \o f = a \o (b \o (c \o f))
      BY <2>b, <2>c
    <2>5. ((a \o b) \o c) \o (d \o e) = a \o (b \o (c \o (d \o e)))
      BY <2>4 DEF f
    <2>6. QED
      BY <2>2, <2>5
  <1>3. \A a, b \in Seq(S) : a \o b \in Seq(S)
    OBVIOUS
  <1>4. QED
    BY <1>1, <1>2, <1>3 DEF S

LEMMA StopsAre ==
    /\ <<Stop>> \in Seq(Items) /\ <<Stop, Stop>> \in Seq(Items)
    /\ <<Stop>> \o <<Stop>> = <<Stop, Stop>>
    /\ \A i \in Items : <<i>> \in Seq(Items)
  <1>1. Stop \in Items
    BY ItemsAre
  <1>2. QED
    BY <1>1, TuplesAre, Joined

LEMMA ExceptionPartsAre ==
    ASSUME NEW c \in Calls, NEW a \in Answers(c)
    PROVE  {ExceptionAll(a), ExceptionMid(a), ExceptionAfter(a)} \subseteq Seq(Items)
  <1>1. a.before \in Optional /\ a.after \in Optional
    BY AnswerIs
  <1>2. 3 \in 0..13 /\ 4 \in 0..13 /\ 1 \in 0..13
    OBVIOUS
  <1>3. FieldOf(a.before, 3) \in Seq(Items) /\ FieldOf(a.after, 4) \in Seq(Items)
    BY <1>1, <1>2, OptionalFieldIs
  <1>4. FieldOf(<<"string">>, 1) \in Seq(Items)
    BY <1>2, FieldOfIs, TypesAre
  <1>5. ExceptionAfter(a) \in Seq(Items)
    BY <1>3, NestItems, StopsAre DEF ExceptionAfter
  <1>6. ExceptionMid(a) \in Seq(Items)
    BY <1>4, <1>5, NestItems DEF ExceptionMid
  <1>7. ExceptionAll(a) \in Seq(Items)
    BY <1>3, <1>6, NestItems DEF ExceptionAll
  <1>8. QED
    BY <1>5, <1>6, <1>7

LEMMA TablePartsAre ==
    ASSUME NEW a \in Answers("get_table"), a.body = "success"
    PROVE  /\ {TableAll(a), TableMid(a), TableAfter(a), Column12(a)} \subseteq Seq(Items)
           /\ a.of.type = "params" =>
                 /\ a.of.value \in Params
                 /\ MapOf("string", "string", Len(KeysOf(a.of.value))) \in Items
                 /\ Pairs(a.of.value) \in Seq(Items)
  <1>0. "get_table" \in Calls
    BY DEF Calls
  <1>1. /\ a.before \in Optional /\ a.after \in Optional
        /\ a.of.type \in {"none", "list", "foreign"} \/ (a.of.type = "params" /\ a.of.value \in Params)
    BY <1>0, AnswerIs
  <1>2. 7 \in 0..13 /\ 12 \in 0..13 /\ 13 \in 0..13
    OBVIOUS
  <1>3. FieldOf(a.before, 7) \in Seq(Items) /\ FieldOf(a.after, 13) \in Seq(Items)
    BY <1>1, <1>2, OptionalFieldIs
  <1>4. ASSUME a.of.type = "params"
        PROVE  /\ a.of.value \in Params
               /\ MapOf("string", "string", Len(KeysOf(a.of.value))) \in Items
               /\ Pairs(a.of.value) \in Seq(Items)
    <2>1. a.of.value \in Params
      BY <1>1, <1>4
    <2>2. Len(KeysOf(a.of.value)) \in Nat
      BY <2>1, KeysOfAre
    <2>3. QED
      BY <2>1, <2>2, ItemsAre, TypesAre, PairsAre
  <1>5. Column12(a) \in Seq(Items)
    <2>1. CASE a.of.type = "none"
      BY <2>1, TuplesAre DEF Column12
    <2>2. CASE a.of.type = "list"
      BY <1>2, <2>2, FieldOfIs, TypesAre DEF Column12
    <2>3. CASE a.of.type = "foreign"
      BY <1>2, <2>3, FieldOfIs, TypesAre DEF Column12
    <2>4. CASE a.of.type = "params"
      <3>1. Cardinality(DOMAIN a.of.value) = Len(KeysOf(a.of.value))
        BY <1>4, <2>4, KeysOfAre
      <3>2. <<Field("map", 12), MapOf("string", "string", Cardinality(DOMAIN a.of.value))>> \in Seq(Items)
        <4>1. Field("map", 12) \in Items
          BY <1>2, ItemsAre, TypesAre
        <4>2. MapOf("string", "string", Cardinality(DOMAIN a.of.value)) \in Items
          BY <1>4, <2>4, <3>1
        <4>3. QED
          BY <4>1, <4>2, TuplesAre, Zenon
      <3>3. Column12(a) = <<Field("map", 12), MapOf("string", "string", Cardinality(DOMAIN a.of.value))>>
                            \o Pairs(a.of.value)
        BY <2>4 DEF Column12
      <3>4. QED
        BY <1>4, <2>4, <3>2, <3>3, NestItems
    <2>5. QED
      BY <1>1, <2>1, <2>2, <2>3, <2>4
  <1>6. TableAfter(a) \in Seq(Items)
    BY <1>3, NestItems, StopsAre DEF TableAfter
  <1>7. TableMid(a) \in Seq(Items)
    BY <1>5, <1>6, NestItems DEF TableMid
  <1>8. TableAll(a) \in Seq(Items)
    BY <1>3, <1>7, NestItems DEF TableAll
  <1>9. QED
    BY <1>4, <1>5, <1>6, <1>7, <1>8

LEMMA SpeltAre ==
    ASSUME NEW ns \in HiveTables
    PROVE  /\ ns \in Seq(Range(ns)) /\ Len(ns) \in Nat /\ DOMAIN ns = 1..Len(ns)
           /\ Spelt(ns) \in Seq(Items) /\ Len(Spelt(ns)) = Len(ns)
           /\ \A i \in 1..Len(ns) : Spelt(ns)[i] = Text(ns[i])
  <1>1. ns \in Seq(Range(ns)) /\ Len(ns) \in Nat /\ DOMAIN ns = 1..Len(ns)
    <2>1. ns \in Seq(Range(ns))
      BY HiveAssumption
    <2>2. QED
      BY <2>1
  <1>2. Spelt(ns) = [i \in 1..Len(ns) |-> Text(ns[i])]
    BY <1>1 DEF Spelt
  <1>3. \A i \in 1..Len(ns) : ns[i] \in Texts
    <2>1. \A i \in 1..Len(ns) : ns[i] \in Range(ns)
      BY <1>1 DEF Range
    <2>2. Range(ns) \subseteq UNION {Range(ms) : ms \in HiveTables}
      OBVIOUS
    <2>3. QED
      BY <2>1, <2>2 DEF Texts
  <1>4. \A i \in 1..Len(ns) : Text(ns[i]) \in Items
    BY <1>3, ItemsAre
  <1> DEFINE n == Len(ns)
  <1>5. [i \in 1..n |-> Text(ns[i])] \in Seq(Items) /\ Len([i \in 1..n |-> Text(ns[i])]) = n
    <2>1. n \in Nat /\ \A i \in 1..n : Text(ns[i]) \in Items
      BY <1>1, <1>4
    <2> HIDE DEF Items, n
    <2>2. QED
      BY <2>1
  <1>6. QED
    BY <1>1, <1>2, <1>5

LEMMA ListPartsAre ==
    ASSUME NEW a \in Answers("get_all_tables"), a.body = "success"
    PROVE  {ListAll(a), ListMid(a), ListAfter(a), ListItems(a)} \subseteq Seq(Items)
  <1>0. "get_all_tables" \in Calls /\ "get_all_tables" # "get_table"
    BY DEF Calls
  <1>1. /\ a.before \in Optional /\ a.after \in Optional
        /\ (a.of.type = "names" /\ a.of.value \in HiveTables) \/ a.of.type = "foreign"
    BY <1>0, AnswerIs
  <1>2. 5 \in 0..13 /\ 6 \in 0..13 /\ 0 \in 0..13 /\ 1 \in 0..13 /\ 1 \in Nat
    OBVIOUS
  <1>3. FieldOf(a.before, 5) \in Seq(Items) /\ FieldOf(a.after, 6) \in Seq(Items)
    BY <1>1, <1>2, OptionalFieldIs
  <1>4. ListItems(a) \in Seq(Items)
    <2>1. CASE a.of.type = "foreign"
      <3>1. ListItems(a) = <<ListOf("struct", 1)>> \o <<Field("i32", 1), Number, Stop>>
        BY <2>1 DEF ListItems
      <3>2. ListOf("struct", 1) \in Items /\ Field("i32", 1) \in Items
        BY <1>2, ItemsAre, TypesAre
      <3>3. Number \in Items /\ Stop \in Items
        BY ItemsAre
      <3>4. <<ListOf("struct", 1)>> \in Seq(Items) /\ <<Field("i32", 1), Number, Stop>> \in Seq(Items)
        BY <3>2, <3>3, TuplesAre, Zenon
      <3>5. QED
        BY <3>1, <3>4, NestItems
    <2>2. CASE a.of.type # "foreign"
      <3>1. a.of.value \in HiveTables
        BY <1>1, <2>2
      <3>2. ListItems(a) = <<ListOf("string", Len(a.of.value))>> \o Spelt(a.of.value)
        BY <2>2 DEF ListItems, Spelt
      <3>3. Len(a.of.value) \in Nat /\ Spelt(a.of.value) \in Seq(Items)
        BY <3>1, SpeltAre
      <3>4. <<ListOf("string", Len(a.of.value))>> \in Seq(Items)
        BY <3>3, ItemsAre, TypesAre, StopsAre
      <3>5. QED
        BY <3>2, <3>3, <3>4, NestItems
    <2>3. QED
      BY <2>1, <2>2
  <1>5. ListAfter(a) \in Seq(Items)
    BY <1>3, NestItems, StopsAre DEF ListAfter
  <1>6. <<Field("list", 0)>> \in Seq(Items)
    BY <1>2, ItemsAre, TypesAre, StopsAre
  <1>7. ListMid(a) \in Seq(Items)
    BY <1>4, <1>5, <1>6, NestItems DEF ListMid
  <1>8. ListAll(a) \in Seq(Items)
    BY <1>3, <1>7, NestItems DEF ListAll
  <1>9. QED
    BY <1>4, <1>5, <1>7, <1>8

(* The two equations by name, to cite them for given items.                *)
Nests(a, b, c, d) == ((a \o b) \o c) \o d = a \o (b \o (c \o d))
NestsOfFive(a, b, c, d, e) == (((a \o b) \o c) \o d) \o e = a \o (b \o (c \o (d \o e)))

LEMMA Nested ==
    /\ \A a, b, c, d \in Seq(Items) : Nests(a, b, c, d)
    /\ \A a, b, c, d, e \in Seq(Items) : NestsOfFive(a, b, c, d, e)
  BY NestItems DEF Nests, NestsOfFive

LEMMA StructIs ==
    ASSUME NEW F \in Seq(Items), NEW id \in 0..13
    PROVE  Struct(id, F) \o <<Stop>> = <<Field("struct", id)>> \o (F \o <<Stop, Stop>>)
  <1>1. <<Field("struct", id)>> \in Seq(Items)
    BY ItemsAre, TypesAre, StopsAre
  <1>2. Struct(id, F) \o <<Stop>> = ((<<Field("struct", id)>> \o F) \o <<Stop>>) \o <<Stop>>
    BY DEF Struct
  <1>3. ((<<Field("struct", id)>> \o F) \o <<Stop>>) \o <<Stop>>
          = <<Field("struct", id)>> \o (F \o (<<Stop>> \o <<Stop>>))
    BY <1>1, NestItems, StopsAre
  <1>4. QED
    BY <1>2, <1>3, StopsAre

LEMMA ExceptionIs ==
    ASSUME NEW c \in Calls, NEW a \in Answers(c)
    PROVE  ExceptionItems(a) \in Seq(Items) /\ ExceptionItems(a) \o <<Stop, Stop>> = ExceptionAll(a)
  <1> DEFINE A == FieldOf(a.before, 3)
             B == FieldOf(<<"string">>, 1)
             C == FieldOf(a.after, 4)
             E == <<Stop, Stop>>
  <1>1. 3 \in 0..13 /\ 4 \in 0..13 /\ 1 \in 0..13
    OBVIOUS
  <1>2. A \in Seq(Items) /\ B \in Seq(Items) /\ C \in Seq(Items) /\ E \in Seq(Items)
    BY <1>1, AnswerIs, OptionalFieldIs, FieldOfIs, TypesAre, StopsAre
  <1>3. B = <<Field("string", 1), Text("")>>
    <2>1. B = <<Field("string", 1)>> \o <<Text("")>>
      BY <1>1, FieldOfIs, TypesAre, ValueIs
    <2>2. QED
      BY <2>1, Joined
  <1>4. ExceptionItems(a) = (A \o B) \o C
    BY <1>3 DEF ExceptionItems
  <1>5. ExceptionAll(a) = A \o (B \o (C \o E))
    BY DEF ExceptionAll, ExceptionMid, ExceptionAfter
  <1> HIDE DEF A, B, C, E
  <1>6. Nests(A, B, C, E)
    BY <1>2, Nested
  <1>7. (A \o B) \o C \in Seq(Items)
    <2>1. A \o B \in Seq(Items)
      BY <1>2, NestItems
    <2>2. QED
      BY <1>2, <2>1, NestItems
  <1>8. ExceptionItems(a) \in Seq(Items)
    BY <1>4, <1>7
  <1>9. ExceptionItems(a) \o E = ExceptionAll(a)
    BY <1>4, <1>5, <1>6 DEF Nests
  <1>10. QED
    BY <1>8, <1>9, Zenon DEF E

LEMMA TableIs ==
    ASSUME NEW a \in Answers("get_table"), a.body = "success"
    PROVE  TableItems(a) \in Seq(Items) /\ TableItems(a) \o <<Stop, Stop>> = TableAll(a)
  <1> DEFINE A == FieldOf(a.before, 7)
             B == Column12(a)
             C == FieldOf(a.after, 13)
             E == <<Stop, Stop>>
  <1>1. 7 \in 0..13 /\ 13 \in 0..13 /\ "get_table" \in Calls
    BY DEF Calls
  <1>2. A \in Seq(Items) /\ B \in Seq(Items) /\ C \in Seq(Items) /\ E \in Seq(Items)
    <2>1. A \in Seq(Items) /\ C \in Seq(Items)
      <3>1. a.before \in Optional /\ a.after \in Optional
        BY <1>1, AnswerIs
      <3>2. QED
        BY <1>1, <3>1, OptionalFieldIs
    <2>2. B \in Seq(Items)
      BY TablePartsAre
    <2>3. QED
      BY <2>1, <2>2, StopsAre
  <1>3. TableItems(a) = (A \o B) \o C
    BY DEF TableItems, Column12
  <1>4. TableAll(a) = A \o (B \o (C \o E))
    BY DEF TableAll, TableMid, TableAfter
  <1> HIDE DEF A, B, C, E
  <1>5. Nests(A, B, C, E)
    BY <1>2, Nested
  <1>6. (A \o B) \o C \in Seq(Items)
    <2>1. A \o B \in Seq(Items)
      BY <1>2, NestItems
    <2>2. QED
      BY <1>2, <2>1, NestItems
  <1>7. TableItems(a) \in Seq(Items)
    BY <1>3, <1>6
  <1>8. TableItems(a) \o E = TableAll(a)
    BY <1>3, <1>4, <1>5 DEF Nests
  <1>9. QED
    BY <1>7, <1>8, Zenon DEF E

LEMMA ResultIs ==
    ASSUME NEW c \in Calls, NEW a \in Answers(c), a.body \notin {"exception", "misnamed"}
    PROVE  /\ ResultItems(c, a) \in Seq(Items)
           /\ a.body = "empty" => ResultItems(c, a) = <<Stop>>
           /\ a.body = "MetaException" => ResultItems(c, a) = <<Field("struct", 1)>> \o ExceptionAll(a)
           /\ a.body = "NoSuchObject" => ResultItems(c, a) = <<Field("struct", 2)>> \o ExceptionAll(a)
           /\ a.body = "success" /\ c = "get_table" =>
                 ResultItems(c, a) = <<Field("struct", 0)>> \o TableAll(a)
           /\ a.body = "success" /\ c = "get_all_tables" => ResultItems(c, a) = ListAll(a)
  <1>1. 0 \in 0..13 /\ 1 \in 0..13 /\ 2 \in 0..13 /\ 5 \in 0..13 /\ 6 \in 0..13
    OBVIOUS
  <1>2. \A id \in 0..13 : <<Field("struct", id)>> \in Seq(Items)
    BY ItemsAre, TypesAre, StopsAre
  <1>3. CASE a.body = "empty"
    <2>1. ResultItems(c, a) = <<>> \o <<Stop>>
      BY <1>3 DEF ResultItems
    <2>2. ResultItems(c, a) = <<Stop>>
      BY <2>1, Joined
    <2>3. QED
      BY <1>3, <2>2, StopsAre
  <1>4. CASE a.body = "MetaException"
    <2>1. ResultItems(c, a) = Struct(1, ExceptionItems(a)) \o <<Stop>>
      BY <1>4 DEF ResultItems
    <2>2. ResultItems(c, a) = <<Field("struct", 1)>> \o ExceptionAll(a)
      BY <1>1, <2>1, StructIs, ExceptionIs
    <2>3. ExceptionAll(a) \in Seq(Items)
      BY ExceptionPartsAre
    <2>4. QED
      BY <1>1, <1>2, <1>4, <2>2, <2>3, NestItems
  <1>5. CASE a.body = "NoSuchObject"
    <2>1. ResultItems(c, a) = Struct(2, ExceptionItems(a)) \o <<Stop>>
      BY <1>5 DEF ResultItems
    <2>2. ResultItems(c, a) = <<Field("struct", 2)>> \o ExceptionAll(a)
      BY <1>1, <2>1, StructIs, ExceptionIs
    <2>3. ExceptionAll(a) \in Seq(Items)
      BY ExceptionPartsAre
    <2>4. QED
      BY <1>1, <1>2, <1>5, <2>2, <2>3, NestItems
  <1>6. CASE a.body = "success" /\ c = "get_table"
    <2>1. ResultItems(c, a) = Struct(0, TableItems(a)) \o <<Stop>>
      BY <1>6 DEF ResultItems
    <2>2. ResultItems(c, a) = <<Field("struct", 0)>> \o TableAll(a)
      BY <1>1, <1>6, <2>1, StructIs, TableIs
    <2>3. TableAll(a) \in Seq(Items)
      BY <1>6, TablePartsAre
    <2>4. ResultItems(c, a) \in Seq(Items)
      BY <1>1, <1>2, <2>2, <2>3, NestItems
    <2>5. QED
      BY <1>6, <2>2, <2>4
  <1>7. CASE a.body = "success" /\ c = "get_all_tables"
    <2> DEFINE A == FieldOf(a.before, 5)
               B == <<Field("list", 0)>>
               C == ListItems(a)
               D == FieldOf(a.after, 6)
               E == <<Stop>>
    <2>1. ResultItems(c, a) = (((A \o B) \o C) \o D) \o E
      BY <1>7 DEF ResultItems
    <2>2. ListAll(a) = A \o (B \o (C \o (D \o E)))
      BY DEF ListAll, ListMid, ListAfter
    <2>3. A \in Seq(Items) /\ D \in Seq(Items)
      BY <1>1, AnswerIs, OptionalFieldIs
    <2>4. B \in Seq(Items) /\ E \in Seq(Items)
      BY <1>1, ItemsAre, TypesAre, StopsAre
    <2>5. C \in Seq(Items) /\ ListAll(a) \in Seq(Items)
      BY <1>7, ListPartsAre
    <2> HIDE DEF A, B, C, D, E
    <2>6. NestsOfFive(A, B, C, D, E)
      BY <2>3, <2>4, <2>5, Nested
    <2>7. QED
      BY <1>7, <2>1, <2>2, <2>5, <2>6 DEF NestsOfFive
  <1>8. QED
    BY <1>3, <1>4, <1>5, <1>6, <1>7, AnswerIs DEF Calls


-----------------------------------------------------------------------------
(* Every point is sound, from the end of the reply to its beginning.       *)

LEMMA InFront ==
    ASSUME NEW r \in Readers, NEW R \in Seq(Readers), todo = <<r>> \o R,
           NEW i \in Items, NEW W \in Seq(Items), wire = <<i>> \o W
    PROVE  /\ todo # <<>> /\ Head(todo) = r /\ Tail(todo) = R
           /\ wire # <<>> /\ Head(wire) = i /\ Tail(wire) = W
  <1> DEFINE S == Readers
             T == Items
  <1>1. r \in S /\ R \in Seq(S) /\ i \in T /\ W \in Seq(T)
    OBVIOUS
  <1> HIDE DEF S, T
  <1>2. todo # <<>> /\ Head(todo) = r /\ Tail(todo) = R
    BY <1>1, FrontOf
  <1>3. wire # <<>> /\ Head(wire) = i /\ Tail(wire) = W
    BY <1>1, FrontOf
  <1>4. QED
    BY <1>2, <1>3

(* At the field that owner o asks for.                                     *)
LEMMA OpenField ==
    ASSUME step = "reading",
           NEW o \in Owners, NEW R \in Seq(Readers), todo = <<Fields(o)>> \o R,
           NEW type \in Types, NEW id \in 0..13, NEW W \in Seq(Items),
           wire = <<Field(type, id)>> \o W,
           NEW r \in Readers, Reader(o, Field(type, id)) = r,
           Point(call, answer, <<r>> \o (<<Fields(o)>> \o R), W,
                 IF r = Fields("table") THEN NoParams ELSE params, names)
    PROVE  Sound
  <1>1. Fields(o) \in Readers /\ Field(type, id) \in Items /\ Field(type, id) # Stop
    BY ReadersAre, ItemsAre
  <1>2. /\ todo # <<>> /\ Head(todo) = Fields(o) /\ Tail(todo) = R
        /\ wire # <<>> /\ Head(wire) = Field(type, id) /\ Tail(wire) = W
    BY <1>1, InFront
  <1>3. Head(wire).is = Head(todo).reads
    BY <1>2 DEF Field, Fields
  <1>4. ASSUME DecodeStep
        PROVE  Goes
    <2>1. ReadField(o)
      <3>1. ReadField(o) \/ ReadStop(o)
        BY <1>2, <1>4, WhichStep
      <3>2. QED
        BY <1>1, <1>2, <3>1 DEF ReadStop
    <2>2. wire' = W /\ todo' = <<r, Fields(o)>> \o R
      BY <1>2, <2>1 DEF ReadField, Take
    <2>3. todo' = <<r>> \o (<<Fields(o)>> \o R)
      <3>1. <<r, Fields(o)>> = <<r>> \o <<Fields(o)>>
        BY Joined
      <3>2. <<r>> \in Seq(Readers) /\ <<Fields(o)>> \in Seq(Readers)
        BY <1>1, TuplesAre
      <3>3. QED
        BY <2>2, <3>1, <3>2, RegroupReaders
    <2>4. params' = IF r = Fields("table") THEN NoParams ELSE params
      BY <1>2, <2>1 DEF ReadField
    <2>5. step' = "reading" /\ result' = result /\ names' = names
      BY <2>1 DEF ReadField
    <2>6. <<r>> \o (<<Fields(o)>> \o R) \in Seq(Readers)
      <3> DEFINE S == Readers
      <3>1. r \in S /\ Fields(o) \in S /\ R \in Seq(S)
        BY <1>1
      <3> HIDE DEF S
      <3>2. <<r>> \o (<<Fields(o)>> \o R) \in Seq(S)
        BY <3>1
      <3>3. QED
        BY <3>2 DEF S
    <2>7. Point(call, answer, <<r>> \o (<<Fields(o)>> \o R), W, params', names')
      BY <2>4, <2>5
    <2>8. QED
      BY <2>2, <2>3, <2>5, <2>6, <2>7, GoesTo
  <1>5. QED
    BY <1>2, <1>3, <1>4 DEF Sound

(* Where there may be a field that nobody asked for.                       *)
LEMMA OptionalField ==
    ASSUME step = "reading",
           NEW o \in Owners, NEW R \in Seq(Readers), todo = <<Fields(o)>> \o R,
           NEW f \in Optional, NEW id \in 0..13, NEW W \in Seq(Items),
           wire = FieldOf(f, id) \o W,
           \A type \in Types : Reader(o, Field(type, id)) = Skip(type),
           Point(call, answer, <<Fields(o)>> \o R, W, params, names),
           wire = W => Sound
    PROVE  Sound
  <1>1. CASE f = <<>>
    <2>1. FieldOf(f, id) = <<>>
      BY <1>1 DEF FieldOf
    <2> DEFINE S == Items
    <2>2. W \in Seq(S)
      OBVIOUS
    <2> HIDE DEF S
    <2>3. <<>> \o W = W
      BY <2>2
    <2>4. QED
      BY <2>1, <2>3
  <1>2. ASSUME NEW type \in Types, f = <<type>>
        PROVE  Sound
    BY <1>2, FieldPoint
  <1>3. QED
    BY <1>1, <1>2 DEF Optional

(* The last item: the call returns what the server meant.                  *)
LEMMA NothingGiven == Entry(NoParams) = Error
  <1>1. DOMAIN NoParams = {}
    BY DEF NoParams
  <1>2. Location(NoParams) = ""
    BY <1>1 DEF Location
  <1>3. QED
    BY <1>2 DEF Entry

LEMMA LastStop ==
    ASSUME step = "reading", call \in Calls, answer \in Answers(call),
           answer.body \in {"success", "empty"}, todo = <<Fields(call)>>, wire = <<Stop>>,
           call = "get_table" => params = answer.of.value,
           call = "get_all_tables" => names = answer.of.value
    PROVE  Sound
  <1>1. /\ todo # <<>> /\ Head(todo) = Fields(call)
        /\ wire # <<>> /\ Head(wire) = Stop
    BY Taken1
  <1>2. Head(wire).is = Head(todo).reads
    BY <1>1 DEF Stop, Field, Fields
  <1>3. ASSUME DecodeStep
        PROVE  Goes
    <2>1. ReadStop(call)
      <3>1. ReadField(call) \/ ReadStop(call)
        BY <1>1, <1>3, WhichStep, OwnersAre
      <3>2. QED
        BY <1>1, <3>1 DEF ReadField
    <2>2. CASE call = "get_table"
      <3>1. Return(Entry(params))
        BY <2>1, <2>2 DEF ReadStop
      <3>2. Entry(params) = Meaning
        <4>1. CASE answer.body = "success"
          BY <2>2, <4>1 DEF Meaning
        <4>2. CASE answer.body = "empty"
          <5>1. params = NoParams
            BY <2>2, <4>2, AnswerIs DEF NoValue
          <5>2. Meaning = Error
            BY <2>2, <4>2 DEF Meaning
          <5>3. QED
            BY <5>1, <5>2, NothingGiven
        <4>3. QED
          BY <4>1, <4>2
      <3>3. QED
        BY <3>1, <3>2 DEF Return, Goes
    <2>3. CASE call = "get_all_tables"
      <3>1. Return(Listing(names))
        BY <2>1, <2>3 DEF ReadStop
      <3>2. Listing(names) = Meaning
        BY <2>3 DEF Meaning
      <3>3. QED
        BY <3>1, <3>2 DEF Return, Goes
    <2>4. QED
      BY <2>2, <2>3 DEF Calls
  <1>4. QED
    BY <1>1, <1>2, <1>3 DEF Sound

(* An exception.                                                           *)
LEMMA ExceptionEnds ==
    ASSUME step = "reading", call \in Calls, answer \in Answers(call),
           answer.body \in {"MetaException", "NoSuchObject"},
           todo = <<Fields(answer.body)>> \o <<Fields(call)>>, wire = <<Stop, Stop>>
    PROVE  Sound
  <1>1. answer.body \in Owners /\ Fields(answer.body) \in Readers /\ Fields(call) \in Readers
    BY OwnersAre, ReadersAre
  <1>2. /\ todo # <<>> /\ Head(todo) = Fields(answer.body)
        /\ wire # <<>> /\ Head(wire) = Stop
    BY Taken2, Joined
  <1>3. Head(wire).is = Head(todo).reads
    BY <1>2 DEF Stop, Field, Fields
  <1>4. ASSUME DecodeStep
        PROVE  Goes
    <2>1. ReadStop(answer.body)
      <3>1. ReadField(answer.body) \/ ReadStop(answer.body)
        BY <1>1, <1>2, <1>4, WhichStep
      <3>2. QED
        BY <1>2, <3>1 DEF ReadField
    <2>2. CASE answer.body = "MetaException"
      <3>1. Return(Error)
        BY <2>1, <2>2 DEF ReadStop
      <3>2. Meaning = Error
        BY <2>2 DEF Meaning
      <3>3. QED
        BY <3>1, <3>2 DEF Return, Goes
    <2>3. CASE answer.body = "NoSuchObject"
      <3>1. Return(NotFound)
        BY <2>1, <2>3 DEF ReadStop
      <3>2. Meaning = NotFound
        BY <2>3 DEF Meaning
      <3>3. QED
        BY <3>1, <3>2 DEF Return, Goes
    <2>4. QED
      BY <2>2, <2>3
  <1>5. QED
    BY <1>2, <1>3, <1>4 DEF Sound

LEMMA ExceptionPoints ==
    ASSUME step = "reading", call \in Calls, answer \in Answers(call),
           answer.body \in {"MetaException", "NoSuchObject"},
           todo = <<Fields(answer.body)>> \o <<Fields(call)>>, params = NoParams
    PROVE  /\ wire = ExceptionAfter(answer) => Sound
           /\ wire = ExceptionMid(answer) => Sound
           /\ wire = ExceptionAll(answer) => Sound
  <1> DEFINE o == answer.body
             R == <<Fields(call)>>
  <1>1. o \in Owners /\ o \notin Calls \cup {"table"} /\ R \in Seq(Readers)
    <2>1. R \in Seq(Readers)
      BY OwnersAre, ReadersAre, TuplesAre
    <2>2. QED
      BY <2>1, OwnersAre DEF Calls
  <1>2. answer.before \in Optional /\ answer.after \in Optional
    BY AnswerIs
  <1>3. \A type \in Types, id \in 0..13 : Reader(o, Field(type, id)) = Skip(type)
    BY <1>1, OthersAreSkipped
  <1>4. 1 \in 0..13 /\ 3 \in 0..13 /\ 4 \in 0..13
    OBVIOUS
  <1>5. \A W \in {ExceptionAll(answer), ExceptionMid(answer), ExceptionAfter(answer), <<Stop, Stop>>} :
           Point(call, answer, <<Fields(o)>> \o R, W, params, names) /\ W \in Seq(Items)
    <2>1. <<Fields(o)>> \o R = <<Fields(o), Fields(call)>>
      BY Joined
    <2>2. \A W \in {ExceptionAll(answer), ExceptionMid(answer), ExceptionAfter(answer), <<Stop, Stop>>} :
             Point(call, answer, <<Fields(o), Fields(call)>>, W, params, names)
      BY DEF Point
    <2>3. \A W \in {ExceptionAll(answer), ExceptionMid(answer), ExceptionAfter(answer), <<Stop, Stop>>} : W \in Seq(Items)
      BY ExceptionPartsAre, StopsAre
    <2>4. QED
      BY <2>1, <2>2, <2>3
  <1>6. ASSUME wire = ExceptionAfter(answer)
        PROVE  Sound
    <2>1. wire = FieldOf(answer.after, 4) \o <<Stop, Stop>>
      BY <1>6 DEF ExceptionAfter
    <2>2. wire = <<Stop, Stop>> => Sound
      BY ExceptionEnds
    <2> HIDE DEF o, R
    <2>3. todo = <<Fields(o)>> \o R
      BY DEF o, R
    <2>4. QED
      BY <1>1, <1>2, <1>3, <1>4, <1>5, <2>1, <2>2, <2>3, OptionalField
  <1>7. ASSUME wire = ExceptionMid(answer)
        PROVE  Sound
    <2>1. wire = FieldOf(<<"string">>, 1) \o ExceptionAfter(answer)
      BY <1>7 DEF ExceptionMid
    <2> HIDE DEF o, R
    <2>2. todo = <<Fields(o)>> \o R
      BY DEF o, R
    <2>3. QED
      BY <1>1, <1>3, <1>4, <1>5, <2>1, <2>2, FieldPoint, TypesAre
  <1>8. ASSUME wire = ExceptionAll(answer)
        PROVE  Sound
    <2>1. wire = FieldOf(answer.before, 3) \o ExceptionMid(answer)
      BY <1>8 DEF ExceptionAll
    <2> HIDE DEF o, R
    <2>2. todo = <<Fields(o)>> \o R
      BY DEF o, R
    <2>3. QED
      BY <1>1, <1>2, <1>3, <1>4, <1>5, <1>7, <2>1, <2>2, OptionalField
  <1>9. QED
    BY <1>6, <1>7, <1>8


(* A table.                                                                *)
LEMMA InTableIs ==
    ASSUME NEW c \in Calls
    PROVE  /\ InTable(c) = <<Fields("table")>> \o <<Fields(c)>>
           /\ InTable(c) \in Seq(Readers) /\ <<Fields(c)>> \in Seq(Readers)
           /\ <<TheMap>> \o InTable(c) \in Seq(Readers)
  <1>1. InTable(c) = <<Fields("table")>> \o <<Fields(c)>>
    BY Joined DEF InTable
  <1>2. Fields("table") \in Readers /\ Fields(c) \in Readers /\ TheMap \in Readers
    BY OwnersAre, ReadersAre
  <1>3. InTable(c) \in Seq(Readers) /\ <<Fields(c)>> \in Seq(Readers)
    BY <1>2, TuplesAre DEF InTable
  <1>4. <<TheMap>> \o InTable(c) \in Seq(Readers)
    <2> DEFINE S == Readers
    <2>1. TheMap \in S /\ InTable(c) \in Seq(S)
      BY <1>2, <1>3
    <2> HIDE DEF S
    <2>2. <<TheMap>> \o InTable(c) \in Seq(S)
      BY <2>1, FrontOf
    <2>3. QED
      BY <2>2 DEF S
  <1>5. QED
    BY <1>1, <1>3, <1>4

(* Reading a table.                                                        *)
AtTable ==
    step = "reading" /\ call = "get_table" /\ answer \in Answers(call) /\ answer.body = "success"

LEMMA AtTableIs ==
    ASSUME AtTable
    PROVE  /\ step = "reading" /\ call \in Calls /\ call = "get_table" /\ answer \in Answers("get_table")
           /\ answer.body = "success" /\ answer.before \in Optional /\ answer.after \in Optional
           /\ \/ answer.of.type \in {"none", "list", "foreign"} /\ answer.of.value = NoParams
              \/ answer.of.type = "params" /\ answer.of.value \in Params
           /\ {TableAll(answer), TableMid(answer), TableAfter(answer)} \subseteq Seq(Items)
  <1>1. call \in Calls /\ answer \in Answers("get_table")
    BY DEF AtTable, Calls
  <1>2. QED
    BY <1>1, AnswerIs, TablePartsAre DEF AtTable

LEMMA TableEnds ==
    ASSUME AtTable, todo = InTable(call), wire = <<Stop, Stop>>, params = answer.of.value
    PROVE  Sound
  <1>1. /\ step = "reading" /\ call \in Calls /\ call = "get_table" /\ answer.body = "success"
    BY AtTableIs
  <1>2. /\ todo # <<>> /\ Head(todo) = Fields("table") /\ Tail(todo) = <<Fields(call)>>
        /\ wire # <<>> /\ Head(wire) = Stop /\ Tail(wire) = <<Stop>>
    BY Taken2 DEF InTable
  <1>3. Head(wire).is = Head(todo).reads
    BY <1>2 DEF Stop, Field, Fields
  <1>4. ASSUME DecodeStep
        PROVE  Goes
    <2>1. ReadStop("table")
      <3>1. ReadField("table") \/ ReadStop("table")
        BY <1>2, <1>4, WhichStep, OwnersAre
      <3>2. QED
        BY <1>2, <3>1 DEF ReadField
    <2>2. Take(<<>>) /\ UNCHANGED <<step, result, params, names>>
      BY <2>1 DEF ReadStop
    <2>3. todo' = <<Fields(call)>> /\ wire' = <<Stop>>
      BY <1>2, <2>2, Joined DEF Take
    <2>4. Point(call, answer, <<Fields(call)>>, <<Stop>>, params', names')
      BY <1>1, <2>2 DEF Point
    <2>5. <<Fields(call)>> \in Seq(Readers) /\ <<Stop>> \in Seq(Items)
      BY <1>1, InTableIs, StopsAre
    <2>6. QED
      BY <1>1, <2>2, <2>3, <2>4, <2>5, GoesTo
  <1>5. QED
    BY <1>2, <1>3, <1>4 DEF Sound

LEMMA TableGoesOn ==
    ASSUME AtTable, todo = InTable(call), wire = TableAfter(answer), params = answer.of.value
    PROVE  Sound
  <1> DEFINE o == "table"
             R == <<Fields(call)>>
             E == <<Stop, Stop>>
  <1>1. step = "reading" /\ call \in Calls /\ call = "get_table" /\ answer.body = "success" /\ answer.after \in Optional
    BY AtTableIs
  <1>2. 13 \in 0..13 /\ o \in Owners /\ R \in Seq(Readers) /\ InTable(call) = <<Fields(o)>> \o R
    BY <1>1, OwnersAre, InTableIs
  <1>3. \A type \in Types : Reader(o, Field(type, 13)) = Skip(type)
    BY <1>2, OthersAreSkipped
  <1>4. Point(call, answer, InTable(call), E, params, names) /\ E \in Seq(Items)
    BY <1>1, StopsAre DEF Point
  <1>5. wire = E => Sound
    BY TableEnds
  <1>6. wire = FieldOf(answer.after, 13) \o E
    BY DEF TableAfter
  <1> HIDE DEF o, R, E
  <1>7. todo = <<Fields(o)>> \o R /\ Point(call, answer, <<Fields(o)>> \o R, E, params, names)
    BY <1>2, <1>4
  <1>8. QED
    BY <1>1, <1>2, <1>3, <1>4, <1>5, <1>6, <1>7, OptionalField

(* What is left at a key, at the value of a pair or at a name.             *)
LEMMA CopiesLeft ==
    ASSUME NEW m \in Nat, NEW r \in Readers, NEW T \in Seq(Readers)
    PROVE  /\ Copies(m, r) \o T \in Seq(Readers)
           /\ m = 0 => Copies(m, r) \o T = T
           /\ m > 0 => /\ Copies(m, r) \o T # <<>>
                       /\ Head(Copies(m, r) \o T) = r
                       /\ Tail(Copies(m, r) \o T) = Copies(m - 1, r) \o T
  <1> DEFINE S == Readers
             C == Copies(m, r)
  <1>1. T \in Seq(S) /\ r \in S
    OBVIOUS
  <1> HIDE DEF S
  <1>2. /\ C \in Seq(S)
        /\ m = 0 => C = <<>>
        /\ m > 0 => C # <<>> /\ Head(C) = r /\ Tail(C) = Copies(m - 1, r)
    BY <1>1, CopiesAre
  <1> HIDE DEF C
  <1>3. C \o T \in Seq(S)
    BY <1>1, <1>2
  <1>4. m = 0 => C \o T = T
    BY <1>1, <1>2
  <1>5. m > 0 => C \o T # <<>> /\ Head(C \o T) = r /\ Tail(C \o T) = Copies(m - 1, r) \o T
    <2>1. SUFFICES ASSUME m > 0
                   PROVE  C \o T # <<>> /\ Head(C \o T) = r /\ Tail(C \o T) = Copies(m - 1, r) \o T
      OBVIOUS
    <2>2. C # <<>> /\ Head(C) = r /\ Tail(C) = Copies(m - 1, r)
      BY <1>2, <2>1
    <2>3. C \o T # <<>> /\ Head(C \o T) = Head(C) /\ Tail(C \o T) = Tail(C) \o T
      BY <1>1, <1>2, <2>2, FrontOfBoth, ZenonT(60)
    <2>4. QED
      BY <2>2, <2>3, Zenon
  <1>6. QED
    BY <1>3, <1>4, <1>5 DEF S, C

LEMMA KeysLeft ==
    ASSUME NEW m \in Nat
    PROVE  /\ Copies(m, TheKey) \o InTable("get_table") \in Seq(Readers)
           /\ m = 0 => Copies(m, TheKey) \o InTable("get_table") = InTable("get_table")
           /\ m > 0 => /\ Copies(m, TheKey) \o InTable("get_table") # <<>>
                       /\ Head(Copies(m, TheKey) \o InTable("get_table")) = TheKey
                       /\ Tail(Copies(m, TheKey) \o InTable("get_table"))
                             = Copies(m - 1, TheKey) \o InTable("get_table")
  <1>1. InTable("get_table") \in Seq(Readers) /\ TheKey \in Readers
    BY InTableIs, ReadersAre DEF Calls
  <1>2. QED
    BY <1>1, CopiesLeft

GivesOne(s, n, j, A) ==
    /\ SubSeq(s, j, n) \o A # <<>>
    /\ Head(SubSeq(s, j, n) \o A) = s[j]
    /\ Tail(SubSeq(s, j, n) \o A) = SubSeq(s, j + 1, n) \o A
    /\ SubSeq(s, j + 1, n) \o A \in Seq(Items)

LEMMA ItemsLeft ==
    ASSUME NEW s \in Seq(Items), NEW n \in Nat, Len(s) = n, NEW A \in Seq(Items)
    PROVE  /\ SubSeq(s, 1, n) \o A = s \o A
           /\ SubSeq(s, n + 1, n) \o A = A
           /\ \A j \in 1..n : GivesOne(s, n, j, A)
  <1> DEFINE S == Items
  <1>1. s \in Seq(S) /\ A \in Seq(S)
    OBVIOUS
  <1> HIDE DEF S
  <1>2. SubSeq(s, 1, n) \o A = s \o A
    BY <1>1, SubSeqFull
  <1>3. SubSeq(s, n + 1, n) \o A = A
    <2>1. n + 1 \in Int /\ n \in Int /\ n < n + 1
      OBVIOUS
    <2>2. SubSeq(s, n + 1, n) = <<>>
      BY <2>1, SubSeqEmpty
    <2>3. QED
      BY <1>1, <2>2
  <1>4. ASSUME NEW j \in 1..n
        PROVE  /\ SubSeq(s, j, n) \o A # <<>>
               /\ Head(SubSeq(s, j, n) \o A) = s[j]
               /\ Tail(SubSeq(s, j, n) \o A) = SubSeq(s, j + 1, n) \o A
               /\ SubSeq(s, j + 1, n) \o A \in Seq(S)
    <2>1. SubSeq(s, j, n) \o A # <<>>
      BY <1>1, PartIsLeft
    <2>2. Head(SubSeq(s, j, n) \o A) = s[j]
      BY <1>1, PartGoesOn
    <2>3. Tail(SubSeq(s, j, n) \o A) = SubSeq(s, j + 1, n) \o A
      BY <1>1, PartGoesOn
    <2>4. SubSeq(s, j + 1, n) \o A \in Seq(S)
      BY <1>1, PartGoesOn
    <2>5. QED
      BY <2>1, <2>2, <2>3, <2>4
  <1>5. QED
    BY <1>2, <1>3, <1>4 DEF S, GivesOne

LEMMA PairsLeft ==
    ASSUME NEW p \in Params, NEW A \in Seq(Items)
    PROVE  /\ SubSeq(Pairs(p), 1, 2 * Len(KeysOf(p))) \o A = Pairs(p) \o A
           /\ SubSeq(Pairs(p), (2 * Len(KeysOf(p))) + 1, 2 * Len(KeysOf(p))) \o A = A
           /\ \A j \in 1..(2 * Len(KeysOf(p))) :
                 /\ SubSeq(Pairs(p), j, 2 * Len(KeysOf(p))) \o A # <<>>
                 /\ Head(SubSeq(Pairs(p), j, 2 * Len(KeysOf(p))) \o A) = Pairs(p)[j]
                 /\ Tail(SubSeq(Pairs(p), j, 2 * Len(KeysOf(p))) \o A)
                       = SubSeq(Pairs(p), j + 1, 2 * Len(KeysOf(p))) \o A
                 /\ SubSeq(Pairs(p), j + 1, 2 * Len(KeysOf(p))) \o A \in Seq(Items)
  <1> DEFINE s == Pairs(p)
             n == 2 * Len(KeysOf(p))
  <1>1. s \in Seq(Items) /\ Len(s) = n /\ n \in Nat
    BY PairsAre, KeysOfAre
  <1> HIDE DEF s, n
  <1>2. /\ SubSeq(s, 1, n) \o A = s \o A
        /\ SubSeq(s, n + 1, n) \o A = A
        /\ \A j \in 1..n : GivesOne(s, n, j, A)
    BY <1>1, ItemsLeft
  <1>3. QED
    BY <1>2 DEF s, n, GivesOne

(* A step from one pair to the next, with the readers and items hidden.    *)
LEMMA KeyPoint ==
    ASSUME AtTable, NEW i \in 0..Len(KeysOf(answer.of.value)),
           AtKey(call, answer, i, todo, wire, params)
    PROVE  Sound
  <1> DEFINE p == answer.of.value
             n == Len(KeysOf(p))
             A == TableAfter(answer)
             T == InTable("get_table")
             k == KeysOf(p)[i + 1]
             O == <<TheValue(k)>> \o (Copies(n - (i + 1), TheKey) \o T)
             W == SubSeq(Pairs(p), 2 * (i + 1), 2 * n) \o A
  <1>1. /\ step = "reading" /\ call = "get_table" /\ answer.body = "success"
        /\ answer.of.type = "params" /\ p \in Params /\ A \in Seq(Items)
    <2>1. answer.of.type = "params"
      BY DEF AtKey
    <2>2. QED
      BY <2>1, AtTableIs
  <1>2. n \in Nat /\ KeysOf(p) \in [1..n -> DOMAIN p] /\ n - i \in Nat
    <2>1. n \in Nat /\ KeysOf(p) \in [1..n -> DOMAIN p]
      BY <1>1, KeysOfAre
    <2> HIDE DEF n
    <2>2. i \in 0..n
      BY DEF n
    <2>3. QED
      BY <2>1, <2>2
  <1>3. /\ params = FirstOf(p, i) /\ todo = Copies(n - i, TheKey) \o T
        /\ wire = SubSeq(Pairs(p), (2 * i) + 1, 2 * n) \o A
    BY <1>1 DEF AtKey
  <1>4. CASE i = n
    <2>1. todo = T /\ wire = A
      <3>1. n - i = 0
        BY <1>2, <1>4
      <3>2. todo = T
        BY <1>2, <1>3, <3>1, KeysLeft
      <3>3. SubSeq(Pairs(p), (2 * n) + 1, 2 * n) \o A = A
        BY <1>1, PairsLeft
      <3>4. QED
        BY <1>3, <1>4, <3>2, <3>3
    <2>2. params = p
      BY <1>1, <1>3, <1>4, FirstOfAre
    <2>3. QED
      BY <1>1, <2>1, <2>2, TableGoesOn
  <1>5. CASE i # n
    <2>1. /\ i + 1 \in 1..n /\ (2 * i) + 1 \in 1..(2 * n) /\ n - i > 0 /\ (n - i) - 1 = n - (i + 1)
          /\ ((2 * i) + 1) + 1 = 2 * (i + 1) /\ (2 * i) + 1 = (2 * (i + 1)) - 1 /\ n - (i + 1) \in Nat
          /\ (i + 1) - 1 = i
      BY <1>2, <1>5
    <2>2. todo # <<>> /\ Head(todo) = TheKey /\ Tail(todo) = Copies(n - (i + 1), TheKey) \o T
      <3>1. todo # <<>> /\ Head(todo) = TheKey /\ Tail(todo) = Copies((n - i) - 1, TheKey) \o T
        BY <1>2, <1>3, <2>1, KeysLeft
      <3>2. QED
        BY <2>1, <3>1
    <2>3. wire # <<>> /\ Head(wire) = Text(k) /\ Tail(wire) = W /\ W \in Seq(Items)
      <3> DEFINE j == (2 * i) + 1
      <3>1. /\ wire # <<>> /\ Head(wire) = Pairs(p)[j]
            /\ Tail(wire) = SubSeq(Pairs(p), j + 1, 2 * n) \o A
            /\ SubSeq(Pairs(p), j + 1, 2 * n) \o A \in Seq(Items)
        <4>1. j \in 1..(2 * n) /\ wire = SubSeq(Pairs(p), j, 2 * n) \o A
          BY <1>3, <2>1
        <4> HIDE DEF j
        <4>2. QED
          BY <1>1, <4>1, PairsLeft
      <3>2. Pairs(p)[j] = Text(k) /\ SubSeq(Pairs(p), j + 1, 2 * n) \o A = W
        <4>1. Pairs(p)[(2 * (i + 1)) - 1] = Text(k)
          BY <1>1, <2>1, PairsAre
        <4>2. QED
          BY <2>1, <4>1
      <3>3. QED
        BY <3>1, <3>2
    <2>4. Head(wire).is = Head(todo).reads
      <3>1. Text(k).is = "string" /\ TheKey.reads = "string"
        BY DEF Text, TheKey
      <3> HIDE DEF k, W
      <3>2. QED
        BY <2>2, <2>3, <3>1
    <2>5. ASSUME DecodeStep
          PROVE  Goes
      <3>1. ReadKey
        BY <2>2, <2>5, WhichStep
      <3>2. todo' = O /\ wire' = W
        <4>1. Head(wire).text = k
          BY <2>3 DEF Text
        <4>2. QED
          BY <2>2, <2>3, <3>1, <4>1 DEF ReadKey, Take
      <3>3. step' = "reading" /\ result' = result /\ params' = params /\ names' = names
        BY <1>1, <3>1 DEF ReadKey
      <3>4. O \in Seq(Readers)
        <4>1. k \in Texts
          <5>1. k \in DOMAIN p /\ DOMAIN p \subseteq Keys
            BY <1>1, <1>2, <2>1, ParamsAre
          <5>2. QED
            BY <5>1 DEF Texts
        <4>2. TheValue(k) \in Readers
          BY <4>1, ReadersAre
        <4> DEFINE S == Readers
                   C == Copies(n - (i + 1), TheKey) \o T
        <4>3. TheValue(k) \in S /\ C \in Seq(S)
          BY <2>1, <4>2, KeysLeft
        <4> HIDE DEF S, C
        <4>4. <<TheValue(k)>> \o C \in Seq(S)
          BY <4>3, FrontOf
        <4>5. QED
          BY <4>4 DEF S, C
      <3>5. AtValue(call, answer, i + 1, O, W, params')
        <4>1. params' = FirstOf(p, (i + 1) - 1)
          BY <1>3, <2>1, <3>3
        <4>2. QED
          BY <1>1, <4>1 DEF AtValue
      <3> HIDE DEF O, W
      <3>6. Point(call, answer, O, W, params', names')
        <4>1. \E m \in 1..n : AtValue(call, answer, m, O, W, params')
          BY <2>1, <3>5
        <4>2. QED
          BY <1>1, <4>1, Zenon DEF Point
      <3>7. QED
        BY <2>3, <3>2, <3>3, <3>4, <3>6, GoesTo
    <2>6. QED
      BY <2>2, <2>3, <2>4, <2>5 DEF Sound
  <1>6. QED
    BY <1>4, <1>5

LEMMA ValuePoint ==
    ASSUME AtTable, NEW i \in 1..Len(KeysOf(answer.of.value)),
           AtValue(call, answer, i, todo, wire, params)
    PROVE  Sound
  <1> DEFINE p == answer.of.value
             n == Len(KeysOf(p))
             A == TableAfter(answer)
             T == InTable("get_table")
             k == KeysOf(p)[i]
             O == Copies(n - i, TheKey) \o T
             W == SubSeq(Pairs(p), (2 * i) + 1, 2 * n) \o A
  <1>1. /\ step = "reading" /\ call = "get_table" /\ answer.body = "success"
        /\ answer.of.type = "params" /\ p \in Params /\ A \in Seq(Items)
    <2>1. answer.of.type = "params"
      BY DEF AtValue
    <2>2. QED
      BY <2>1, AtTableIs
  <1>2. /\ n \in Nat /\ KeysOf(p) \in [1..n -> DOMAIN p] /\ n - i \in Nat
        /\ 2 * i \in 1..(2 * n) /\ i \in 0..n
    <2>1. n \in Nat /\ KeysOf(p) \in [1..n -> DOMAIN p]
      BY <1>1, KeysOfAre
    <2> HIDE DEF n
    <2>2. i \in 1..n
      BY DEF n
    <2>3. QED
      BY <2>1, <2>2
  <1>3. /\ params = FirstOf(p, i - 1) /\ todo = <<TheValue(k)>> \o O
        /\ wire = SubSeq(Pairs(p), 2 * i, 2 * n) \o A
    BY <1>1 DEF AtValue
  <1>4. TheValue(k) \in Readers /\ O \in Seq(Readers)
    <2>1. k \in DOMAIN p /\ DOMAIN p \subseteq Keys
      BY <1>1, <1>2, ParamsAre
    <2>2. k \in Texts
      BY <2>1 DEF Texts
    <2>3. QED
      BY <1>2, <2>2, ReadersAre, KeysLeft
  <1>5. todo # <<>> /\ Head(todo) = TheValue(k) /\ Tail(todo) = O
    <2> DEFINE S == Readers
    <2>1. TheValue(k) \in S /\ O \in Seq(S)
      BY <1>4
    <2> HIDE DEF S, O
    <2>2. QED
      BY <1>3, <2>1, FrontOf
  <1>6. wire # <<>> /\ Head(wire) = Text(p[k]) /\ Tail(wire) = W /\ W \in Seq(Items)
    <2> DEFINE j == 2 * i
    <2>1. Pairs(p)[j] = Text(p[k])
      BY <1>1, PairsAre
    <2>2. j \in 1..(2 * n) /\ wire = SubSeq(Pairs(p), j, 2 * n) \o A /\ W = SubSeq(Pairs(p), j + 1, 2 * n) \o A
      BY <1>2, <1>3
    <2> HIDE DEF j, W
    <2>3. QED
      BY <1>1, <2>1, <2>2, PairsLeft
  <1>7. Head(wire).is = Head(todo).reads
    <2>1. Text(p[k]).is = "string"
      BY DEF Text
    <2>2. TheValue(k).reads = "string"
      BY DEF TheValue
    <2>3. Head(wire) = Text(p[k]) /\ Head(todo) = TheValue(k)
      BY <1>5, <1>6
    <2> HIDE DEF k, p
    <2>4. QED
      BY <2>1, <2>2, <2>3
  <1>8. ASSUME DecodeStep
        PROVE  Goes
    <2>1. ReadValue(k)
      BY <1>5, <1>8, WhichStep
    <2>2. todo' = O /\ wire' = W
      <3>1. Take(<<>>)
        BY <2>1 DEF ReadValue
      <3> DEFINE S == Readers
      <3>2. O \in Seq(S)
        BY <1>4
      <3> HIDE DEF O, S
      <3>3. <<>> \o O = O
        BY <3>2
      <3>4. QED
        BY <1>5, <1>6, <3>1, <3>3 DEF Take
    <2>3. step' = "reading" /\ result' = result /\ names' = names
      BY <1>1, <2>1 DEF ReadValue
    <2>4. params' = FirstOf(p, i)
      <3>1. Head(wire).text = p[k]
        BY <1>6 DEF Text
      <3>2. params' = [x \in DOMAIN params \cup {k} |-> IF x = k THEN p[k] ELSE params[x]]
        BY <2>1, <3>1 DEF ReadValue
      <3>3. FirstOf(p, i) = [x \in DOMAIN FirstOf(p, i - 1) \cup {k} |-> IF x = k THEN p[k] ELSE FirstOf(p, i - 1)[x]]
        BY <1>1, FirstOfAre
      <3>4. QED
        BY <1>3, <3>2, <3>3
    <2>5. AtKey(call, answer, i, O, W, params')
      BY <1>1, <2>4 DEF AtKey
    <2> HIDE DEF O, W
    <2>6. Point(call, answer, O, W, params', names')
      <3>1. \E m \in 0..n : AtKey(call, answer, m, O, W, params')
        BY <1>2, <2>5
      <3>2. QED
        BY <1>1, <3>1, Zenon DEF Point
    <2>7. QED
      BY <1>4, <1>6, <2>2, <2>3, <2>6, GoesTo
  <1>9. QED
    BY <1>5, <1>6, <1>7, <1>8 DEF Sound


(* At the map of the parameters, and at a map that is not one.             *)
LEMMA MapPoint ==
    ASSUME AtTable, answer.of.type = "params", params = NoParams,
           todo = <<TheMap>> \o InTable(call),
           wire = <<MapOf("string", "string", Len(KeysOf(answer.of.value)))>>
                    \o (Pairs(answer.of.value) \o TableAfter(answer))
    PROVE  Sound
  <1> DEFINE p == answer.of.value
             n == Len(KeysOf(p))
             A == TableAfter(answer)
             T == InTable("get_table")
             m == MapOf("string", "string", n)
             O == Copies(n - 0, TheKey) \o T
             W == SubSeq(Pairs(p), (2 * 0) + 1, 2 * n) \o A
  <1>1. /\ step = "reading" /\ call = "get_table" /\ call \in Calls /\ answer.body = "success"
        /\ p \in Params /\ A \in Seq(Items) /\ answer \in Answers("get_table")
    BY AtTableIs
  <1>2. n \in Nat /\ Pairs(p) \in Seq(Items) /\ m \in Items
    BY <1>1, TablePartsAre, KeysOfAre
  <1>3. O = Copies(n, TheKey) \o T /\ O \in Seq(Readers)
    <2>1. n - 0 = n
      BY <1>2
    <2>2. QED
      BY <1>2, <2>1, KeysLeft
  <1>4. W = Pairs(p) \o A /\ W \in Seq(Items)
    <2>1. (2 * 0) + 1 = 1
      OBVIOUS
    <2>2. SubSeq(Pairs(p), 1, 2 * n) \o A = Pairs(p) \o A
      BY <1>1, PairsLeft
    <2>3. Pairs(p) \o A \in Seq(Items)
      BY <1>1, <1>2, NestItems
    <2>4. QED
      BY <2>1, <2>2, <2>3
  <1>5. /\ todo # <<>> /\ Head(todo) = TheMap /\ Tail(todo) = T
        /\ wire # <<>> /\ Head(wire) = m /\ Tail(wire) = W
    <2>1. TheMap \in Readers /\ T \in Seq(Readers) /\ todo = <<TheMap>> \o T
      BY <1>1, ReadersAre, InTableIs
    <2>2. wire = <<m>> \o W
      BY <1>4
    <2> HIDE DEF m, T, W
    <2>3. QED
      BY <1>2, <1>4, <2>1, <2>2, InFront
  <1>6. m.is = "map" /\ m.key = "string" /\ m.value = "string" /\ m.size = n
    BY DEF MapOf
  <1>7. Head(wire).is = Head(todo).reads
    <2>1. TheMap.reads = "map"
      BY DEF TheMap
    <2> HIDE DEF m, T, W
    <2>2. QED
      BY <1>5, <1>6, <2>1
  <1>8. ASSUME DecodeStep
        PROVE  Goes
    <2>1. ReadMap
      BY <1>5, <1>8, WhichStep
    <2> HIDE DEF m
    <2>2. Take(Copies(n, TheKey))
      BY <1>5, <1>6, <2>1 DEF ReadMap
    <2>3. todo' = O /\ wire' = W
      BY <1>3, <1>5, <2>2 DEF Take
    <2>4. step' = "reading" /\ result' = result /\ params' = NoParams /\ names' = names
      BY <1>1, <2>1 DEF ReadMap
    <2>5. AtKey(call, answer, 0, O, W, params')
      BY <1>1, <2>4, FirstOfAre DEF AtKey
    <2> HIDE DEF O, W
    <2>6. Point(call, answer, O, W, params', names')
      <3>1. \E j \in 0..n : AtKey(call, answer, j, O, W, params')
        BY <1>2, <2>5
      <3>2. QED
        BY <1>1, <3>1, Zenon DEF Point
    <2>7. QED
      BY <1>3, <1>4, <2>3, <2>4, <2>6, GoesTo
  <1>9. QED
    BY <1>5, <1>7, <1>8 DEF Sound

LEMMA JoinedFive ==
    ASSUME NEW a, NEW b, NEW c, NEW d, NEW e
    PROVE  <<a>> \o <<b, c, d, e>> = <<a, b, c, d, e>>
  <1> DEFINE S == {a, b, c, d, e}
             s == <<a>> \o <<b, c, d, e>>
             t == <<a, b, c, d, e>>
  <1>1. s \in Seq(S) /\ t \in Seq(S)
    OBVIOUS
  <1>2. Len(s) = 5 /\ s[1] = a /\ s[2] = b /\ s[3] = c /\ s[4] = d /\ s[5] = e
    OBVIOUS
  <1>3. Len(t) = 5 /\ t[1] = a /\ t[2] = b /\ t[3] = c /\ t[4] = d /\ t[5] = e
    OBVIOUS
  <1> HIDE DEF S, s, t
  <1>4. \A i \in 1..5 : s[i] = t[i]
    BY <1>2, <1>3
  <1>5. s = t
    BY <1>1, <1>2, <1>3, <1>4, SeqEqual
  <1>6. QED
    BY <1>5 DEF s, t

LEMMA ForeignMapPoint ==
    ASSUME AtTable, answer.of.type = "foreign", params = NoParams,
           todo = <<TheMap>> \o InTable(call), wire = Value("map") \o TableAfter(answer)
    PROVE  Sound
  <1> DEFINE A == TableAfter(answer)
             T == InTable("get_table")
             m == MapOf("i32", "string", 2)
             t == <<Skip("i32"), Skip("string"), Skip("i32"), Skip("string")>>
             s == <<Number, Text(""), Number, Text("")>>
  <1>1. /\ step = "reading" /\ call = "get_table" /\ call \in Calls /\ answer.body = "success"
        /\ A \in Seq(Items) /\ T \in Seq(Readers) /\ answer.of.value = NoParams
    <2>1. answer.of.value = NoParams
      BY AtTableIs
    <2>2. QED
      BY <2>1, AtTableIs, InTableIs
  <1>2. m \in Items /\ s \in Seq(Items) /\ <<t, s>> \in Ways
    <2>1. 2 \in Nat
      OBVIOUS
    <2>2. m \in Items
      BY <2>1, ItemsAre, TypesAre
    <2>3. <<t, s>> \in Ways
      BY Zenon DEF Ways
    <2>4. Number \in Items /\ Text("") \in Items
      BY ItemsAre
    <2>5. s \in Seq(Items)
      BY <2>4, TuplesAre, Zenon
    <2>6. QED
      BY <2>2, <2>3, <2>5
  <1>3. wire = <<m>> \o (s \o A)
    <2>1. Value("map") = <<m>> \o s
      BY ValueIs, JoinedFive
    <2>2. <<m>> \in Seq(Items)
      BY <1>2, TuplesAre
    <2> HIDE DEF m, s, A
    <2>3. (<<m>> \o s) \o A = <<m>> \o (s \o A)
      BY <1>1, <1>2, <2>2, RegroupItems
    <2>4. QED
      BY <2>1, <2>3 DEF A
  <1>4. /\ todo # <<>> /\ Head(todo) = TheMap /\ Tail(todo) = T
        /\ wire # <<>> /\ Head(wire) = m /\ Tail(wire) = s \o A
    <2>1. TheMap \in Readers /\ todo = <<TheMap>> \o T
      BY <1>1, ReadersAre
    <2> HIDE DEF m, s, T, A
    <2>2. s \o A \in Seq(Items)
      BY <1>1, <1>2, NestItems
    <2>3. QED
      BY <1>1, <1>2, <1>3, <2>1, <2>2, InFront
  <1>5. m.is = "map" /\ m.key = "i32" /\ m.value = "string" /\ TheMap.reads = "map"
    BY DEF MapOf, TheMap
  <1>6. Head(wire).is = Head(todo).reads
    <2> HIDE DEF m, s, T, A
    <2>1. QED
      BY <1>4, <1>5
  <1>7. ASSUME DecodeStep
        PROVE  Goes
    <2>1. ReadMap
      BY <1>4, <1>7, WhichStep
    <2>2. PairReaders(m) = t
      <3>1. Leaves(Skip("map"), m) = PairReaders(m)
        BY SkipsDiffer DEF Leaves
      <3>2. QED
        BY <3>1, LeavesIs
    <2> HIDE DEF m, s, t, T, A
    <2>3. Take(t)
      BY <1>4, <1>5, <2>1, <2>2 DEF ReadMap, ForeignPairs
    <2>4. todo' = t \o T /\ wire' = s \o A
      BY <1>4, <2>3 DEF Take
    <2>5. step' = "reading" /\ result' = result /\ params' = NoParams /\ names' = names
      BY <1>1, <2>1 DEF ReadMap
    <2>6. Point(call, answer, T, A, params', names')
      BY <1>1, <2>5 DEF Point, A, T
    <2>7. \E O \in Seq(Readers), W \in Seq(Items) : \E t1, s1 :
             /\ <<t1, s1>> \in Ways /\ todo' = t1 \o O /\ wire' = s1 \o W
             /\ Point(call, answer, O, W, params', names')
      BY <1>1, <1>2, <2>4, <2>6, Zenon
    <2>8. QED
      BY <2>5, <2>7 DEF Goes
  <1>8. QED
    BY <1>4, <1>6, <1>7 DEF Sound


(* In front of the field of the parameters, and of the whole table.        *)
LEMMA TableBegins ==
    ASSUME AtTable, todo = InTable(call), params = NoParams
    PROVE  /\ wire = TableMid(answer) => Sound
           /\ wire = TableAll(answer) => Sound
  <1> DEFINE o == "table"
             R == <<Fields(call)>>
             p == answer.of.value
             n == Len(KeysOf(p))
             A == TableAfter(answer)
             B == TableMid(answer)
  <1>1. /\ step = "reading" /\ call = "get_table" /\ call \in Calls /\ answer.body = "success"
        /\ answer \in Answers("get_table") /\ answer.before \in Optional
        /\ A \in Seq(Items) /\ B \in Seq(Items)
        /\ (answer.of.type \in {"none", "list", "foreign"} /\ p = NoParams)
              \/ (answer.of.type = "params" /\ p \in Params)
    BY AtTableIs
  <1>2. 7 \in 0..13 /\ 12 \in 0..13 /\ o \in Owners /\ R \in Seq(Readers) /\ todo = <<Fields(o)>> \o R
    BY <1>1, OwnersAre, InTableIs
  <1>3. InTable(call) = <<Fields(o)>> \o R
    BY <1>1, InTableIs
  <1>4. TheMap \in Readers /\ Reader(o, Field("map", 12)) = TheMap /\ TheMap # Fields("table")
    <2>1. TheMap # Fields("table")
      BY DEF TheMap, Fields
    <2>2. QED
      BY <2>1, ReadersAre, ReaderIs
  <1>5. ASSUME wire = B
        PROVE  Sound
    <2>1. wire = Column12(answer) \o A
      BY <1>5 DEF TableMid
    <2>2. CASE answer.of.type = "none"
      <3>1. Column12(answer) = <<>>
        BY <2>2 DEF Column12
      <3> DEFINE S == Items
      <3>2. A \in Seq(S)
        BY <1>1
      <3> HIDE DEF S, A
      <3>3. wire = A
        BY <2>1, <3>1, <3>2
      <3>4. params = p
        BY <1>1, <2>2
      <3>5. QED
        BY <3>3, <3>4, TableGoesOn DEF A
    <2>3. CASE answer.of.type = "list"
      <3>1. wire = FieldOf(<<"list">>, 12) \o A
        BY <2>1, <2>3 DEF Column12
      <3>2. Reader(o, Field("list", 12)) = Skip("list")
        BY <1>2, TypesAre, OthersAreSkipped
      <3>3. Point(call, answer, InTable(call), A, params, names)
        BY <1>1, <2>3 DEF Point
      <3> HIDE DEF o, R, A
      <3>4. Point(call, answer, <<Fields(o)>> \o R, A, params, names)
        BY <1>3, <3>3
      <3>5. QED
        BY <1>1, <1>2, <3>1, <3>2, <3>4, FieldPoint, TypesAre
    <2>4. CASE answer.of.type = "foreign"
      <3> DEFINE W == Value("map") \o A
      <3>1. wire = <<Field("map", 12)>> \o W /\ W \in Seq(Items)
        <4>1. wire = FieldOf(<<"map">>, 12) \o A
          BY <2>1, <2>4 DEF Column12
        <4>2. FieldOf(<<"map">>, 12) = <<Field("map", 12)>> \o Value("map")
          BY <1>2, FieldOfIs, TypesAre
        <4>3. <<Field("map", 12)>> \in Seq(Items) /\ Value("map") \in Seq(Items)
          BY <1>2, ItemsAre, StopsAre, TypesAre, ValuesAre
        <4> HIDE DEF A
        <4>4. (<<Field("map", 12)>> \o Value("map")) \o A = <<Field("map", 12)>> \o W
          BY <1>1, <4>3, RegroupItems
        <4>5. W \in Seq(Items)
          BY <1>1, <4>3, NestItems
        <4>6. QED
          BY <4>1, <4>2, <4>4, <4>5
      <3>2. Point(call, answer, <<TheMap>> \o InTable(call), W, params, names)
        BY <1>1, <2>4 DEF Point
      <3> HIDE DEF o, R, A, W
      <3>3. Point(call, answer, <<TheMap>> \o (<<Fields(o)>> \o R), W,
                  IF TheMap = Fields("table") THEN NoParams ELSE params, names)
        BY <1>3, <1>4, <3>2
      <3>4. QED
        BY <1>1, <1>2, <1>4, <3>1, <3>3, OpenField, TypesAre
    <2>5. CASE answer.of.type = "params"
      <3> DEFINE m == MapOf("string", "string", n)
                 f == Field("map", 12)
                 q == Pairs(p)
                 W == <<m>> \o (q \o A)
      <3>1. p \in Params /\ m \in Items /\ q \in Seq(Items) /\ f \in Items
        BY <1>1, <1>2, <2>5, TablePartsAre, ItemsAre, TypesAre
      <3>2. <<m>> \in Seq(Items) /\ <<f>> \in Seq(Items)
        BY <3>1, StopsAre
      <3>3. Column12(answer) = (<<f>> \o <<m>>) \o q
        <4>1. n = Cardinality(DOMAIN p)
          BY <3>1, KeysOfAre
        <4>2. Column12(answer) = <<f, MapOf("string", "string", Cardinality(DOMAIN p))>> \o q
          BY <2>5 DEF Column12
        <4>3. <<f>> \o <<m>> = <<f, m>>
          BY Joined
        <4>4. QED
          BY <4>1, <4>2, <4>3
      <3> HIDE DEF m, f, q, A
      <3>4. Nests(<<f>>, <<m>>, q, A)
        BY <1>1, <3>1, <3>2, Nested
      <3>5. wire = <<f>> \o W
        BY <2>1, <3>3, <3>4 DEF Nests
      <3>6. W \in Seq(Items)
        <4>1. q \o A \in Seq(Items)
          BY <1>1, <3>1, NestItems
        <4>2. QED
          BY <3>2, <4>1, NestItems
      <3>7. Point(call, answer, <<TheMap>> \o InTable(call), W, params, names)
        BY <1>1, <2>5 DEF Point, m, q, A
      <3> HIDE DEF o, R, W
      <3>8. Point(call, answer, <<TheMap>> \o (<<Fields(o)>> \o R), W,
                  IF TheMap = Fields("table") THEN NoParams ELSE params, names)
        BY <1>3, <1>4, <3>7
      <3>9. wire = <<Field("map", 12)>> \o W
        BY <3>5 DEF f
      <3>10. QED
        BY <1>1, <1>2, <1>4, <3>6, <3>8, <3>9, OpenField, TypesAre
    <2>6. QED
      BY <1>1, <2>2, <2>3, <2>4, <2>5
  <1>6. ASSUME wire = TableAll(answer)
        PROVE  Sound
    <2>1. wire = FieldOf(answer.before, 7) \o B
      BY <1>6 DEF TableAll
    <2>2. \A type \in Types : Reader(o, Field(type, 7)) = Skip(type)
      BY <1>2, OthersAreSkipped
    <2>3. Point(call, answer, InTable(call), B, params, names)
      BY <1>1 DEF Point
    <2> HIDE DEF o, R, B
    <2>4. Point(call, answer, <<Fields(o)>> \o R, B, params, names)
      BY <1>3, <2>3
    <2>5. QED
      BY <1>1, <1>2, <1>5, <2>1, <2>2, <2>4, OptionalField
  <1>7. QED
    BY <1>5, <1>6


(* Reading a list of tables.                                               *)
AtList ==
    /\ step = "reading" /\ call = "get_all_tables" /\ params = NoParams
    /\ answer \in Answers(call) /\ answer.body = "success"

LEMMA AtListIs ==
    ASSUME AtList
    PROVE  /\ step = "reading" /\ call \in Calls /\ call = "get_all_tables" /\ call # "get_table"
           /\ params = NoParams
           /\ answer \in Answers("get_all_tables") /\ answer.body = "success"
           /\ answer.before \in Optional /\ answer.after \in Optional
           /\ \/ answer.of.type = "names" /\ answer.of.value \in HiveTables
              \/ answer.of.type = "foreign" /\ answer.of.value = <<>>
           /\ {ListAll(answer), ListMid(answer), ListAfter(answer), ListItems(answer)} \subseteq Seq(Items)
           /\ <<Fields(call)>> \in Seq(Readers) /\ call \in Owners
  <1>1. call \in Calls /\ answer \in Answers("get_all_tables")
    BY DEF AtList, Calls
  <1>2. QED
    BY <1>1, AnswerIs, ListPartsAre, InTableIs, OwnersAre DEF AtList

LEMMA NoReaders == <<>> \in Seq(Readers)
  BY TuplesAre

(* The empty sequence in front of readers.                                 *)
LEMMA AloneReaders == \A R \in Seq(Readers) : R \o <<>> = R /\ <<>> \o R = R
  <1> DEFINE S == Readers
  <1> HIDE DEF S
  <1>1. \A R \in Seq(S) : R \o <<>> = R /\ <<>> \o R = R
    OBVIOUS
  <1>2. QED
    BY <1>1 DEF S

LEMMA ListGoesOn ==
    ASSUME AtList, todo = <<Fields(call)>>, wire = ListAfter(answer), names = answer.of.value
    PROVE  Sound
  <1> DEFINE R == <<>>
             E == <<Stop>>
  <1>1. step = "reading" /\ call \in Calls /\ call # "get_table" /\ answer.body = "success" /\ params = NoParams
        /\ answer.after \in Optional /\ call \in Owners /\ answer \in Answers(call)
    BY AtListIs
  <1>2. 6 \in 0..13 /\ R \in Seq(Readers) /\ <<Fields(call)>> = <<Fields(call)>> \o R
    BY NoReaders, Joined
  <1>3. \A type \in Types : Reader(call, Field(type, 6)) = Skip(type)
    BY <1>1, <1>2, OthersAreSkipped
  <1>4. Point(call, answer, <<Fields(call)>>, E, params, names) /\ E \in Seq(Items)
    BY <1>1, StopsAre DEF Point
  <1>5. wire = E => Sound
    BY <1>1, LastStop
  <1>6. wire = FieldOf(answer.after, 6) \o E
    BY DEF ListAfter
  <1> HIDE DEF R, E
  <1>7. todo = <<Fields(call)>> \o R /\ Point(call, answer, <<Fields(call)>> \o R, E, params, names)
    BY <1>2, <1>4
  <1>8. QED
    BY <1>1, <1>2, <1>3, <1>4, <1>5, <1>6, <1>7, OptionalField

LEMMA NamePoint ==
    ASSUME AtList, NEW i \in 0..Len(answer.of.value),
           AtName(call, answer, i, todo, wire, names)
    PROVE  Sound
  <1> DEFINE ns == answer.of.value
             n == Len(ns)
             A == ListAfter(answer)
             T == <<Fields(call)>>
             O == Copies(n - (i + 1), TheName) \o T
             W == SubSeq(Spelt(ns), (i + 1) + 1, n) \o A
  <1>1. /\ step = "reading" /\ call = "get_all_tables" /\ call # "get_table" /\ answer.body = "success"
        /\ params = NoParams
        /\ answer.of.type = "names" /\ ns \in HiveTables /\ A \in Seq(Items) /\ T \in Seq(Readers)
    <2>1. answer.of.type = "names"
      BY DEF AtName
    <2>2. QED
      BY <2>1, AtListIs
  <1>2. /\ n \in Nat /\ ns \in Seq(Range(ns)) /\ Spelt(ns) \in Seq(Items) /\ Len(Spelt(ns)) = n
        /\ \A j \in 1..n : Spelt(ns)[j] = Text(ns[j])
    BY <1>1, SpeltAre
  <1>3. /\ names = SubSeq(ns, 1, i) /\ todo = Copies(n - i, TheName) \o T
        /\ wire = SubSeq(Spelt(ns), i + 1, n) \o A
    BY DEF AtName
  <1>4. TheName \in Readers /\ n - i \in Nat
    <2>1. n - i \in Nat
      <3>1. i \in 0..n
        OBVIOUS
      <3> HIDE DEF n
      <3>2. QED
        BY <1>2, <3>1
    <2>2. QED
      BY <2>1, ReadersAre
  <1>5. CASE i = n
    <2>1. todo = T
      <3>1. n - i = 0
        BY <1>2, <1>5
      <3>2. QED
        BY <1>1, <1>3, <1>4, <3>1, CopiesLeft
    <2>2. wire = A
      <3>1. SubSeq(Spelt(ns), n + 1, n) \o A = A
        BY <1>1, <1>2, ItemsLeft
      <3>2. QED
        BY <1>3, <1>5, <3>1
    <2>3. names = ns
      BY <1>2, <1>3, <1>5, SubSeqFull
    <2>4. QED
      BY <2>1, <2>2, <2>3, ListGoesOn
  <1>6. CASE i # n
    <2>1. i + 1 \in 1..n /\ n - i > 0 /\ (n - i) - 1 = n - (i + 1) /\ n - (i + 1) \in Nat /\ (i + 1) - 1 = i
      <3>1. i \in 0..n
        OBVIOUS
      <3> HIDE DEF n
      <3>2. QED
        BY <1>2, <1>6, <3>1
    <2>2. todo # <<>> /\ Head(todo) = TheName /\ Tail(todo) = O /\ O \in Seq(Readers)
      <3>1. todo # <<>> /\ Head(todo) = TheName /\ Tail(todo) = Copies((n - i) - 1, TheName) \o T
        BY <1>1, <1>3, <1>4, <2>1, CopiesLeft
      <3>2. O \in Seq(Readers)
        BY <1>1, <1>4, <2>1, CopiesLeft
      <3>3. QED
        BY <2>1, <3>1, <3>2
    <2>3. wire # <<>> /\ Head(wire) = Text(ns[i + 1]) /\ Tail(wire) = W /\ W \in Seq(Items)
      <3> DEFINE j == i + 1
                 s == Spelt(ns)
      <3>1. j \in 1..n /\ s \in Seq(Items) /\ Len(s) = n /\ s[j] = Text(ns[j])
        BY <1>2, <2>1
      <3>2. wire = SubSeq(s, j, n) \o A /\ W = SubSeq(s, j + 1, n) \o A
        BY <1>3
      <3>3. GivesOne(s, n, j, A)
        <4> HIDE DEF s, j, n, A
        <4>1. QED
          BY <1>1, <1>2, <3>1, ItemsLeft
      <3> HIDE DEF s, j, n, A, W
      <3>4. wire # <<>> /\ Head(wire) = Text(ns[j]) /\ Tail(wire) = W /\ W \in Seq(Items)
        BY <3>1, <3>2, <3>3 DEF GivesOne
      <3>5. QED
        BY <3>4 DEF j
    <2>4. Head(wire).is = Head(todo).reads
      <3>1. Text(ns[i + 1]).is = "string" /\ TheName.reads = "string"
        BY DEF Text, TheName
      <3> HIDE DEF O, W
      <3>2. QED
        BY <2>2, <2>3, <3>1
    <2>5. ASSUME DecodeStep
          PROVE  Goes
      <3>1. ReadName
        BY <2>2, <2>5, WhichStep
      <3> HIDE DEF O, W
      <3>2. todo' = O /\ wire' = W
        <4>1. Take(<<>>)
          BY <3>1 DEF ReadName
        <4>2. QED
          BY <2>2, <2>3, <4>1, AloneReaders DEF Take
      <3>3. step' = "reading" /\ result' = result /\ params' = params
        BY <1>1, <3>1 DEF ReadName
      <3>4. names' = SubSeq(ns, 1, i + 1)
        <4>1. Head(wire).text = ns[i + 1]
          BY <2>3 DEF Text
        <4>2. names' = Append(SubSeq(ns, 1, i), ns[i + 1])
          BY <1>3, <3>1, <4>1 DEF ReadName
        <4>3. SubSeq(ns, 1, i + 1) = Append(SubSeq(ns, 1, i), ns[i + 1])
          <5> HIDE DEF ns, n
          <5>1. i + 1 \in 1..Len(ns)
            BY <2>1 DEF n
          <5>2. QED
            BY <1>2, <5>1
        <4>4. QED
          BY <4>2, <4>3
      <3>5. AtName(call, answer, i + 1, O, W, names')
        BY <1>1, <3>4 DEF AtName, O, W
      <3>6. Point(call, answer, O, W, params', names')
        <4>1. \E m \in 0..n : AtName(call, answer, m, O, W, names')
          BY <1>2, <2>1, <3>5
        <4>2. params' = NoParams
          BY <1>1, <3>3
        <4>3. QED
          BY <1>1, <4>1, <4>2, Zenon DEF Point
      <3>7. QED
        BY <2>2, <2>3, <3>2, <3>3, <3>6, GoesTo
    <2>6. QED
      BY <2>2, <2>3, <2>4, <2>5 DEF Sound
  <1>7. QED
    BY <1>5, <1>6

(* At the list.                                                            *)
LEMMA ListPoint ==
    ASSUME AtList, names = <<>>, todo = <<TheList, Fields(call)>>,
           wire = ListItems(answer) \o ListAfter(answer)
    PROVE  Sound
  <1> DEFINE ns == answer.of.value
             n == Len(ns)
             A == ListAfter(answer)
             T == <<Fields(call)>>
  <1>1. /\ step = "reading" /\ call = "get_all_tables" /\ call # "get_table" /\ answer.body = "success"
        /\ params = NoParams
        /\ A \in Seq(Items) /\ T \in Seq(Readers) /\ TheList \in Readers
        /\ (answer.of.type = "names" /\ ns \in HiveTables) \/ (answer.of.type = "foreign" /\ ns = <<>>)
    BY AtListIs, ReadersAre
  <1>2. todo = <<TheList>> \o T
    BY Joined
  <1>3. TheList.reads = "list"
    BY DEF TheList
  <1>4. CASE answer.of.type = "names"
    <2> DEFINE l == ListOf("string", n)
               O == Copies(n - 0, TheName) \o T
               W == SubSeq(Spelt(ns), 0 + 1, n) \o A
    <2>1. n \in Nat /\ Spelt(ns) \in Seq(Items) /\ Len(Spelt(ns)) = n
      BY <1>1, <1>4, SpeltAre
    <2>2. O = Copies(n, TheName) \o T /\ O \in Seq(Readers)
      <3>1. n - 0 = n
        BY <2>1
      <3>2. QED
        BY <1>1, <2>1, <3>1, CopiesLeft, ReadersAre
    <2>3. W = Spelt(ns) \o A /\ W \in Seq(Items)
      <3>1. 0 + 1 = 1
        OBVIOUS
      <3>2. SubSeq(Spelt(ns), 1, n) \o A = Spelt(ns) \o A
        BY <1>1, <2>1, ItemsLeft
      <3>3. Spelt(ns) \o A \in Seq(Items)
        BY <1>1, <2>1, NestItems
      <3>4. QED
        BY <3>1, <3>2, <3>3
    <2>4. l \in Items /\ l.is = "list" /\ l.elem = "string" /\ l.size = n
      <3>1. l \in Items
        BY <2>1, ItemsAre, TypesAre
      <3>2. QED
        BY <3>1 DEF ListOf
    <2>5. wire = <<l>> \o W
      <3>1. ListItems(answer) = <<l>> \o Spelt(ns)
        BY <1>4 DEF ListItems, Spelt
      <3>2. <<l>> \in Seq(Items)
        BY <2>4, StopsAre
      <3>3. (<<l>> \o Spelt(ns)) \o A = <<l>> \o (Spelt(ns) \o A)
        <4> HIDE DEF l, A
        <4>1. QED
          BY <1>1, <2>1, <3>2, RegroupItems
      <3>4. QED
        BY <2>3, <3>1, <3>3
    <2>6. /\ todo # <<>> /\ Head(todo) = TheList /\ Tail(todo) = T
          /\ wire # <<>> /\ Head(wire) = l /\ Tail(wire) = W
      <3> HIDE DEF l, W, T
      <3>1. QED
        BY <1>1, <1>2, <2>3, <2>4, <2>5, InFront
    <2> HIDE DEF l, W, T
    <2>7. Head(wire).is = Head(todo).reads
      BY <1>3, <2>4, <2>6
    <2>8. ASSUME DecodeStep
          PROVE  Goes
      <3>1. ReadList
        BY <2>6, <2>8, WhichStep
      <3>2. Take(Copies(n, TheName)) /\ names' = <<>>
        BY <2>4, <2>6, <3>1 DEF ReadList
      <3>3. todo' = O /\ wire' = W
        BY <2>2, <2>6, <3>2 DEF Take
      <3>4. step' = "reading" /\ result' = result /\ params' = params
        BY <1>1, <3>1 DEF ReadList
      <3>5. AtName(call, answer, 0, O, W, names')
        <4>1. SubSeq(ns, 1, 0) = <<>>
          BY SubSeqEmpty
        <4>2. QED
          BY <1>4, <3>2, <4>1 DEF AtName, W, T
      <3> HIDE DEF O
      <3>6. Point(call, answer, O, W, params', names')
        <4>1. \E m \in 0..n : AtName(call, answer, m, O, W, names')
          BY <2>1, <3>5
        <4>2. params' = NoParams
          BY <1>1, <3>4
        <4>3. QED
          BY <1>1, <4>1, <4>2, Zenon DEF Point
      <3>7. QED
        BY <2>2, <2>3, <3>3, <3>4, <3>6, GoesTo
    <2>9. QED
      BY <2>6, <2>7, <2>8 DEF Sound
  <1>5. CASE answer.of.type = "foreign"
    <2> DEFINE l == ListOf("struct", 1)
               t == <<Skip("struct")>>
               s == <<Field("i32", 1), Number, Stop>>
    <2>1. l \in Items /\ l.is = "list" /\ l.elem = "struct" /\ l.size = 1
      <3>1. l \in Items
        BY ItemsAre, TypesAre
      <3>2. QED
        BY <3>1 DEF ListOf
    <2>2. s \in Seq(Items) /\ <<t, s>> \in Ways
      <3>1. Field("i32", 1) \in Items /\ Number \in Items /\ Stop \in Items
        <4>1. 1 \in 0..13
          OBVIOUS
        <4>2. QED
          BY <4>1, ItemsAre, TypesAre
      <3>2. s \in Seq(Items)
        BY <3>1, TuplesAre, Zenon
      <3>3. <<t, s>> \in Ways
        BY Zenon DEF Ways
      <3>4. QED
        BY <3>2, <3>3
    <2>3. wire = <<l>> \o (s \o A)
      <3>1. ListItems(answer) = <<l>> \o s
        BY <1>5 DEF ListItems
      <3>2. <<l>> \in Seq(Items)
        BY <2>1, StopsAre
      <3>3. (<<l>> \o s) \o A = <<l>> \o (s \o A)
        <4> HIDE DEF l, s, A
        <4>1. QED
          BY <1>1, <2>2, <3>2, RegroupItems
      <3>4. QED
        BY <3>1, <3>3
    <2>4. /\ todo # <<>> /\ Head(todo) = TheList /\ Tail(todo) = T
          /\ wire # <<>> /\ Head(wire) = l /\ Tail(wire) = s \o A
      <3> HIDE DEF l, s, T, A
      <3>1. s \o A \in Seq(Items)
        BY <1>1, <2>2, NestItems
      <3>2. QED
        BY <1>1, <1>2, <2>1, <2>3, <3>1, InFront
    <2>5. Copies(1, Skip("struct")) = t
      <3>1. [i \in 1..1 |-> Skip("struct")] = <<Skip("struct")>>
        OBVIOUS
      <3>2. QED
        BY <3>1 DEF Copies
    <2> HIDE DEF l, s, t, T
    <2>6. Head(wire).is = Head(todo).reads
      BY <1>3, <2>1, <2>4
    <2>7. ASSUME DecodeStep
          PROVE  Goes
      <3>1. ReadList
        BY <2>4, <2>7, WhichStep
      <3>2. Take(t) /\ names' = names
        BY <2>1, <2>4, <2>5, <3>1 DEF ReadList
      <3>3. todo' = t \o T /\ wire' = s \o A
        BY <2>4, <3>2 DEF Take
      <3>4. step' = "reading" /\ result' = result /\ params' = params
        BY <1>1, <3>1 DEF ReadList
      <3>5. Point(call, answer, T, A, params', names')
        <4>1. names' = ns /\ params' = NoParams
          BY <1>1, <1>5, <3>2, <3>4
        <4>2. QED
          BY <1>1, <4>1 DEF Point, T
      <3> HIDE DEF A
      <3>6. \E O \in Seq(Readers), W \in Seq(Items) : \E t1, s1 :
               /\ <<t1, s1>> \in Ways /\ todo' = t1 \o O /\ wire' = s1 \o W
               /\ Point(call, answer, O, W, params', names')
        BY <1>1, <2>2, <3>3, <3>5, Zenon
      <3>7. QED
        BY <3>4, <3>6 DEF Goes
    <2>8. QED
      BY <2>4, <2>6, <2>7 DEF Sound
  <1>6. QED
    BY <1>1, <1>4, <1>5


(* In front of the list, and of the whole result.                          *)
LEMMA ListBegins ==
    ASSUME AtList, todo = <<Fields(call)>>, names = <<>>
    PROVE  /\ wire = ListMid(answer) => Sound
           /\ wire = ListAll(answer) => Sound
  <1> DEFINE R == <<>>
             W == ListItems(answer) \o ListAfter(answer)
             B == ListMid(answer)
  <1>1. /\ step = "reading" /\ call = "get_all_tables" /\ answer.body = "success" /\ params = NoParams
        /\ answer.before \in Optional /\ call \in Owners /\ call \in Calls
        /\ ListItems(answer) \in Seq(Items) /\ ListAfter(answer) \in Seq(Items) /\ B \in Seq(Items)
    BY AtListIs
  <1>2. 0 \in 0..13 /\ 5 \in 0..13 /\ R \in Seq(Readers) /\ W \in Seq(Items)
    BY <1>1, NoReaders, NestItems
  <1>3. <<Fields(call)>> = <<Fields(call)>> \o R /\ <<TheList>> \o <<Fields(call)>> = <<TheList, Fields(call)>>
    BY Joined
  <1>4. TheList \in Readers /\ Reader(call, Field("list", 0)) = TheList /\ TheList # Fields("table")
    <2>1. TheList # Fields("table")
      BY DEF TheList, Fields
    <2>2. QED
      BY <1>1, <2>1, ReadersAre, ReaderIs
  <1>5. ASSUME wire = B
        PROVE  Sound
    <2>1. wire = <<Field("list", 0)>> \o W
      BY <1>5 DEF ListMid
    <2>2. Point(call, answer, <<TheList, Fields(call)>>, W, params, names)
      BY <1>1 DEF Point
    <2> HIDE DEF R, W
    <2>3. Point(call, answer, <<TheList>> \o (<<Fields(call)>> \o R), W,
                IF TheList = Fields("table") THEN NoParams ELSE params, names)
      BY <1>3, <1>4, <2>2
    <2>4. todo = <<Fields(call)>> \o R
      BY <1>3
    <2>5. QED
      BY <1>1, <1>2, <1>4, <2>1, <2>3, <2>4, OpenField, TypesAre
  <1>6. ASSUME wire = ListAll(answer)
        PROVE  Sound
    <2>1. wire = FieldOf(answer.before, 5) \o B
      BY <1>6 DEF ListAll
    <2>2. \A type \in Types : Reader(call, Field(type, 5)) = Skip(type)
      BY <1>1, <1>2, OthersAreSkipped
    <2>3. Point(call, answer, <<Fields(call)>>, B, params, names)
      BY <1>1 DEF Point
    <2> HIDE DEF R, B
    <2>4. todo = <<Fields(call)>> \o R /\ Point(call, answer, <<Fields(call)>> \o R, B, params, names)
      BY <1>3, <2>3
    <2>5. QED
      BY <1>1, <1>2, <1>5, <2>1, <2>2, <2>4, OptionalField
  <1>7. QED
    BY <1>5, <1>6

(* In front of the result.                                                 *)
LEMMA ResultPoint ==
    ASSUME step = "reading", call \in Calls, answer \in Answers(call),
           answer.body \notin {"exception", "misnamed"},
           todo = <<Fields(call)>>, wire = ResultItems(call, answer), params = NoParams, names = <<>>
    PROVE  Sound
  <1> DEFINE R == <<>>
             X == ExceptionAll(answer)
  <1>1. /\ call \in Owners /\ R \in Seq(Readers) /\ todo = <<Fields(call)>> \o R
        /\ 0 \in 0..13 /\ 1 \in 0..13 /\ 2 \in 0..13 /\ X \in Seq(Items)
    BY OwnersAre, NoReaders, Joined, ExceptionPartsAre
  <1>2. answer.body \in {"empty", "MetaException", "NoSuchObject", "success"}
    BY AnswerIs
  <1>3. \A r : <<r>> \o (<<Fields(call)>> \o R) = <<r, Fields(call)>>
    BY Joined
  <1>4. CASE answer.body = "empty"
    <2>1. wire = <<Stop>> /\ answer.of.value = NoParams
      BY <1>4, ResultIs, AnswerIs DEF NoValue
    <2>2. names = answer.of.value
      BY <2>1 DEF NoParams
    <2>3. QED
      BY <1>4, <2>1, <2>2, LastStop
  <1>5. ASSUME NEW e \in {"MetaException", "NoSuchObject"}, answer.body = e,
               NEW id \in {1, 2}, wire = <<Field("struct", id)>> \o X,
               Reader(call, Field("struct", id)) = Fields(e)
        PROVE  Sound
    <2>1. Fields(e) \in Readers /\ Fields(e) # Fields("table")
      <3>1. Fields(e).of = e /\ Fields("table").of = "table"
        BY DEF Fields
      <3>2. QED
        BY <3>1, OwnersAre, ReadersAre
    <2>2. Point(call, answer, <<Fields(e), Fields(call)>>, X, params, names)
      BY <1>5 DEF Point
    <2> HIDE DEF R, X
    <2>3. Point(call, answer, <<Fields(e)>> \o (<<Fields(call)>> \o R), X,
                IF Fields(e) = Fields("table") THEN NoParams ELSE params, names)
      BY <1>3, <2>1, <2>2
    <2>4. id \in 0..13
      OBVIOUS
    <2>5. QED
      BY <1>1, <1>5, <2>1, <2>3, <2>4, OpenField, TypesAre
  <1>6. CASE answer.body = "MetaException"
    <2>1. wire = <<Field("struct", 1)>> \o X /\ Reader(call, Field("struct", 1)) = Fields("MetaException")
      BY <1>6, ResultIs, ReaderIs
    <2> HIDE DEF X
    <2>2. QED
      BY <1>5, <1>6, <2>1
  <1>7. CASE answer.body = "NoSuchObject"
    <2>1. call = "get_table"
      BY <1>7, AnswerIs
    <2>2. wire = <<Field("struct", 2)>> \o X /\ Reader(call, Field("struct", 2)) = Fields("NoSuchObject")
      BY <1>7, <2>1, ResultIs, ReaderIs
    <2> HIDE DEF X
    <2>3. QED
      BY <1>5, <1>7, <2>2
  <1>8. CASE answer.body = "success" /\ call = "get_table"
    <2> DEFINE W == TableAll(answer)
    <2>1. wire = <<Field("struct", 0)>> \o W /\ Reader(call, Field("struct", 0)) = Fields("table")
      BY <1>8, ResultIs, ReaderIs
    <2>2. W \in Seq(Items)
      BY <1>8, TablePartsAre
    <2>3. Fields("table") \in Readers
      BY OwnersAre, ReadersAre
    <2>4. Point(call, answer, InTable(call), W, NoParams, names)
      BY <1>8 DEF Point
    <2> HIDE DEF R, W
    <2>5. Point(call, answer, <<Fields("table")>> \o (<<Fields(call)>> \o R), W,
                IF Fields("table") = Fields("table") THEN NoParams ELSE params, names)
      BY <1>3, <2>4 DEF InTable
    <2>6. QED
      BY <1>1, <2>1, <2>2, <2>3, <2>5, OpenField, TypesAre
  <1>9. CASE answer.body = "success" /\ call = "get_all_tables"
    <2>1. wire = ListAll(answer)
      BY <1>9, ResultIs
    <2>2. AtList
      BY <1>9 DEF AtList
    <2>3. QED
      BY <2>1, <2>2, ListBegins
  <1>10. QED
    BY <1>2, <1>4, <1>6, <1>7, <1>8, <1>9 DEF Calls

(* The whole reply.                                                        *)
RestOf(c, a) == IF a.body \in {"exception", "misnamed"} THEN <<>> ELSE ResultItems(c, a)

LEMMA ReplyIs ==
    ASSUME NEW c \in Calls, NEW a \in Answers(c)
    PROVE  /\ [is |-> "message", body |-> a.body] \in Items
           /\ RestOf(c, a) \in Seq(Items)
           /\ ReplyItems(c, a) = <<[is |-> "message", body |-> a.body]>> \o RestOf(c, a)
           /\ ReplyItems(c, a) \in Seq(Items)
  <1> DEFINE m == [is |-> "message", body |-> a.body]
             W == RestOf(c, a)
  <1>1. m \in Items
    BY AnswerIs DEF Items
  <1>2. W \in Seq(Items)
    <2>1. CASE a.body \in {"exception", "misnamed"}
      BY <2>1, TuplesAre DEF RestOf
    <2>2. CASE a.body \notin {"exception", "misnamed"}
      BY <2>2, ResultIs DEF RestOf
    <2>3. QED
      BY <2>1, <2>2
  <1>3. ReplyItems(c, a) = <<m>> \o W
    BY DEF ReplyItems, RestOf
  <1> HIDE DEF m, W
  <1>4. <<m>> \o W \in Seq(Items)
    BY <1>1, <1>2, StopsAre, NestItems
  <1>5. QED
    BY <1>1, <1>2, <1>3, <1>4 DEF m, W

LEMMA MessagePoint ==
    ASSUME step = "reading", call \in Calls, answer \in Answers(call),
           todo = <<Message>>, wire = ReplyItems(call, answer), params = NoParams, names = <<>>
    PROVE  Sound
  <1> DEFINE m == [is |-> "message", body |-> answer.body]
             W == RestOf(call, answer)
             O == <<Fields(call)>>
  <1>1. /\ Message \in Readers /\ <<>> \in Seq(Readers) /\ todo = <<Message>> \o <<>>
        /\ m \in Items /\ W \in Seq(Items) /\ wire = <<m>> \o W
    BY ReadersAre, NoReaders, Joined, ReplyIs
  <1>2. m.is = "message" /\ m.body = answer.body /\ Message.reads = "message"
    BY DEF Message
  <1> HIDE DEF m, W
  <1>3. /\ todo # <<>> /\ Head(todo) = Message /\ Tail(todo) = <<>>
        /\ wire # <<>> /\ Head(wire) = m /\ Tail(wire) = W
    BY <1>1, InFront
  <1>4. Head(wire).is = Head(todo).reads
    BY <1>2, <1>3
  <1>5. ASSUME DecodeStep
        PROVE  Goes
    <2>1. ReadMessageBegin
      BY <1>3, <1>5, WhichStep
    <2>2. CASE answer.body \in {"exception", "misnamed"}
      <3>1. Return(Error)
        BY <1>2, <1>3, <2>1, <2>2 DEF ReadMessageBegin
      <3>2. Meaning = Error
        BY <2>2 DEF Meaning
      <3>3. QED
        BY <3>1, <3>2 DEF Return, Goes
    <2>3. CASE answer.body \notin {"exception", "misnamed"}
      <3>1. UNCHANGED <<step, result, params, names>>
        BY <1>2, <1>3, <2>1, <2>3 DEF ReadMessageBegin
      <3>2. todo' = O /\ wire' = W
        BY <1>3, <2>1, Joined DEF ReadMessageBegin, Take
      <3>3. Point(call, answer, O, W, params', names')
        BY <2>3, <3>1 DEF Point, W, RestOf
      <3>4. O \in Seq(Readers)
        BY InTableIs
      <3> HIDE DEF O
      <3>5. QED
        BY <1>1, <3>1, <3>2, <3>3, <3>4, GoesTo
    <2>4. QED
      BY <2>2, <2>3
  <1>6. QED
    BY <1>3, <1>4, <1>5 DEF Sound

(* Every point is sound.                                                   *)
LEMMA PointIsSound ==
    ASSUME step = "reading", call \in Calls, answer \in Answers(call),
           Point(call, answer, todo, wire, params, names)
    PROVE  Sound
  <1> DEFINE n == Len(KeysOf(answer.of.value))
  <1>1. CASE todo = <<Message>> /\ wire = ReplyItems(call, answer) /\ params = NoParams /\ names = <<>>
    BY <1>1, MessagePoint
  <1>2. CASE /\ answer.body \notin {"exception", "misnamed"}
             /\ todo = <<Fields(call)>> /\ wire = ResultItems(call, answer) /\ params = NoParams /\ names = <<>>
    BY <1>2, ResultPoint
  <1>3. CASE /\ answer.body \in {"success", "empty"}
             /\ todo = <<Fields(call)>> /\ wire = <<Stop>>
             /\ call = "get_table" => params = answer.of.value
             /\ call = "get_all_tables" => names = answer.of.value /\ params = NoParams
    BY <1>3, LastStop
  <1>4. CASE /\ answer.body \in {"MetaException", "NoSuchObject"} /\ params = NoParams
             /\ todo = <<Fields(answer.body), Fields(call)>>
             /\ wire \in {ExceptionAll(answer), ExceptionMid(answer), ExceptionAfter(answer), <<Stop, Stop>>}
    <2>1. todo = <<Fields(answer.body)>> \o <<Fields(call)>>
      BY <1>4, Joined
    <2>2. QED
      BY <1>4, <2>1, ExceptionPoints, ExceptionEnds
  <1>5. ASSUME answer.body = "success", call = "get_table",
               \/ todo = InTable(call) /\ wire \in {TableAll(answer), TableMid(answer)} /\ params = NoParams
               \/ todo = InTable(call) /\ wire \in {TableAfter(answer), <<Stop, Stop>>} /\ params = answer.of.value
               \/ /\ todo = <<TheMap>> \o InTable(call) /\ wire = Value("map") \o TableAfter(answer)
                  /\ params = NoParams /\ answer.of.type = "foreign"
               \/ /\ todo = <<TheMap>> \o InTable(call) /\ answer.of.type = "params" /\ params = NoParams
                  /\ wire = <<MapOf("string", "string", n)>> \o (Pairs(answer.of.value) \o TableAfter(answer))
               \/ \E i \in 0..n : AtKey(call, answer, i, todo, wire, params)
               \/ \E i \in 1..n : AtValue(call, answer, i, todo, wire, params)
        PROVE  Sound
    <2>1. AtTable
      BY <1>5 DEF AtTable
    <2>2. CASE todo = InTable(call) /\ wire \in {TableAll(answer), TableMid(answer)} /\ params = NoParams
      BY <2>1, <2>2, TableBegins
    <2>3. CASE todo = InTable(call) /\ wire \in {TableAfter(answer), <<Stop, Stop>>} /\ params = answer.of.value
      BY <2>1, <2>3, TableGoesOn, TableEnds
    <2>4. CASE /\ todo = <<TheMap>> \o InTable(call) /\ wire = Value("map") \o TableAfter(answer)
               /\ params = NoParams /\ answer.of.type = "foreign"
      BY <2>1, <2>4, ForeignMapPoint
    <2>5. CASE /\ todo = <<TheMap>> \o InTable(call) /\ answer.of.type = "params" /\ params = NoParams
               /\ wire = <<MapOf("string", "string", n)>> \o (Pairs(answer.of.value) \o TableAfter(answer))
      BY <2>1, <2>5, MapPoint
    <2>6. CASE \E i \in 0..n : AtKey(call, answer, i, todo, wire, params)
      BY <2>1, <2>6, KeyPoint
    <2>7. CASE \E i \in 1..n : AtValue(call, answer, i, todo, wire, params)
      BY <2>1, <2>7, ValuePoint
    <2>8. QED
      BY <1>5, <2>2, <2>3, <2>4, <2>5, <2>6, <2>7
  <1>6. ASSUME answer.body = "success", call = "get_all_tables", params = NoParams,
               \/ todo = <<Fields(call)>> /\ wire \in {ListAll(answer), ListMid(answer)} /\ names = <<>>
               \/ todo = <<Fields(call)>> /\ wire = ListAfter(answer) /\ names = answer.of.value
               \/ todo = <<TheList, Fields(call)>> /\ wire = ListItems(answer) \o ListAfter(answer) /\ names = <<>>
               \/ \E i \in 0..Len(answer.of.value) : AtName(call, answer, i, todo, wire, names)
        PROVE  Sound
    <2>1. AtList
      BY <1>6 DEF AtList
    <2>2. CASE todo = <<Fields(call)>> /\ wire \in {ListAll(answer), ListMid(answer)} /\ names = <<>>
      BY <2>1, <2>2, ListBegins
    <2>3. CASE todo = <<Fields(call)>> /\ wire = ListAfter(answer) /\ names = answer.of.value
      BY <2>1, <2>3, ListGoesOn
    <2>4. CASE todo = <<TheList, Fields(call)>> /\ wire = ListItems(answer) \o ListAfter(answer) /\ names = <<>>
      BY <2>1, <2>4, ListPoint
    <2>5. CASE \E i \in 0..Len(answer.of.value) : AtName(call, answer, i, todo, wire, names)
      BY <2>1, <2>5, NamePoint
    <2>6. QED
      BY <1>6, <2>2, <2>3, <2>4, <2>5
  <1>7. QED
    BY <1>1, <1>2, <1>3, <1>4, <1>5, <1>6, Zenon DEF Point


-----------------------------------------------------------------------------
(* What goes along with a point: the parameters are parameters, and a      *)
(* reader of NoSuchObjectException waits only if the server sent one.      *)
LEMMA PointHasParams ==
    ASSUME NEW c \in Calls, NEW a \in Answers(c), NEW O, NEW W, NEW P, NEW N, Point(c, a, O, W, P, N)
    PROVE  P \in Params
  <1>1. NoParams \in Params
    BY DEF Params
  <1>2. a.body = "success" /\ c = "get_table" => a.of.value \in Params
    BY <1>1, AnswerIs
  <1>3. a.body = "empty" => a.of.value = NoParams
    BY AnswerIs DEF NoValue
  <1>4. CASE /\ a.body \in {"success", "empty"}
             /\ c = "get_table" => P = a.of.value
             /\ c = "get_all_tables" => N = a.of.value /\ P = NoParams
    BY <1>1, <1>2, <1>3, <1>4 DEF Calls
  <1>5. CASE P = NoParams
    BY <1>1, <1>5
  <1>6. CASE a.body = "success" /\ c = "get_table" /\ P = a.of.value
    BY <1>2, <1>6
  <1>7. ASSUME a.body = "success", c = "get_table", a.of.type = "params",
               NEW i \in 0..Len(KeysOf(a.of.value)), P = FirstOf(a.of.value, i)
        PROVE  P \in Params
    BY <1>2, <1>7, FirstOfAre
  <1>8. CASE a.body = "success" /\ c = "get_table" /\ \E i \in 0..Len(KeysOf(a.of.value)) : AtKey(c, a, i, O, W, P)
    BY <1>7, <1>8 DEF AtKey
  <1>9. CASE a.body = "success" /\ c = "get_table" /\ \E i \in 1..Len(KeysOf(a.of.value)) : AtValue(c, a, i, O, W, P)
    <2>1. PICK i \in 1..Len(KeysOf(a.of.value)) : AtValue(c, a, i, O, W, P)
      BY <1>9
    <2>2. Len(KeysOf(a.of.value)) \in Nat
      BY <1>2, <1>9, KeysOfAre
    <2>3. i - 1 \in 0..Len(KeysOf(a.of.value))
      BY <2>2
    <2>4. QED
      BY <1>7, <1>9, <2>1, <2>3 DEF AtValue
  <1>10. QED
    BY <1>4, <1>5, <1>6, <1>8, <1>9, Zenon DEF Point

Others == {r \in Readers : r.of # "NoSuchObject"}

LEMMA OthersAre ==
    /\ \A o \in Owners \ {"NoSuchObject"} : Fields(o) \in Others
    /\ {TheMap, TheList, TheKey, TheName, Message} \subseteq Others
    /\ \A k \in Texts : TheValue(k) \in Others
    /\ Skips \subseteq Others /\ Fields("NoSuchObject") \notin Others
  <1>1. ASSUME NEW o \in Owners \ {"NoSuchObject"}
        PROVE  Fields(o) \in Others
    BY ReadersAre, ReadersDiffer DEF Others
  <1>2. {TheMap, TheList, TheKey, TheName, Message} \subseteq Others
    BY ReadersAre, ReadersDiffer DEF Others
  <1>3. ASSUME NEW k \in Texts
        PROVE  TheValue(k) \in Others
    BY ReadersAre, ReadersDiffer DEF Others
  <1>4. ASSUME NEW type \in Types
        PROVE  Skip(type) \in Others
    BY ReadersAre, ReadersDiffer DEF Others
  <1>5. Fields("NoSuchObject") \notin Others
    BY ReadersDiffer DEF Others
  <1>6. QED
    BY <1>1, <1>2, <1>3, <1>4, <1>5 DEF Skips

LEMMA PointHasOthers ==
    ASSUME NEW c \in Calls, NEW a \in Answers(c), NEW O, NEW W, NEW P, NEW N, Point(c, a, O, W, P, N),
           a.body # "NoSuchObject"
    PROVE  O \in Seq(Others)
  <1> DEFINE S == Others
             n == Len(KeysOf(a.of.value))
  <1> SUFFICES O \in Seq(S)
    OBVIOUS
  <1>1. /\ Fields(c) \in S /\ Fields("table") \in S /\ Fields("MetaException") \in S
        /\ TheMap \in S /\ TheList \in S /\ TheKey \in S /\ TheName \in S /\ Message \in S
    <2>1. c \in Owners \ {"NoSuchObject"} /\ "table" \in Owners \ {"NoSuchObject"}
          /\ "MetaException" \in Owners \ {"NoSuchObject"}
      BY OwnersAre DEF Calls
    <2>2. QED
      BY <2>1, OthersAre
  <1>2. \A k \in Texts : TheValue(k) \in S
    BY OthersAre
  <1> HIDE DEF S
  <1>3. InTable(c) \in Seq(S) /\ <<Fields(c)>> \in Seq(S) /\ <<Message>> \in Seq(S) /\ <<TheList, Fields(c)>> \in Seq(S)
    BY <1>1, TuplesAre DEF InTable
  <1>4. <<TheMap>> \o InTable(c) \in Seq(S)
    BY <1>1, <1>3, FrontOf
  <1>5. CASE a.body \in {"MetaException", "NoSuchObject"} /\ O = <<Fields(a.body), Fields(c)>>
    <2>1. O = <<Fields("MetaException"), Fields(c)>>
      BY <1>5
    <2>2. QED
      BY <1>1, <2>1, TuplesAre DEF S
  <1>6. ASSUME NEW m \in Nat, NEW r \in S, NEW T \in Seq(S)
        PROVE  Copies(m, r) \o T \in Seq(S)
    <2> DEFINE C == Copies(m, r)
    <2>1. C \in Seq(S)
      BY CopiesAre
    <2> HIDE DEF C
    <2>2. C \o T \in Seq(S)
      BY <2>1
    <2>3. QED
      BY <2>2 DEF C
  <1>7. CASE /\ a.body = "success" /\ c = "get_table"
             /\ \/ \E i \in 0..n : AtKey(c, a, i, O, W, P)
                \/ \E i \in 1..n : AtValue(c, a, i, O, W, P)
    <2>1. a.of.type = "params"
      BY <1>7 DEF AtKey, AtValue
    <2>2. a.of.value \in Params
      BY <1>7, <2>1, AnswerIs
    <2>3. n \in Nat /\ KeysOf(a.of.value) \in [1..n -> DOMAIN a.of.value]
      BY <2>2, KeysOfAre
    <2>4. ASSUME NEW i \in 0..n, AtKey(c, a, i, O, W, P)
          PROVE  O \in Seq(S)
      <3>1. n - i \in Nat
        <4> HIDE DEF n
        <4>1. QED
          BY <2>3
      <3>2. O = Copies(n - i, TheKey) \o InTable(c)
        BY <2>4 DEF AtKey
      <3>3. QED
        BY <1>1, <1>3, <1>6, <3>1, <3>2
    <2>5. ASSUME NEW i \in 1..n, AtValue(c, a, i, O, W, P)
          PROVE  O \in Seq(S)
      <3> DEFINE k == KeysOf(a.of.value)[i]
                 D == Copies(n - i, TheKey) \o InTable(c)
      <3>1. n - i \in Nat
        <4> HIDE DEF n
        <4>1. QED
          BY <2>3
      <3>2. O = <<TheValue(k)>> \o D
        BY <2>5 DEF AtValue
      <3>3. D \in Seq(S)
        BY <1>1, <1>3, <1>6, <3>1
      <3>4. TheValue(k) \in S
        <4>1. k \in DOMAIN a.of.value /\ DOMAIN a.of.value \subseteq Keys
          BY <2>2, <2>3, ParamsAre
        <4>2. QED
          BY <1>2, <4>1 DEF Texts
      <3> HIDE DEF k, D
      <3>5. QED
        BY <3>2, <3>3, <3>4, FrontOf
    <2>6. QED
      BY <1>7, <2>4, <2>5
  <1>8. CASE /\ a.body = "success" /\ c = "get_all_tables"
             /\ \E i \in 0..Len(a.of.value) : AtName(c, a, i, O, W, N)
    <2>1. PICK i \in 0..Len(a.of.value) : AtName(c, a, i, O, W, N)
      BY <1>8
    <2>2. a.of.type = "names" /\ O = Copies(Len(a.of.value) - i, TheName) \o <<Fields(c)>>
      BY <2>1 DEF AtName
    <2>3. a.of.value \in HiveTables
      BY <1>8, <2>2, AnswerIs
    <2>4. Len(a.of.value) - i \in Nat
      <3> DEFINE m == Len(a.of.value)
      <3>1. m \in Nat /\ i \in 0..m
        BY <2>3, SpeltAre
      <3> HIDE DEF m
      <3>2. m - i \in Nat
        BY <3>1
      <3>3. QED
        BY <3>2 DEF m
    <2>5. QED
      BY <1>1, <1>3, <1>6, <2>2, <2>4
  <1>9. CASE \/ O = <<Message>> \/ O = <<Fields(c)>> \/ O = InTable(c)
             \/ O = <<TheMap>> \o InTable(c) \/ O = <<TheList, Fields(c)>>
    BY <1>3, <1>4, <1>9
  <1>10. QED
    BY <1>5, <1>7, <1>8, <1>9, Zenon DEF Point

(* The invariant of the decoder: while a reply is read, the readers are a  *)
(* value that is being skipped and a point, and so are the items.          *)
Aligned ==
    /\ answer \in Answers(call) /\ result = Error
    /\ \E O \in Seq(Readers), W \in Seq(Items) : \E t, s :
          /\ <<t, s>> \in Ways /\ todo = t \o O /\ wire = s \o W
          /\ Point(call, answer, O, W, params, names)
HiveInv ==
    /\ call \in Calls /\ step \in {"idle", "connected", "sent", "reading", "done"}
    /\ params \in Params /\ broken \in BOOLEAN
    /\ step \in {"idle", "connected", "sent"} =>
          answer = NoAnswer /\ params = NoParams /\ names = <<>> /\ result = Error
    /\ step = "reading" => Aligned
    /\ step = "done" => \/ answer = NoAnswer /\ result = Error
                        \/ answer \in Answers(call) /\ (result = Meaning \/ (broken /\ result = Error))

(* Nothing being skipped leaves nothing to be skipped.                     *)
LEMMA NothingElse ==
    ASSUME NEW t, NEW s, <<t, s>> \in Ways, t = <<>>
    PROVE  s = <<>>
  <1>1. \A a, b, c, d : t # <<a>> /\ t # <<a, b>> /\ t # <<a, b, c>> /\ t # <<a, b, c, d>>
    BY Taken1, Taken2, Taken3, Taken4
  <1>2. QED
    BY <1>1, PairsEqual, Zenon DEF Ways

LEMMA AloneItems == \A W \in Seq(Items) : <<>> \o W = W
  <1> DEFINE S == Items
  <1> HIDE DEF S
  <1>1. \A W \in Seq(S) : <<>> \o W = W
    OBVIOUS
  <1>2. QED
    BY <1>1 DEF S

(* A step that ends the call leaves the parameters alone.                  *)
LEMMA EndKeepsParams ==
    ASSUME DecodeStep, step = "reading", step' = "done"
    PROVE  params' = params
  BY DEF DecodeStep, ReadMessageBegin, ReadMap, ReadKey, ReadList, ReadName, ReadField, ReadStop,
         ReadValue, SkipItem

LEMMA AlignedIsSound ==
    ASSUME HiveInv, step = "reading"
    PROVE  Sound
  <1>1. call \in Calls /\ answer \in Answers(call)
    BY DEF HiveInv, Aligned
  <1>2. PICK O \in Seq(Readers), W \in Seq(Items) : \E t, s :
           /\ <<t, s>> \in Ways /\ todo = t \o O /\ wire = s \o W
           /\ Point(call, answer, O, W, params, names)
    BY DEF HiveInv, Aligned
  <1>3. PICK t, s : /\ <<t, s>> \in Ways /\ todo = t \o O /\ wire = s \o W
                    /\ Point(call, answer, O, W, params, names)
    BY <1>2
  <1>4. CASE t # <<>>
    BY <1>3, <1>4, SkipPoint
  <1>5. CASE t = <<>>
    <2>1. s = <<>>
      BY <1>3, <1>5, NothingElse
    <2>2. todo = O /\ wire = W
      BY <1>3, <1>5, <2>1, AloneReaders, AloneItems
    <2>3. Point(call, answer, todo, wire, params, names)
      BY <1>3, <2>2
    <2>4. QED
      BY <1>1, <2>3, PointIsSound
  <1>6. QED
    BY <1>4, <1>5

(* A reply that breaks off once NoSuchObjectException has begun.           *)
LEMMA BrokenReply ==
    ASSUME HiveInv, step = "reading", Fields("NoSuchObject") \in Range(todo)
    PROVE  Meaning = NotFound
  <1>1. call \in Calls /\ answer \in Answers(call)
    BY DEF HiveInv, Aligned
  <1>2. CASE answer.body = "NoSuchObject"
    BY <1>2 DEF Meaning
  <1>3. CASE answer.body # "NoSuchObject"
    <2>1. PICK O \in Seq(Readers), W \in Seq(Items) : \E t, s :
             /\ <<t, s>> \in Ways /\ todo = t \o O /\ wire = s \o W
             /\ Point(call, answer, O, W, params, names)
      BY DEF HiveInv, Aligned
    <2>2. PICK t, s : /\ <<t, s>> \in Ways /\ todo = t \o O
                      /\ Point(call, answer, O, W, params, names)
      BY <2>1
    <2> DEFINE S == Others
    <2>3. t \in Seq(S)
      BY <2>2, WaysSkip, OthersAre, LargerSeq
    <2>4. O \in Seq(S)
      BY <1>1, <1>3, <2>2, PointHasOthers
    <2> HIDE DEF S
    <2>5. todo \in Seq(S)
      BY <2>2, <2>3, <2>4
    <2>6. Range(todo) \subseteq S
      BY <2>5 DEF Range
    <2>7. QED
      BY <2>6, OthersAre DEF S
  <1>4. QED
    BY <1>2, <1>3

LEMMA HiveInitInv == HiveInit => HiveInv
  <1>1. NoParams \in Params
    BY DEF Params
  <1>2. QED
    BY <1>1 DEF HiveInit, HiveInv

LEMMA ReplyInv ==
    ASSUME HiveInv, Reply
    PROVE  HiveInv'
  <1>1. /\ step = "sent" /\ step' = "reading" /\ answer' \in Answers(call)
        /\ wire' = ReplyItems(call, answer') /\ todo' = <<Message>>
        /\ UNCHANGED <<call, params, names, broken, result>>
    BY DEF Reply
  <1>2. call \in Calls /\ params = NoParams /\ names = <<>> /\ result = Error /\ broken \in BOOLEAN /\ params \in Params
    BY <1>1 DEF HiveInv
  <1> DEFINE W == ReplyItems(call, answer')
             O == <<Message>>
  <1>3. O \in Seq(Readers)
    BY ReadersAre, TuplesAre
  <1>4. W \in Seq(Items)
    BY <1>1, <1>2, ReplyIs
  <1>5. Point(call', answer', O, W, params', names')
    BY <1>1, <1>2 DEF Point
  <1> HIDE DEF O, W
  <1>6. todo' = <<>> \o O /\ wire' = <<>> \o W
    BY <1>1, <1>3, <1>4, AloneReaders, AloneItems DEF O, W
  <1>7. \E O1 \in Seq(Readers), W1 \in Seq(Items) : \E t, s :
          /\ <<t, s>> \in Ways /\ todo' = t \o O1 /\ wire' = s \o W1
          /\ Point(call', answer', O1, W1, params', names')
    BY <1>3, <1>4, <1>5, <1>6, NothingLeft, Zenon
  <1>8. Aligned'
    BY <1>1, <1>2, <1>7 DEF Aligned
  <1>9. QED
    BY <1>1, <1>2, <1>8 DEF HiveInv

LEMMA BreakInv ==
    ASSUME HiveInv, ConnectionBreaks
    PROVE  HiveInv'
  <1>1. /\ step = "reading" /\ step' = "done" /\ broken' = TRUE
        /\ result' = (IF Fields("NoSuchObject") \in Range(todo) THEN NotFound ELSE Error)
        /\ UNCHANGED <<call, answer, params>>
    BY DEF ConnectionBreaks, Return
  <1>2. call \in Calls /\ answer \in Answers(call) /\ params \in Params
    BY <1>1 DEF HiveInv, Aligned
  <1>3. Meaning' = Meaning
    BY <1>1 DEF Meaning
  <1>4. result' = Meaning' \/ result' = Error
    BY <1>1, <1>3, BrokenReply
  <1>5. QED
    BY <1>1, <1>2, <1>4 DEF HiveInv

LEMMA DecodeInv ==
    ASSUME HiveInv, DecodeStep
    PROVE  HiveInv'
  <1>1. step = "reading" /\ UNCHANGED <<call, answer, broken>>
    <2>1. step = "reading"
      BY DEF DecodeStep, ReadMessageBegin, ReadMap, ReadKey, ReadList, ReadName, ReadField, ReadStop,
             ReadValue, SkipItem, Reads
    <2>2. UNCHANGED <<call, answer, broken>>
      BY DEF DecodeStep, ReadMessageBegin, ReadMap, ReadKey, ReadList, ReadName, ReadField, ReadStop,
             ReadValue, SkipItem
    <2>3. QED
      BY <2>1, <2>2
  <1>2. call \in Calls /\ answer \in Answers(call) /\ params \in Params /\ broken \in BOOLEAN /\ result = Error
    BY <1>1 DEF HiveInv, Aligned
  <1>3. Goes
    BY <1>1, AlignedIsSound DEF Sound
  <1>4. CASE step' = "done" /\ result' = Meaning
    <2>1. Meaning' = Meaning
      BY <1>1 DEF Meaning
    <2>2. params' \in Params
      BY <1>1, <1>2, <1>4, EndKeepsParams
    <2>3. QED
      BY <1>1, <1>2, <1>4, <2>1, <2>2 DEF HiveInv
  <1>5. CASE /\ step' = "reading" /\ result' = result
             /\ \E O \in Seq(Readers), W \in Seq(Items) : \E t, s :
                   /\ <<t, s>> \in Ways /\ todo' = t \o O /\ wire' = s \o W
                   /\ Point(call, answer, O, W, params', names')
    <2>1. PICK O \in Seq(Readers), W \in Seq(Items) : Point(call, answer, O, W, params', names')
      BY <1>5
    <2>2. params' \in Params
      BY <1>2, <2>1, PointHasParams
    <2>3. Aligned'
      BY <1>1, <1>2, <1>5, Zenon DEF Aligned
    <2>4. QED
      BY <1>1, <1>2, <1>5, <2>2, <2>3 DEF HiveInv
  <1>6. QED
    BY <1>3, <1>4, <1>5 DEF Goes

LEMMA HiveNextInv == HiveInv /\ [HiveNext]_hiveVars => HiveInv'
  <1> SUFFICES ASSUME HiveInv, [HiveNext]_hiveVars
               PROVE  HiveInv'
    OBVIOUS
  <1>1. CASE Dial \/ SendRequest \/ CallFails
    BY <1>1 DEF HiveInv, Dial, SendRequest, CallFails
  <1>2. CASE Reply
    BY <1>2, ReplyInv
  <1>3. CASE ConnectionBreaks
    BY <1>3, BreakInv
  <1>4. CASE DecodeStep
    BY <1>4, DecodeInv
  <1>5. CASE UNCHANGED hiveVars
    BY <1>5 DEF hiveVars, HiveInv, Aligned, Meaning
  <1>6. QED
    BY <1>1, <1>2, <1>3, <1>4, <1>5 DEF HiveNext, DecodeStep

LEMMA HiveInvImplies == HiveInv => HiveTypeOK /\ ReplyUnderstood
  <1> SUFFICES ASSUME HiveInv
               PROVE  HiveTypeOK /\ ReplyUnderstood
    OBVIOUS
  <1>1. step = "reading" => wire # <<>> /\ todo # <<>> /\ Head(wire).is = Head(todo).reads
    BY AlignedIsSound DEF Sound
  <1>2. step = "done" /\ answer # NoAnswer => result = Meaning \/ (broken /\ result = Error)
    BY DEF HiveInv
  <1>3. Meaning \in {Error, NotFound} \/ Meaning.status = "ok"
    <2>1. \A p : Entry(p) = Error \/ Entry(p).status = "ok"
      BY DEF Entry
    <2>2. \A ns : Listing(ns).status = "ok"
      BY DEF Listing
    <2>3. Meaning \in {Entry(answer.of.value), Listing(answer.of.value), NotFound, Error}
      BY DEF Meaning
    <2>4. QED
      BY <2>1, <2>2, <2>3
  <1>4. result = Error \/ (step = "done" /\ result = Meaning)
    BY DEF HiveInv, Aligned
  <1>5. answer \in Answers(call) \cup {NoAnswer}
    BY DEF HiveInv, Aligned
  <1>6. HiveTypeOK
    <2>1. result \in {Error, NotFound} \/ result.status = "ok"
      BY <1>3, <1>4
    <2>2. QED
      BY <1>5, <2>1 DEF HiveInv, HiveTypeOK
  <1>7. QED
    BY <1>1, <1>2, <1>6 DEF ReplyUnderstood

-----------------------------------------------------------------------------
(* The catalogs together: the one that is selected takes the steps.        *)

ServedInv == catalog \in Kinds /\ ListingInv /\ TreeInv /\ HiveInv

LEMMA ServedInitInv == Init => ServedInv
  BY ListingInitInv, TreeInitInv, HiveInitInv DEF Init, ServedInv

LEMMA OneCatalogSteps == [Next]_vars => [ListingNext]_listingVars /\ [TreeNext]_treeVars /\ [HiveNext]_hiveVars
  BY DEF Next, Served, Local, Called, vars

LEMMA ServedNextInv == ServedInv /\ [Next]_vars => ServedInv'
  <1> SUFFICES ASSUME ServedInv, [Next]_vars
               PROVE  ServedInv'
    OBVIOUS
  <1>1. ListingInv' /\ TreeInv' /\ HiveInv'
    BY OneCatalogSteps, ListingNextInv, TreeNextInv, HiveNextInv DEF ServedInv
  <1>2. catalog' = catalog
    <2>1. ASSUME ListingNext
          PROVE  catalog' = catalog
      BY <2>1 DEF ListingNext, Start, ReadFails, ReadPage, Load, Change
    <2>2. QED
      BY <2>1, OneCatalogSteps DEF listingVars
  <1>3. QED
    BY <1>1, <1>2 DEF ServedInv

LEMMA ServedInductive == Spec => []ServedInv
  <1>1. QED
    BY ServedInitInv, ServedNextInv, PTL DEF Spec

(* A finished listing of Glue or REST (glue.go:106, rest.go:192) has every *)
(* Iceberg table that was there from beginning to end, unless REST had     *)
(* more pages, and nothing that never was one.                             *)
THEOREM ListingsAreExact == Spec => []ListingIsExact
  <1>1. ServedInv => ListingIsExact
    BY ListingInvImplies DEF ServedInv
  <1>2. QED
    BY <1>1, ServedInductive, PTL

(* A listed table that LoadTable does not find (catalog.go:17) was dropped *)
(* since the listing began.                                                *)
THEOREM NotFoundWasDropped == Spec => []NotFoundMeansDropped
  <1>1. ServedInv => NotFoundMeansDropped
    BY ListingInvImplies DEF ServedInv
  <1>2. QED
    BY <1>1, ServedInductive, PTL

(* LoadTable of localfs (localfs.go:19) takes the highest version while    *)
(* the numbers in the directory are equally long, whatever is published or *)
(* cleaned up meanwhile.                                                   *)
THEOREM LoadsHighestNumbered == Spec => HighestNumbered
  <1>1. TreeInv /\ [TreeNext]_treeVars =>
          [\A p \in Paths :
             /\ loaded'[p] # loaded[p]
             /\ \A m, n \in dir[p] : Len(Digits(p, m)) = Len(Digits(p, n))
             => loaded'[p] = Max(dir[p])]_treeVars
    <2> SUFFICES ASSUME TreeInv, TreeNext, NEW p \in Paths, loaded'[p] # loaded[p],
                        \A m, n \in dir[p] : Len(Digits(p, m)) = Len(Digits(p, n))
                 PROVE  loaded'[p] = Max(dir[p])
      OBVIOUS
    <2>1. PICK q \in Paths : LoadTable(q)
      BY DEF TreeNext, MakeDirectory, Publish, CleanUp, Walk
    <2>2. QED
      BY <2>1, LoadsTheHighest
  <1>2. ServedInv /\ [Next]_vars =>
          [\A p \in Paths :
             /\ loaded'[p] # loaded[p]
             /\ \A m, n \in dir[p] : Len(Digits(p, m)) = Len(Digits(p, n))
             => loaded'[p] = Max(dir[p])]_treeVars
    BY <1>1, OneCatalogSteps DEF ServedInv
  <1>3. QED
    BY <1>2, ServedInductive, PTL DEF Spec, HighestNumbered

(* Whatever the pages, the directories and the replies hold, every variable *)
(* of the selected catalog keeps its type, and no table is listed twice    *)
(* (glue.go:106, rest.go:192).                                             *)
THEOREM CatalogsTypeCorrect == Spec => []TypeOK
  <1>1. ServedInv => TypeOK
    BY ListingInvImplies, HiveInvImplies DEF ServedInv, TreeInv, TypeOK
  <1>2. QED
    BY <1>1, ServedInductive, PTL

(* The decoder of Hive's replies (thrift_client.go:241) never loses its    *)
(* place: whatever the parameters and names of a reply, whichever fields   *)
(* nobody asked for stand before and after them, and whatever is there in  *)
(* their stead, a call that was not interrupted returns what the server    *)
(* meant, and one that was returns that or an error and nothing half read. *)
THEOREM ReplyIsUnderstood == Spec => []ReplyUnderstood
  <1>1. ServedInv => ReplyUnderstood
    BY HiveInvImplies DEF ServedInv
  <1>2. QED
    BY <1>1, ServedInductive, PTL

-----------------------------------------------------------------------------
(* REST authentication.  The strengthening that makes the properties       *)
(* inductive.  The cached expiry is late by the latency at most; the       *)
(* answer on its way, of which the mutex allows one, carries the newest    *)
(* token of the server.                                                    *)
IssuedOK == \E n \in 0..MaxTokens : issued \in [1..n -> Nat]
CacheOK ==
    token # NoToken =>
        /\ token \in DOMAIN issued
        /\ GuessIsSafe => expires <= issued[token] + MaxLatency
AnswerOK(c) ==
    pc[c] = "answered" =>
        /\ response[c].token \in DOMAIN issued
        /\ \A i \in DOMAIN issued : i <= response[c].token
        /\ GuessIsSafe => issued[response[c].token] >= response[c].sent + Lifetime(response[c])
        /\ response[c].sent <= clock /\ clock <= response[c].sent + MaxLatency
        /\ Lifetime(response[c]) \in TTLs \cup {DefaultTTL}
SendOK(c) == pc[c] = "send" => using[c] \in DOMAIN issued
TokenInv ==
    /\ TokenTypeOK
    /\ IssuedOK
    /\ CacheOK
    /\ \A c \in Callers : AnswerOK(c) /\ SendOK(c)

(* Tokens are numbered in the order they were issued.                      *)
LEMMA CountIssued ==
    ASSUME NEW n \in Nat, issued \in [1..n -> Nat]
    PROVE  Cardinality(DOMAIN issued) = n
  <1>1. DOMAIN issued = 1..n
    OBVIOUS
  <1>2. Cardinality(1..n) = n
    <2>1. Cardinality(1..n) = IF 1 > n THEN 0 ELSE n - 1 + 1
      BY FS_Interval
    <2>2. QED
      BY <2>1
  <1>3. QED
    BY <1>1, <1>2

LEMMA InitTokenInv == TokenInit => TokenInv
  <1> SUFFICES ASSUME TokenInit
               PROVE  TokenInv
    OBVIOUS
  <1> USE OAuthAssumption DEF TokenInit
  <1>1. DOMAIN issued = 1..0 /\ issued \in [1..0 -> Nat]
    OBVIOUS
  <1>2. TokenTypeOK
    BY <1>1 DEF TokenTypeOK, NoToken, NoResponse
  <1>3. IssuedOK
    <2>1. 0 \in 0..MaxTokens
      OBVIOUS
    <2>2. QED
      BY <1>1, <2>1 DEF IssuedOK
  <1>4. QED
    BY <1>2, <1>3 DEF TokenInv, CacheOK, AnswerOK, SendOK

(* Of two callers, at most one has a token request under way.              *)
LEMMA OneFetches ==
    ASSUME TokenTypeOK, NEW c \in Callers, NEW d \in Callers,
           pc[c] \in {"fetch", "answered"}, pc[d] \in {"fetch", "answered"}
    PROVE  c = d
  BY DEF TokenTypeOK

LEMMA CallTokenInv ==
    ASSUME TokenInv, NEW c \in Callers, Call(c)
    PROVE  TokenInv'
  <1> USE OAuthAssumption DEF TokenInv, Call
  <1>1. TokenTypeOK'
    BY DEF TokenTypeOK
  <1>2. IssuedOK' /\ CacheOK'
    BY DEF IssuedOK, CacheOK
  <1>3. ASSUME NEW d \in Callers PROVE AnswerOK(d)' /\ SendOK(d)'
    BY DEF AnswerOK, SendOK, TokenTypeOK, Lifetime
  <1>4. QED
    BY <1>1, <1>2, <1>3

LEMMA TakeCachedTokenInv ==
    ASSUME TokenInv, NEW c \in Callers, TakeCached(c)
    PROVE  TokenInv'
  <1> USE OAuthAssumption DEF TokenInv, TakeCached
  <1>1. TokenTypeOK'
    BY DEF TokenTypeOK
  <1>2. IssuedOK' /\ CacheOK'
    BY DEF IssuedOK, CacheOK
  <1>3. ASSUME NEW d \in Callers PROVE AnswerOK(d)' /\ SendOK(d)'
    BY <1>3 DEF AnswerOK, SendOK, TokenTypeOK, Lifetime, Cached, CacheOK
  <1>4. QED
    BY <1>1, <1>2, <1>3

LEMMA StartFetchTokenInv ==
    ASSUME TokenInv, NEW c \in Callers, StartFetch(c)
    PROVE  TokenInv'
  <1> USE OAuthAssumption DEF TokenInv, StartFetch
  <1>1. TokenTypeOK'
    BY DEF TokenTypeOK, MutexAfterMiss, Held
  <1>2. IssuedOK' /\ CacheOK'
    BY DEF IssuedOK, CacheOK
  <1>3. ASSUME NEW d \in Callers PROVE AnswerOK(d)' /\ SendOK(d)'
    BY <1>3 DEF AnswerOK, SendOK, TokenTypeOK, Lifetime
  <1>4. QED
    BY <1>1, <1>2, <1>3

(* The new token is the newest, and no other answer is on its way.         *)
LEMMA IssueTokenInv ==
    ASSUME TokenInv, NEW c \in Callers, NEW ttl \in TTLs \cup UnstatedTTLs, NEW stated \in BOOLEAN,
           Issue(c, ttl, stated)
    PROVE  TokenInv'
  <1> USE OAuthAssumption DEF TokenInv
  <1>1. PICK n \in 0..MaxTokens : issued \in [1..n -> Nat]
    BY DEF IssuedOK
  <1>2. Cardinality(DOMAIN issued) = n
    BY <1>1, CountIssued
  <1>3. /\ pc[c] = "fetch" /\ n + 1 \in 1..MaxTokens
        /\ ttl \in IF stated THEN TTLs ELSE UnstatedTTLs
        /\ issued' = [i \in 1..(n + 1) |-> IF i = n + 1 THEN clock + ttl ELSE issued[i]]
        /\ response' = [response EXCEPT ![c] =
              [token |-> n + 1, expiresIn |-> IF stated THEN ttl ELSE 0, sent |-> clock]]
        /\ pc' = [pc EXCEPT ![c] = "answered"]
        /\ UNCHANGED <<clock, mutex, using, token, expires>>
    <2>1. n \in Nat /\ n + 1 <= MaxTokens
      BY <1>2 DEF Issue
    <2>2. n + 1 \in 1..MaxTokens
      BY <2>1
    <2>3. QED
      BY <1>2, <2>2 DEF Issue
  <1>4. clock \in Nat /\ ttl \in Nat \ {0}
    <2>1. clock \in Nat
      BY DEF TokenTypeOK
    <2>2. QED
      BY <2>1
  <1>5. issued' \in [1..(n + 1) -> Nat] /\ DOMAIN issued' = 1..(n + 1)
    BY <1>1, <1>3, <1>4
  <1>6. \A i \in DOMAIN issued : i \in DOMAIN issued' /\ issued'[i] = issued[i]
    BY <1>1, <1>3
  <1>7. TokenTypeOK'
    <2>1. \A d \in Callers : pc'[d] \in {"fetch", "answered"} <=> mutex' = d
      BY <1>3 DEF TokenTypeOK
    <2>2. response' \in [Callers -> [token : 0..MaxTokens, expiresIn : TTLs \cup {0},
                                     sent : 0..MaxClock]]
      BY <1>3 DEF TokenTypeOK
    <2>3. pc' \in [Callers -> {"idle", "wait", "fetch", "answered", "send"}]
      BY <1>3 DEF TokenTypeOK
    <2>4. QED
      BY <1>3, <1>5, <2>1, <2>2, <2>3 DEF TokenTypeOK
  <1>8. IssuedOK'
    BY <1>3, <1>5 DEF IssuedOK
  <1>9. CacheOK'
    BY <1>3, <1>6 DEF CacheOK
  <1>10. ASSUME NEW d \in Callers PROVE AnswerOK(d)' /\ SendOK(d)'
    <2>1. CASE d = c
      <3>1. response'[c] = [token |-> n + 1, expiresIn |-> IF stated THEN ttl ELSE 0, sent |-> clock]
        BY <1>3 DEF TokenTypeOK
      <3>2. /\ Lifetime(response[c])' \in TTLs \cup {DefaultTTL}
            /\ GuessIsSafe => ttl >= Lifetime(response[c])'
        BY <1>3, <1>4, <3>1 DEF Lifetime, GuessIsSafe
      <3>3. issued'[n + 1] = clock + ttl
        BY <1>1, <1>3
      <3>4. pc'[c] = "answered"
        BY <1>3 DEF TokenTypeOK
      <3>5. QED
        BY <1>3, <1>4, <1>5, <2>1, <3>1, <3>2, <3>3, <3>4 DEF AnswerOK, SendOK
    <2>2. CASE d # c
      <3>1. pc'[d] = pc[d] /\ pc[d] # "answered"
        BY <1>3, <2>2, OneFetches DEF TokenTypeOK
      <3>2. QED
        BY <1>3, <1>6, <3>1 DEF AnswerOK, SendOK
    <2>3. QED
      BY <2>1, <2>2
  <1>11. QED
    BY <1>7, <1>8, <1>9, <1>10

(* The stored expiry is late by no more than the answer was.               *)
LEMMA StoreTokenInv ==
    ASSUME TokenInv, NEW c \in Callers, Store(c)
    PROVE  TokenInv'
  <1> USE OAuthAssumption DEF TokenInv, Store
  <1>1. AnswerOK(c) /\ pc[c] = "answered"
    OBVIOUS
  <1>2. Lifetime(response[c]) \in Nat
    BY <1>1 DEF AnswerOK
  <1>3. TokenTypeOK'
    <2>1. \A d \in Callers : pc'[d] \in {"fetch", "answered"} <=> mutex' = d
      BY OneFetches DEF TokenTypeOK
    <2>2. NoResponse \in [token : 0..MaxTokens, expiresIn : TTLs \cup {0},
                          sent : 0..MaxClock]
      BY DEF NoResponse, NoToken
    <2>3. response[c].token \in 0..MaxTokens
      BY DEF TokenTypeOK
    <2>4. expires' \in Nat
      BY <1>2 DEF TokenTypeOK
    <2>5. QED
      BY <2>1, <2>2, <2>3, <2>4 DEF TokenTypeOK
  <1>4. IssuedOK'
    BY DEF IssuedOK
  <1>5. CacheOK'
    <2>1. /\ clock \in Nat /\ response[c].sent \in Nat
          /\ response[c].token \in DOMAIN issued /\ issued[response[c].token] \in Nat
      BY <1>1 DEF AnswerOK, IssuedOK, TokenTypeOK
    <2>2. ASSUME GuessIsSafe
          PROVE  clock + Lifetime(response[c]) <= issued[response[c].token] + MaxLatency
      BY <1>1, <1>2, <2>1, <2>2 DEF AnswerOK
    <2>3. QED
      BY <2>1, <2>2 DEF CacheOK
  <1>6. ASSUME NEW d \in Callers PROVE AnswerOK(d)' /\ SendOK(d)'
    BY <1>1, <1>6 DEF AnswerOK, SendOK, TokenTypeOK, Lifetime
  <1>7. QED
    BY <1>3, <1>4, <1>5, <1>6

LEMMA FetchFailsTokenInv ==
    ASSUME TokenInv, NEW c \in Callers, FetchFails(c)
    PROVE  TokenInv'
  <1> USE OAuthAssumption DEF TokenInv, FetchFails
  <1>1. TokenTypeOK'
    <2>1. \A d \in Callers : pc'[d] \in {"fetch", "answered"} <=> mutex' = d
      BY OneFetches DEF TokenTypeOK
    <2>2. NoResponse \in [token : 0..MaxTokens, expiresIn : TTLs \cup {0},
                          sent : 0..MaxClock]
      BY DEF NoResponse, NoToken
    <2>3. QED
      BY <2>1, <2>2 DEF TokenTypeOK
  <1>2. IssuedOK' /\ CacheOK'
    BY DEF IssuedOK, CacheOK
  <1>3. ASSUME NEW d \in Callers PROVE AnswerOK(d)' /\ SendOK(d)'
    BY <1>3 DEF AnswerOK, SendOK, TokenTypeOK, Lifetime
  <1>4. QED
    BY <1>1, <1>2, <1>3

LEMMA SendTokenInv ==
    ASSUME TokenInv, NEW c \in Callers, Send(c)
    PROVE  TokenInv'
  <1> USE OAuthAssumption DEF TokenInv, Send
  <1>1. TokenTypeOK'
    BY DEF TokenTypeOK, NoToken
  <1>2. IssuedOK' /\ CacheOK'
    BY DEF IssuedOK, CacheOK
  <1>3. ASSUME NEW d \in Callers PROVE AnswerOK(d)' /\ SendOK(d)'
    BY <1>3 DEF AnswerOK, SendOK, TokenTypeOK, Lifetime
  <1>4. QED
    BY <1>1, <1>2, <1>3

LEMMA TickTokenInv ==
    ASSUME TokenInv, Tick
    PROVE  TokenInv'
  <1> USE OAuthAssumption DEF TokenInv, Tick
  <1>1. TokenTypeOK'
    BY DEF TokenTypeOK
  <1>2. IssuedOK' /\ CacheOK'
    BY DEF IssuedOK, CacheOK
  <1>3. ASSUME NEW d \in Callers PROVE AnswerOK(d)' /\ SendOK(d)'
    <2>1. pc[d] = "answered" => response[d].sent \in Nat /\ clock \in Nat
      BY DEF TokenTypeOK
    <2>2. QED
      BY <2>1 DEF AnswerOK, SendOK, Lifetime
  <1>4. QED
    BY <1>1, <1>2, <1>3

LEMMA NextTokenInv == TokenInv /\ [TokenNext]_tokenVars => TokenInv'
  <1> SUFFICES ASSUME TokenInv, [TokenNext]_tokenVars
               PROVE  TokenInv'
    OBVIOUS
  <1>1. CASE Tick
    BY <1>1, TickTokenInv
  <1>2. ASSUME NEW c \in Callers, Caller(c)
        PROVE  TokenInv'
    BY <1>2, CallTokenInv, TakeCachedTokenInv, StartFetchTokenInv, StoreTokenInv, FetchFailsTokenInv, SendTokenInv
       DEF Caller, Lock
  <1>3. ASSUME NEW c \in Callers, Server(c)
        PROVE  TokenInv'
    BY <1>3, IssueTokenInv DEF Server
  <1>4. CASE UNCHANGED tokenVars
    BY <1>4 DEF tokenVars, TokenInv, TokenTypeOK, IssuedOK, CacheOK, AnswerOK, SendOK, Lifetime
  <1>5. QED
    BY <1>1, <1>2, <1>3, <1>4 DEF TokenNext

(* Every variable keeps its type, and the mutex is held exactly while a    *)
(* token request is under way, on every path of ensureOAuthToken.          *)
THEOREM TokenTypeCorrect == TokenSpec => []TokenTypeOK
  <1>1. TokenInv => TokenTypeOK
    BY DEF TokenInv
  <1>2. QED
    BY <1>1, InitTokenInv, NextTokenInv, PTL DEF TokenSpec

(* No request leaves with a token that has ended, if the latency is within *)
(* the margin of ensureOAuthToken and below every lifetime, and a token    *)
(* without expires_in lives the hour the code assumes (rest.go:257).       *)
THEOREM SentTokensAreLive == TokenSpec => []SentTokenIsLive
  <1>1. TokenInit => SentTokenIsLive
    BY DEF TokenInit, SentTokenIsLive
  <1>2. TokenInv /\ SentTokenIsLive /\ [TokenNext]_tokenVars => SentTokenIsLive'
    <2> SUFFICES ASSUME TokenInv, SentTokenIsLive, [TokenNext]_tokenVars, LatencyCovered,
                        NEW c \in Callers, pc'[c] = "send"
                 PROVE  clock' < issued'[using'[c]]
      BY DEF SentTokenIsLive, LatencyCovered
    <2> USE OAuthAssumption DEF TokenInv
    <2>0. clock \in Nat /\ expires \in Nat /\ GuessIsSafe
      BY DEF TokenTypeOK, LatencyCovered
    <2>1. CASE Tick
      BY <2>1 DEF Tick
    <2>2. ASSUME NEW d \in Callers, Call(d) \/ StartFetch(d) \/ FetchFails(d) \/ Send(d)
          PROVE  clock' < issued'[using'[c]]
      BY <2>2 DEF Call, StartFetch, FetchFails, Send, SentTokenIsLive, TokenTypeOK
    <2>3. ASSUME NEW d \in Callers, TakeCached(d)
          PROVE  clock' < issued'[using'[c]]
      <3>1. CASE d = c
        <4>1. issued[token] \in Nat /\ expires <= issued[token] + MaxLatency
          BY <2>0, <2>3 DEF TakeCached, Cached, CacheOK, IssuedOK
        <4>2. expires > clock + Margin
          BY <2>3 DEF TakeCached, Cached
        <4>3. clock < issued[token]
          BY <2>0, <4>1, <4>2 DEF LatencyCovered
        <4>4. QED
          BY <2>3, <3>1, <4>3 DEF TakeCached, TokenTypeOK
      <3>2. CASE d # c
        BY <2>3, <3>2 DEF TakeCached, SentTokenIsLive, TokenTypeOK
      <3>3. QED
        BY <3>1, <3>2
    <2>4. ASSUME NEW d \in Callers, Store(d)
          PROVE  clock' < issued'[using'[c]]
      <3>1. CASE d = c
        <4>1. AnswerOK(c) /\ pc[c] = "answered" /\ response[c].sent \in Nat
          BY <2>4, <3>1 DEF Store, TokenTypeOK
        <4>2. MaxLatency < Lifetime(response[c]) /\ Lifetime(response[c]) \in Nat
          BY <4>1 DEF AnswerOK, LatencyCovered
        <4>3. /\ issued[response[c].token] >= response[c].sent + Lifetime(response[c])
              /\ clock <= response[c].sent + MaxLatency
          BY <2>0, <4>1 DEF AnswerOK
        <4>4. clock < issued[response[c].token]
          <5>1. issued[response[c].token] \in Nat
            BY <4>1 DEF AnswerOK, IssuedOK
          <5>2. QED
            BY <2>0, <4>1, <4>2, <4>3, <5>1
        <4>5. QED
          BY <2>4, <3>1, <4>4 DEF Store, TokenTypeOK
      <3>2. CASE d # c
        BY <2>4, <3>2 DEF Store, SentTokenIsLive, TokenTypeOK
      <3>3. QED
        BY <3>1, <3>2
    <2>5. ASSUME NEW d \in Callers, NEW ttl \in TTLs \cup UnstatedTTLs, NEW stated \in BOOLEAN,
                 Issue(d, ttl, stated)
          PROVE  clock' < issued'[using'[c]]
      <3>1. pc[c] = "send" /\ UNCHANGED <<clock, using>>
        BY <2>5 DEF Issue, TokenTypeOK
      <3>2. PICK n \in 0..MaxTokens : issued \in [1..n -> Nat]
        BY DEF IssuedOK
      <3>3. issued' = [i \in 1..(n + 1) |-> IF i = n + 1 THEN clock + ttl ELSE issued[i]]
        BY <2>5, <3>2, CountIssued DEF Issue
      <3>4. using[c] \in 1..n /\ clock < issued[using[c]]
        BY <3>1, <3>2 DEF SendOK, SentTokenIsLive
      <3>5. QED
        BY <3>1, <3>2, <3>3, <3>4
    <2>6. CASE UNCHANGED tokenVars
      BY <2>6 DEF tokenVars, SentTokenIsLive
    <2>7. QED
      BY <2>1, <2>2, <2>3, <2>4, <2>5, <2>6 DEF TokenNext, Caller, Server, Lock
  <1>3. QED
    BY <1>1, <1>2, InitTokenInv, NextTokenInv, PTL DEF TokenSpec

(* A slow answer never displaces a later one: the mutex is held across the *)
(* request, so the only answer on its way has the newest token.            *)
THEOREM NewestTokenWins == TokenSpec => NewestWins
  <1>1. TokenInv /\ [TokenNext]_tokenVars =>
          [/\ token' >= token
           /\ \A c \in Callers : using'[c] \in {using[c], NoToken} \/ using'[c] >= token]_tokenVars
    <2> SUFFICES ASSUME TokenInv, TokenNext
                 PROVE  /\ token' >= token
                        /\ \A c \in Callers : using'[c] \in {using[c], NoToken} \/ using'[c] >= token
      OBVIOUS
    <2> USE OAuthAssumption DEF TokenInv
    <2>0. token \in Nat
      BY DEF TokenTypeOK
    <2>1. CASE Tick
      BY <2>0, <2>1 DEF Tick
    <2>2. ASSUME NEW d \in Callers, Call(d) \/ StartFetch(d) \/ FetchFails(d) \/ Server(d)
          PROVE  UNCHANGED <<token, using>>
      BY <2>2 DEF Call, StartFetch, FetchFails, Server, Issue
    <2>3. ASSUME NEW d \in Callers, TakeCached(d) \/ Send(d)
          PROVE  /\ UNCHANGED token
                 /\ \A c \in Callers : using'[c] \in {using[c], NoToken, token}
      BY <2>3 DEF TakeCached, Send, TokenTypeOK
    <2>4. ASSUME NEW d \in Callers, Store(d)
          PROVE  /\ token' >= token
                 /\ \A c \in Callers : using'[c] \in {using[c], token'}
      <3>1. token' = response[d].token /\ using' = [using EXCEPT ![d] = response[d].token]
        BY <2>4 DEF Store
      <3>2. AnswerOK(d) /\ pc[d] = "answered" /\ response[d].token \in Nat
        BY <2>4 DEF Store, TokenTypeOK
      <3>3. token # NoToken => token <= response[d].token
        BY <3>2 DEF AnswerOK, CacheOK
      <3>4. QED
        BY <2>0, <3>1, <3>2, <3>3 DEF NoToken, TokenTypeOK
    <2>5. QED
      BY <2>0, <2>1, <2>2, <2>3, <2>4 DEF TokenNext, Caller, Lock
  <1>2. QED
    BY <1>1, InitTokenInv, NextTokenInv, PTL DEF TokenSpec, NewestWins
=============================================================================
