----------------------------- MODULE DiffProofs -----------------------------
(***************************************************************************)
(* Whatever the two files, the diff is a shortest edit script, its hunks   *)
(* hold the changes and their context at the right lines, and the search   *)
(* ends.                                                                   *)
(*                                                                         *)
(* Places of the search are pairs of lines passed.  A turn keeps, on each  *)
(* of its diagonals, a place no common subsequence gets beyond with as     *)
(* many edits (GoesFurthest, by the least counterexample).  It does run    *)
(* past the edges of the files, but never overtakes a neighbour there, so  *)
(* a stop is a stop at the corner.  The turns kept in trace are walked     *)
(* back one edit at a time, and the ends trimmed before are put back: they *)
(* cost a common subsequence nothing.                                      *)
(***************************************************************************)
EXTENDS Diff, FiniteSetTheorems, WellFoundedInduction, TLAPS

-----------------------------------------------------------------------------
(***************************************************************************)
(* Numbers.                                                                *)
(***************************************************************************)
LEMMA LeastNatural ==
  ASSUME NEW T \in SUBSET Nat, T # {}
  PROVE  \E x \in T : \A y \in T : x <= y
<1>1. PICK x \in T : \A y \in T : <<y, x>> \notin OpToRel(<, Nat)
  BY NatLessThanWellFounded, WFMin
<1>2. \A y \in T : ~(y < x)
  BY <1>1 DEF OpToRel
<1> QED BY <1>2

LEMMA SmallestIs ==
  ASSUME NEW T \in SUBSET Nat, T # {}
  PROVE  Min(T) \in T /\ \A x \in T : Min(T) <= x
BY LeastNatural DEF Min

\* Of numbers below a bound one is the largest.
LEMMA LargestIs ==
  ASSUME NEW T \in SUBSET Nat, T # {}, NEW b \in Nat, \A x \in T : x <= b
  PROVE  Max(T) \in T /\ \A x \in T : x <= Max(T)
<1> DEFINE Back == {k \in Nat : \E x \in T : k = b - x}
<1>1. PICK k \in Back : \A j \in Back : k <= j
  <2>1. PICK x \in T : TRUE
    OBVIOUS
  <2>2. b - x \in Back
    OBVIOUS
  <2> QED BY <2>2, LeastNatural
<1>2. PICK x \in T : k = b - x
  BY <1>1
<1>3. \A y \in T : y <= x
  <2> SUFFICES ASSUME NEW y \in T PROVE y <= x
    OBVIOUS
  <2>1. b - y \in Back
    OBVIOUS
  <2>2. k <= b - y
    BY <1>1, <2>1
  <2> HIDE DEF Back
  <2> QED BY <1>2, <2>2
<1>4. \E z \in T : \A y \in T : z >= y
  BY <1>3
<1> QED BY <1>4 DEF Max

\* Max and Min of two numbers.
LEMMA LargerIs ==
  ASSUME NEW a \in Int, NEW b \in Int
  PROVE  /\ Max({a, b}) = IF a >= b THEN a ELSE b
         /\ Min({a, b}) = IF a <= b THEN a ELSE b
BY DEF Max, Min

\* Diagonals of a turn, and those of the turn before.
LEMMA DiagonalsMeet ==
  ASSUME NEW d \in Nat, NEW k \in Diagonals(d)
  PROVE  /\ k \in Int /\ -d <= k /\ k <= d
         /\ k # d => k + 2 <= d /\ k + 2 \in Diagonals(d) /\ d >= 1 /\ k + 1 \in Diagonals(d - 1)
         /\ k # -d => -d <= k - 2 /\ k - 2 \in Diagonals(d) /\ d >= 1 /\ k - 1 \in Diagonals(d - 1)
BY DEF Diagonals

LEMMA DiagonalOf ==
  ASSUME NEW i \in Int, NEW j \in Int, NEW q \in Int,
         i - j <= i + j - 2 * q, j - i <= i + j - 2 * q
  PROVE  i + j - 2 * q \in Nat /\ i - j \in Diagonals(i + j - 2 * q)
BY DEF Diagonals

-----------------------------------------------------------------------------
(***************************************************************************)
(* Common subsequences.                                                    *)
(***************************************************************************)

\* Those of the first a lines of one file and the first b of the other.
Common(a, b) == {P \in SUBSET Matches : InOrder(P) /\ \A p \in P : p[1] <= a /\ p[2] <= b}

LEMMA MatchesArePairs ==
  ASSUME oldLines \in Seq(Letters), newLines \in Seq(Letters), NEW p \in Matches
  PROVE  /\ p = <<p[1], p[2]>>
         /\ p[1] \in Nat \ {0} /\ p[1] <= Len(oldLines)
         /\ p[2] \in Nat \ {0} /\ p[2] <= Len(newLines)
         /\ oldLines[p[1]] = newLines[p[2]]
<1>1. p \in (1 .. Len(oldLines)) \X (1 .. Len(newLines)) /\ oldLines[p[1]] = newLines[p[2]]
  BY DEF Matches
<1> QED BY <1>1

LEMMA CommonIsShort ==
  ASSUME oldLines \in Seq(Letters), newLines \in Seq(Letters),
         NEW a \in Nat, NEW b \in Nat, NEW P \in Common(a, b)
  PROVE  IsFiniteSet(P) /\ Cardinality(P) \in Nat /\ Cardinality(P) <= a /\ Cardinality(P) <= b
<1>1. \A p \in P : p = <<p[1], p[2]>> /\ p[1] \in 1 .. a /\ p[2] \in 1 .. b
  BY MatchesArePairs DEF Common
<1>2. \A p, q \in P : p = q \/ (p[1] # q[1] /\ p[2] # q[2])
  BY <1>1 DEF Common, InOrder
<1>3. IsFiniteSet(1 .. a) /\ Cardinality(1 .. a) = a /\ IsFiniteSet(1 .. b) /\ Cardinality(1 .. b) = b
  BY FS_Interval
<1>4. [p \in P |-> p[1]] \in Injection(P, 1 .. a)
  BY <1>1, <1>2 DEF Injection, IsInjective
<1>5. [p \in P |-> p[2]] \in Injection(P, 1 .. b)
  BY <1>1, <1>2 DEF Injection, IsInjective
<1> QED BY <1>3, <1>4, <1>5, FS_Injection, FS_CardinalityType

\* At its end, a common subsequence has the last two lines as a pair, or does without
\* one of them.
LEMMA CommonEnds ==
  ASSUME oldLines \in Seq(Letters), newLines \in Seq(Letters),
         NEW a \in Nat \ {0}, NEW b \in Nat \ {0}, NEW P \in Common(a, b)
  PROVE  \/ P \in Common(a - 1, b)
         \/ P \in Common(a, b - 1)
         \/ \E Q \in Common(a - 1, b - 1) :
              Cardinality(Q) = Cardinality(P) - 1 /\ oldLines[a] = newLines[b]
                /\ a <= Len(oldLines) /\ b <= Len(newLines)
<1>1. \A p \in P : /\ p \in Matches /\ p = <<p[1], p[2]>> /\ p[1] \in Nat /\ p[2] \in Nat
                   /\ p[1] <= a /\ p[2] <= b
  BY MatchesArePairs DEF Common
<1>2. CASE <<a, b>> \in P
  <2> DEFINE Q == P \ {<<a, b>>}
  <2>1. \A q \in Q : q[1] < a /\ q[2] < b
    BY <1>1, <1>2 DEF Common, InOrder
  <2>2. Q \in Common(a - 1, b - 1)
    BY <1>1, <2>1 DEF Common, InOrder
  <2>3. Cardinality(Q) = Cardinality(P) - 1
    BY <1>2, CommonIsShort, FS_RemoveElement
  <2>4. oldLines[a] = newLines[b] /\ a <= Len(oldLines) /\ b <= Len(newLines)
    BY <1>1, <1>2, MatchesArePairs
  <2> QED BY <2>2, <2>3, <2>4
<1>3. CASE <<a, b>> \notin P /\ \E p \in P : p[1] = a
  <2>1. PICK p \in P : p[1] = a
    BY <1>3
  <2>2. p[2] < b
    <3>1. p[2] # b
      BY <1>1, <1>3, <2>1
    <3>2. p[2] \in Nat /\ p[2] <= b
      BY <1>1
    <3> QED BY <3>1, <3>2
  <2>3. \A q \in P : q[2] < b
    BY <1>1, <2>1, <2>2, SMTT(30) DEF Common, InOrder
  <2>4. P \in Common(a, b - 1)
    BY <1>1, <2>3 DEF Common
  <2> QED BY <2>4
<1>4. CASE \A p \in P : p[1] # a
  <2>1. P \in Common(a - 1, b)
    BY <1>1, <1>4 DEF Common
  <2> QED BY <2>1
<1> QED BY <1>2, <1>3, <1>4

-----------------------------------------------------------------------------
(***************************************************************************)
(* The middles, and sliding down a diagonal.                               *)
(***************************************************************************)
FilesOK ==
  /\ oldLines \in Seq(Letters) /\ newLines \in Seq(Letters)
  /\ prefix \in Nat /\ suffix \in Nat
  /\ prefix + suffix <= Len(oldLines) /\ prefix + suffix <= Len(newLines)
  /\ Alike(prefix) /\ AlikeAtEnd(suffix)

n == Len(OldMiddle)
m == Len(NewMiddle)

LEMMA MiddlesAre ==
  ASSUME FilesOK
  PROVE  /\ n \in Nat /\ m \in Nat /\ MaxDistance = n + m
         /\ n = Len(oldLines) - prefix - suffix /\ m = Len(newLines) - prefix - suffix
         /\ \A i \in 1 .. n : OldMiddle[i] = oldLines[prefix + i]
         /\ \A j \in 1 .. m : NewMiddle[j] = newLines[prefix + j]
<1>1. /\ Len(oldLines) \in Nat /\ Len(newLines) \in Nat /\ prefix \in Nat /\ suffix \in Nat
      /\ prefix + suffix <= Len(oldLines) /\ prefix + suffix <= Len(newLines)
  BY DEF FilesOK
<1>2. n = Len(oldLines) - prefix - suffix /\ \A i \in 1 .. n : OldMiddle[i] = oldLines[prefix + i]
  BY <1>1 DEF FilesOK, n, OldMiddle
<1>3. m = Len(newLines) - prefix - suffix /\ \A j \in 1 .. m : NewMiddle[j] = newLines[prefix + j]
  BY <1>1 DEF FilesOK, m, NewMiddle
<1> QED BY <1>1, <1>2, <1>3 DEF MaxDistance, n, m

\* z is where a slide on diagonal k from x gets: it stays in both files, over lines that
\* are the same, as far as it can.
Slides(x, k, z) ==
  /\ z \in Nat /\ z >= x
  /\ z > x => z <= n /\ z - k <= m
  /\ \A s \in 1 .. z - x : OldMiddle[x + s] = NewMiddle[x - k + s]
  /\ ~(z + 1 <= n /\ z - k + 1 <= m /\ OldMiddle[z + 1] = NewMiddle[z - k + 1])

LEMMA SlideIs ==
  ASSUME FilesOK, NEW x \in Nat, NEW k \in Int, x - k \in Nat,
         NEW z, z = Slide(x, x - k)
  PROVE  Slides(x, k, z)
<1> DEFINE y == x - k
<1> DEFINE Same(s) == x + s <= n /\ y + s <= m /\ OldMiddle[x + s] = NewMiddle[y + s]
           T == {t \in 0 .. MaxDistance : \A s \in 1 .. t : Same(s)}
<1>1. n \in Nat /\ m \in Nat /\ MaxDistance = n + m
  BY MiddlesAre
<1>2. T \in SUBSET Nat /\ 0 \in T /\ \A t \in T : t <= MaxDistance
  BY <1>1
<1>3. Max(T) \in T /\ \A t \in T : t <= Max(T)
  <2> HIDE DEF T
  <2>1. MaxDistance \in Nat
    BY <1>1
  <2>2. T # {}
    BY <1>2
  <2> QED BY <1>2, <2>1, <2>2, LargestIs
<1>4. PICK t \in T : z = x + t /\ t = Max(T)
  <2>1. z = x + Max(T)
    BY DEF Slide, n, m
  <2> HIDE DEF T
  <2> QED BY <1>3, <2>1
<1>5. t \in Nat /\ \A s \in 1 .. t : Same(s)
  <2> HIDE DEF Same
  <2> QED BY <1>1, <1>4
<1>6. ~Same(t + 1)
  <2> SUFFICES ASSUME Same(t + 1) PROVE FALSE
    OBVIOUS
  <2>1. \A s \in 1 .. t + 1 : s \in 1 .. t \/ s = t + 1
    BY <1>5
  <2>2. \A s \in 1 .. t + 1 : Same(s)
    BY <1>5, <2>1
  <2>3. t + 1 \in 0 .. MaxDistance
    BY <1>1, <1>5
  <2>4. t + 1 \in T
    BY <2>2, <2>3
  <2> HIDE DEF T
  <2> QED BY <1>3, <1>4, <1>5, <2>4
<1> HIDE DEF T
<1>7. t > 0 => Same(t)
  BY <1>5
<1>8. z \in Nat /\ z >= x /\ z - x = t /\ z - k = t + y /\ z = x + t
  BY <1>4, <1>5
<1>9. z > x => z <= n /\ z - k <= m
  BY <1>5, <1>7, <1>8
<1>10. \A s \in 1 .. z - x : OldMiddle[x + s] = NewMiddle[x - k + s]
  BY <1>5, <1>8
<1>11. ~(z + 1 <= n /\ z - k + 1 <= m /\ OldMiddle[z + 1] = NewMiddle[z - k + 1])
  <2>1. x + (t + 1) = z + 1 /\ y + (t + 1) = z - k + 1
    BY <1>5, <1>8
  <2> HIDE DEF y
  <2> QED BY <1>6, <2>1
<1> QED BY <1>8, <1>9, <1>10, <1>11 DEF Slides

-----------------------------------------------------------------------------
(***************************************************************************)
(* A turn of the search: u is the frontier before turn d, and v after it.  *)
(***************************************************************************)
Turn(u, v, d) == \A k \in Diagonals(d) : v[k] = Reached(u, d, k)

\* Where a diagonal is entered: below where the next one got to, or beside it.
Entry(u, d, k) == IF Down(u, d, k) THEN u[k + 1] ELSE u[k - 1] + 1

\* No coordinate is negative, and d edits lead at least d lines on.
InQuadrant(v, d) == \A k \in Diagonals(d) : v[k] \in Nat /\ v[k] >= k /\ 2 * v[k] - k >= d

\* The search does not stop at the edges of the files.  What runs past one has not
\* overtaken a neighbour.
PastEdges(v, d) ==
  \A k \in Diagonals(d) :
    /\ v[k] - k > m => k # d /\ v[k + 2] >= v[k] + 1
    /\ v[k] > n => k # -d /\ v[k - 2] >= v[k] - 1

\* No common subsequence gets further in d edits.
Furthest(v, d) ==
  \A i \in 0 .. n, j \in 0 .. m : \A P \in Common(prefix + i, prefix + j) :
    i - j \in Diagonals(d) /\ i + j - 2 * (Cardinality(P) - prefix) <= d => v[i - j] >= i

Good(v, d) == InQuadrant(v, d) /\ PastEdges(v, d) /\ Furthest(v, d)
NotDone(v, d) == \A k \in Diagonals(d) : ~AtEnd(v, k)

Before(u, d) == (d = 0 /\ u[1] = 0) \/ (d >= 1 /\ InQuadrant(u, d - 1))

LEMMA EntryIs ==
  ASSUME NEW d \in Nat, NEW u, Before(u, d), NEW k \in Diagonals(d), NEW x, x = Entry(u, d, k)
  PROVE  /\ x \in Nat /\ x >= k
         /\ d = 0 => x = 0 /\ k = 0
         /\ d >= 1 /\ Down(u, d, k) => k # d /\ x = u[k + 1]
         /\ d >= 1 /\ ~Down(u, d, k) => k # -d /\ x = u[k - 1] + 1
         /\ d >= 1 /\ k # d => x >= u[k + 1]
         /\ d >= 1 /\ k # -d => x >= u[k - 1] + 1
<1>1. CASE d = 0
  <2>1. k = 0
    BY <1>1, DiagonalsMeet
  <2>2. k = -d /\ k + 1 = 1 /\ u[1] = 0
    <3>1. u[1] = 0
      BY <1>1 DEF Before
    <3>2. k + 1 = 1
      BY <2>1
    <3>3. -d <= k /\ k <= -d
      BY <1>1, <2>1
    <3>4. k \in Int /\ -d \in Int
      BY <2>1
    <3>5. k = -d
      BY <3>3, <3>4
    <3> QED BY <3>1, <3>2, <3>5
  <2>3. Down(u, d, k) /\ u[k + 1] = 0
    BY <2>2 DEF Down
  <2> QED BY <1>1, <2>1, <2>3 DEF Entry
<1>2. CASE d >= 1
  <2>1. k # d => u[k + 1] \in Nat /\ u[k + 1] >= k + 1
    BY <1>2, DiagonalsMeet DEF Before, InQuadrant
  <2>2. k # -d => u[k - 1] \in Nat /\ u[k - 1] >= k - 1
    BY <1>2, DiagonalsMeet DEF Before, InQuadrant
  <2>3. k \in Int /\ d # -d
    BY <1>2, DiagonalsMeet
  <2> QED BY <1>2, <2>1, <2>2, <2>3 DEF Entry, Down
<1> QED BY <1>1, <1>2

LEMMA ReachedIs ==
  ASSUME FilesOK, NEW d \in Nat, NEW u, Before(u, d), NEW k \in Diagonals(d),
         NEW x, x = Entry(u, d, k), NEW z, z = Reached(u, d, k)
  PROVE  Slides(x, k, z)
<1>1. x \in Nat /\ k \in Int /\ x - k \in Nat
  BY EntryIs, DiagonalsMeet
<1>2. z = Slide(x, x - k)
  BY DEF Reached, Entry
<1> QED BY <1>1, <1>2, SlideIs

LEMMA StaysInQuadrant ==
  ASSUME FilesOK, NEW d \in Nat, NEW u, NEW v, Before(u, d), Turn(u, v, d)
  PROVE  InQuadrant(v, d)
<1> SUFFICES ASSUME NEW k \in Diagonals(d)
             PROVE  v[k] \in Nat /\ v[k] >= k /\ 2 * v[k] - k >= d
  BY DEF InQuadrant
<1>1. PICK x : x = Entry(u, d, k)
  OBVIOUS
<1>2. k \in Int /\ x \in Nat /\ x >= k
  BY <1>1, EntryIs, DiagonalsMeet
<1>3. v[k] \in Nat /\ v[k] >= x
  BY <1>1, ReachedIs DEF Turn, Slides
<1>4. 2 * x - k >= d
  <2>1. CASE d = 0
    BY <1>2, <2>1
  <2>2. CASE d >= 1 /\ Down(u, d, k)
    <3>1. k + 1 \in Diagonals(d - 1) /\ x = u[k + 1]
      BY <1>1, <2>2, EntryIs, DiagonalsMeet
    <3>2. 2 * x - (k + 1) >= d - 1
      BY <2>2, <3>1 DEF Before, InQuadrant
    <3> QED BY <1>2, <3>2
  <2>3. CASE d >= 1 /\ ~Down(u, d, k)
    <3>1. k - 1 \in Diagonals(d - 1) /\ x = u[k - 1] + 1 /\ u[k - 1] \in Nat
      BY <1>1, <2>3, EntryIs, DiagonalsMeet DEF Before, InQuadrant
    <3>2. 2 * u[k - 1] - (k - 1) >= d - 1
      BY <2>3, <3>1 DEF Before, InQuadrant
    <3> QED BY <1>2, <3>1, <3>2
  <2> QED BY <2>1, <2>2, <2>3
<1> QED BY <1>2, <1>3, <1>4

LEMMA StaysBehind ==
  ASSUME FilesOK, NEW d \in Nat, NEW u, NEW v, Before(u, d), d >= 1 => PastEdges(u, d - 1), Turn(u, v, d)
  PROVE  PastEdges(v, d)
<1> SUFFICES ASSUME NEW k \in Diagonals(d)
             PROVE  /\ v[k] - k > m => k # d /\ v[k + 2] >= v[k] + 1
                    /\ v[k] > n => k # -d /\ v[k - 2] >= v[k] - 1
  BY DEF PastEdges
<1>1. PICK x : x = Entry(u, d, k)
  OBVIOUS
<1>2. k \in Int /\ x \in Nat /\ n \in Nat /\ m \in Nat
  BY <1>1, EntryIs, DiagonalsMeet, MiddlesAre
<1>3. v[k] \in Nat /\ v[k] >= x /\ (v[k] > x => v[k] <= n /\ v[k] - k <= m)
  BY <1>1, ReachedIs DEF Turn, Slides
<1>4. \A l \in Diagonals(d) : v[l] \in Nat /\ v[l] >= Entry(u, d, l)
  BY ReachedIs DEF Turn, Slides
<1>5. CASE d = 0
  BY <1>1, <1>2, <1>3, <1>5, EntryIs
<1>6. ASSUME d >= 1, v[k] - k > m
      PROVE  k # d /\ v[k + 2] >= v[k] + 1
  <2>1. v[k] = x
    BY <1>2, <1>3, <1>6
  <2>2. CASE Down(u, d, k)
    <3>1. k # d /\ x = u[k + 1]
      BY <1>1, <1>6, <2>2, EntryIs
    <3>2. k + 2 \in Diagonals(d) /\ k + 2 # -d /\ (k + 2) - 1 = k + 1
      BY <3>1, DiagonalsMeet
    <3>3. v[k + 2] \in Nat /\ v[k + 2] >= Entry(u, d, k + 2) /\ Entry(u, d, k + 2) \in Nat
          /\ Entry(u, d, k + 2) >= u[k + 1] + 1
      BY <1>4, <1>6, <3>2, EntryIs
    <3> QED BY <1>2, <2>1, <3>1, <3>3
  <2>3. CASE ~Down(u, d, k)
    <3>1. k # -d /\ x = u[k - 1] + 1 /\ k - 1 \in Diagonals(d - 1) /\ u[k - 1] \in Nat
      BY <1>1, <1>6, <2>3, EntryIs, DiagonalsMeet DEF Before, InQuadrant
    <3>2. u[k - 1] - (k - 1) > m
      BY <1>2, <1>6, <2>1, <3>1
    <3>3. k - 1 # d - 1 /\ u[(k - 1) + 2] >= u[k - 1] + 1
      BY <1>6, <3>1, <3>2 DEF PastEdges
    <3>4. k # d /\ (k - 1) + 2 = k + 1
      BY <1>2, <3>3
    <3>5. k + 1 \in Diagonals(d - 1) /\ k + 2 \in Diagonals(d) /\ k + 2 # -d /\ (k + 2) - 1 = k + 1
      BY <3>4, DiagonalsMeet
    <3>6. u[k + 1] \in Nat
      BY <1>6, <3>5 DEF Before, InQuadrant
    <3>7. v[k + 2] \in Nat /\ v[k + 2] >= Entry(u, d, k + 2) /\ Entry(u, d, k + 2) \in Nat
          /\ Entry(u, d, k + 2) >= u[k + 1] + 1
      BY <1>4, <1>6, <3>5, EntryIs
    <3>8. v[k + 2] >= u[k + 1] + 1 /\ u[k + 1] >= x
      BY <3>1, <3>3, <3>4, <3>6, <3>7
    <3> QED BY <1>2, <2>1, <3>4, <3>6, <3>7, <3>8
  <2> QED BY <2>2, <2>3
<1>7. ASSUME d >= 1, v[k] > n
      PROVE  k # -d /\ v[k - 2] >= v[k] - 1
  <2>1. v[k] = x
    BY <1>2, <1>3, <1>7
  <2>2. CASE ~Down(u, d, k)
    <3>1. k # -d /\ x = u[k - 1] + 1 /\ k - 1 \in Diagonals(d - 1) /\ u[k - 1] \in Nat
      BY <1>1, <1>7, <2>2, EntryIs, DiagonalsMeet DEF Before, InQuadrant
    <3>2. k - 2 \in Diagonals(d) /\ k - 2 # d /\ (k - 2) + 1 = k - 1
      BY <3>1, DiagonalsMeet
    <3>3. v[k - 2] \in Nat /\ v[k - 2] >= Entry(u, d, k - 2) /\ Entry(u, d, k - 2) \in Nat
          /\ Entry(u, d, k - 2) >= u[k - 1]
      BY <1>4, <1>7, <3>2, EntryIs
    <3> QED BY <1>2, <2>1, <3>1, <3>3
  <2>3. CASE Down(u, d, k)
    <3>1. k # d /\ x = u[k + 1] /\ k + 1 \in Diagonals(d - 1)
      BY <1>1, <1>7, <2>3, EntryIs, DiagonalsMeet
    <3>2. u[k + 1] > n
      BY <1>7, <2>1, <3>1
    <3>3. k + 1 # -(d - 1) /\ u[(k + 1) - 2] >= u[k + 1] - 1
      BY <1>7, <3>1, <3>2 DEF PastEdges
    <3>4. k # -d /\ (k + 1) - 2 = k - 1
      BY <1>2, <3>3
    <3>5. k - 1 \in Diagonals(d - 1) /\ k - 2 \in Diagonals(d) /\ k - 2 # d /\ (k - 2) + 1 = k - 1
      BY <3>4, DiagonalsMeet
    <3>6. u[k - 1] \in Nat
      BY <1>7, <3>5 DEF Before, InQuadrant
    <3>7. v[k - 2] \in Nat /\ v[k - 2] >= Entry(u, d, k - 2) /\ Entry(u, d, k - 2) \in Nat
          /\ Entry(u, d, k - 2) >= u[k - 1]
      BY <1>4, <1>7, <3>5, EntryIs
    <3>8. u[k - 1] >= x - 1
      BY <3>1, <3>3, <3>4
    <3> QED BY <1>2, <2>1, <3>4, <3>6, <3>7, <3>8
  <2> QED BY <2>2, <2>3
<1>8. d >= 1 \/ d = 0
  OBVIOUS
<1> QED BY <1>5, <1>6, <1>7, <1>8

\* The induction of the search: lines that are the same are slid over, and any other
\* step costs an edit.
LEMMA GoesFurthest ==
  ASSUME FilesOK, NEW d \in Nat, NEW u, NEW v, Before(u, d), d >= 1 => Furthest(u, d - 1), Turn(u, v, d)
  PROVE  Furthest(v, d)
<1>1. n \in Nat /\ m \in Nat /\ prefix \in Nat
  BY MiddlesAre DEF FilesOK
<1>2. oldLines \in Seq(Letters) /\ newLines \in Seq(Letters)
  BY DEF FilesOK
<1>3. InQuadrant(v, d)
  BY StaysInQuadrant
<1> DEFINE Missed(i, j, P) ==
             /\ P \in Common(prefix + i, prefix + j)
             /\ i - j \in Diagonals(d) /\ i + j - 2 * (Cardinality(P) - prefix) <= d
             /\ ~(v[i - j] >= i)
           Fails == {i \in 0 .. n : \E j \in 0 .. m : \E P : Missed(i, j, P)}
<1> SUFFICES ASSUME Fails # {} PROVE FALSE
  BY DEF Furthest
<1>4. PICK i \in Fails : \A h \in Fails : i <= h
  <2> Fails \in SUBSET Nat
    BY <1>1
  <2> HIDE DEF Fails
  <2> QED BY LeastNatural
<1>5. PICK j \in 0 .. m : \E P : Missed(i, j, P)
  BY <1>4
<1>6. PICK P : Missed(i, j, P)
  BY <1>5
<1>7. i \in 0 .. n /\ i \in Nat /\ j \in Nat /\ i <= n /\ j <= m
  BY <1>1, <1>4, <1>5
<1>8. PICK k : k = i - j
  OBVIOUS
<1>9. k \in Diagonals(d) /\ v[k] \in Nat /\ v[k] >= k /\ v[k] < i /\ k \in Int
  BY <1>3, <1>6, <1>7, <1>8, DiagonalsMeet DEF InQuadrant
<1>10. i >= 1 /\ j >= 1
  BY <1>7, <1>8, <1>9
<1>11. PICK c : c = Cardinality(P)
  OBVIOUS
<1>12. c \in Nat /\ i + j - 2 * (c - prefix) <= d
  <2>1. prefix + i \in Nat /\ prefix + j \in Nat
    BY <1>1, <1>7
  <2>2. P \in Common(prefix + i, prefix + j) /\ i + j - 2 * (Cardinality(P) - prefix) <= d
    BY <1>6
  <2> HIDE DEF Missed, Fails
  <2>3. Cardinality(P) \in Nat
    BY <1>2, <2>1, <2>2, CommonIsShort
  <2> QED BY <1>11, <2>2, <2>3
<1>13. PICK x : x = Entry(u, d, k)
  OBVIOUS
<1>14. x \in Nat /\ v[k] >= x
  BY <1>9, <1>13, EntryIs, ReachedIs DEF Turn, Slides
<1>15. PICK a \in Nat \ {0}, b \in Nat \ {0} : a = prefix + i /\ b = prefix + j
  BY <1>1, <1>7, <1>10
<1>16. a - 1 = prefix + (i - 1) /\ b - 1 = prefix + (j - 1) /\ i - 1 \in Nat /\ j - 1 \in Nat
       /\ a - 1 \in Nat /\ b - 1 \in Nat
  BY <1>1, <1>7, <1>10, <1>15
<1>17. CASE P \in Common(a - 1, b)
  <2>1. c <= a - 1 /\ c <= b
    BY <1>2, <1>11, <1>16, <1>17, CommonIsShort
  <2>2. d >= 1 /\ k # -d /\ (i - 1) - j = k - 1 /\ (i - 1) + j - 2 * (c - prefix) <= d - 1
    BY <1>1, <1>7, <1>8, <1>9, <1>12, <1>15, <2>1
  <2>3. k - 1 \in Diagonals(d - 1) /\ i - 1 \in 0 .. n
    <3>1. k - 1 \in Diagonals(d - 1)
      BY <1>9, <2>2, DiagonalsMeet
    <3>2. i - 1 \in 0 .. n
      BY <1>1, <1>7, <1>10
    <3> QED BY <3>1, <3>2
  <2>4. P \in Common(prefix + (i - 1), prefix + j)
    BY <1>15, <1>16, <1>17
  <2>5. u[k - 1] >= i - 1
    BY <1>5, <1>11, <2>2, <2>3, <2>4 DEF Furthest
  <2>6. u[k - 1] \in Nat /\ x >= u[k - 1] + 1
    BY <1>9, <1>13, <2>2, <2>3, EntryIs DEF Before, InQuadrant
  <2> QED BY <1>7, <1>9, <1>14, <2>5, <2>6
<1>18. CASE P \in Common(a, b - 1)
  <2>1. c <= a /\ c <= b - 1
    BY <1>2, <1>11, <1>16, <1>18, CommonIsShort
  <2>2. d >= 1 /\ k # d /\ i - (j - 1) = k + 1 /\ i + (j - 1) - 2 * (c - prefix) <= d - 1
    BY <1>1, <1>7, <1>8, <1>9, <1>12, <1>15, <2>1
  <2>3. k + 1 \in Diagonals(d - 1) /\ j - 1 \in 0 .. m
    <3>1. k + 1 \in Diagonals(d - 1)
      BY <1>9, <2>2, DiagonalsMeet
    <3>2. j - 1 \in 0 .. m
      BY <1>1, <1>7, <1>10
    <3> QED BY <3>1, <3>2
  <2>4. P \in Common(prefix + i, prefix + (j - 1))
    BY <1>15, <1>16, <1>18
  <2>5. u[k + 1] >= i
    BY <1>7, <1>11, <2>2, <2>3, <2>4 DEF Furthest
  <2>6. u[k + 1] \in Nat /\ x >= u[k + 1]
    BY <1>9, <1>13, <2>2, <2>3, EntryIs DEF Before, InQuadrant
  <2> QED BY <1>7, <1>9, <1>14, <2>5, <2>6
<1>19. ASSUME NEW Q \in Common(a - 1, b - 1), Cardinality(Q) = Cardinality(P) - 1, oldLines[a] = newLines[b]
       PROVE  FALSE
  <2>1. i - 1 \in 0 .. n /\ j - 1 \in 0 .. m /\ (i - 1) - (j - 1) = k
    <3>1. i - 1 \in 0 .. n /\ j - 1 \in 0 .. m
      BY <1>1, <1>7, <1>10
    <3>2. (i - 1) - (j - 1) = i - j
      BY <1>7
    <3> QED BY <1>8, <3>1, <3>2
  <2>2. i - 1 \notin Fails
    BY <1>4, <1>7
  <2>3. Cardinality(Q) = c - 1 /\ (i - 1) + (j - 1) - 2 * ((c - 1) - prefix) <= d
    BY <1>1, <1>7, <1>11, <1>12, <1>19
  <2>4. Q \in Common(prefix + (i - 1), prefix + (j - 1))
    BY <1>16
  <2>5. v[k] >= i - 1
    BY <1>9, <2>1, <2>2, <2>3, <2>4
  <2> HIDE DEF Fails
  <2>6. v[k] + 1 = i /\ v[k] - k + 1 = j
    BY <1>7, <1>8, <1>9, <2>5
  <2>7. OldMiddle[i] = NewMiddle[j]
    BY <1>7, <1>10, <1>15, <1>19, MiddlesAre, SMTT(30)
  <2>8. PICK z : z = Reached(u, d, k) /\ z = v[k]
    BY <1>9 DEF Turn
  <2>9. ~(z + 1 <= n /\ z - k + 1 <= m /\ OldMiddle[z + 1] = NewMiddle[z - k + 1])
    <3>1. Slides(x, k, z)
      BY <1>9, <1>13, <2>8, ReachedIs
    <3> QED BY <3>1 DEF Slides
  <2> QED BY <1>7, <2>6, <2>7, <2>8, <2>9
<1>20. P \in Common(a, b)
  BY <1>6, <1>15
<1>21. \/ P \in Common(a - 1, b)
       \/ P \in Common(a, b - 1)
       \/ \E Q \in Common(a - 1, b - 1) : Cardinality(Q) = Cardinality(P) - 1 /\ oldLines[a] = newLines[b]
  <2> HIDE DEF Missed, Fails
  <2> QED BY <1>2, <1>20, CommonEnds
<1> QED BY <1>17, <1>18, <1>19, <1>21

\* A search that stops has met the end of both files exactly: what is past it would
\* have met it a turn before.
LEMMA StopsAtCorner ==
  ASSUME FilesOK, n >= 1, m >= 1, NEW d \in Nat, NEW u, NEW v, Before(u, d),
         d >= 1 => PastEdges(u, d - 1) /\ NotDone(u, d - 1),
         Turn(u, v, d), NEW k \in Diagonals(d), AtEnd(v, k)
  PROVE  k = n - m /\ v[k] = n
<1>1. PICK x : x = Entry(u, d, k)
  OBVIOUS
<1>2. k \in Int /\ x \in Nat /\ n \in Nat /\ m \in Nat
  BY <1>1, EntryIs, DiagonalsMeet, MiddlesAre
<1>3. v[k] \in Nat /\ v[k] >= x /\ (v[k] > x => v[k] <= n /\ v[k] - k <= m)
  BY <1>1, ReachedIs DEF Turn, Slides
<1>4. v[k] >= n /\ v[k] - k >= m
  BY DEF AtEnd, n, m
<1>5. CASE v[k] > x
  BY <1>2, <1>3, <1>4, <1>5
<1>6. CASE v[k] = x /\ d = 0
  BY <1>1, <1>2, <1>4, <1>6, EntryIs
<1>7. d >= 1 => \A l \in Diagonals(d - 1) : u[l] \in Nat /\ ~(u[l] >= n /\ u[l] - l >= m)
  BY DEF Before, InQuadrant, NotDone, AtEnd, n, m
<1>8. CASE v[k] = x /\ d >= 1 /\ Down(u, d, k)
  <2>1. k # d /\ x = u[k + 1] /\ k + 1 \in Diagonals(d - 1)
    BY <1>1, <1>8, EntryIs, DiagonalsMeet
  <2>2. ~(u[k + 1] >= n /\ u[k + 1] - (k + 1) >= m)
    BY <1>8, <1>7, <2>1
  <2>3. x - k = m
    <3>1. u[k + 1] \in Nat
      BY <1>8, <1>7, <2>1
    <3>2. ~(x >= n /\ x - (k + 1) >= m)
      BY <2>1, <2>2
    <3>3. x >= n /\ x - k >= m
      BY <1>4, <1>8
    <3> QED BY <1>2, <3>2, <3>3
  <2>4. ASSUME x > n PROVE FALSE
    <3>1. k + 1 # -(d - 1) /\ u[(k + 1) - 2] >= u[k + 1] - 1
      BY <1>8, <2>1, <2>4 DEF PastEdges
    <3>2. k # -d /\ (k + 1) - 2 = k - 1
      BY <1>2, <3>1
    <3>3. k - 1 \in Diagonals(d - 1) /\ u[k - 1] >= x - 1
      BY <2>1, <3>1, <3>2, DiagonalsMeet
    <3>4. u[k - 1] \in Nat /\ ~(u[k - 1] >= n /\ u[k - 1] - (k - 1) >= m)
      BY <1>8, <1>7, <3>3
    <3> QED BY <1>2, <2>3, <2>4, <3>3, <3>4
  <2> QED BY <1>2, <1>4, <1>8, <2>3, <2>4
<1>9. CASE v[k] = x /\ d >= 1 /\ ~Down(u, d, k)
  <2>1. k # -d /\ x = u[k - 1] + 1 /\ k - 1 \in Diagonals(d - 1)
    BY <1>1, <1>9, EntryIs, DiagonalsMeet
  <2>2. u[k - 1] \in Nat /\ ~(u[k - 1] >= n /\ u[k - 1] - (k - 1) >= m)
    BY <1>9, <1>7, <2>1
  <2>3. x = n
    BY <1>2, <1>4, <1>9, <2>1, <2>2
  <2>4. ASSUME x - k > m PROVE FALSE
    <3>1. u[k - 1] - (k - 1) > m
      BY <1>2, <2>1, <2>2, <2>4
    <3>2. k - 1 # d - 1 /\ u[(k - 1) + 2] >= u[k - 1] + 1
      BY <1>9, <2>1, <3>1 DEF PastEdges
    <3>3. k # d /\ (k - 1) + 2 = k + 1
      BY <1>2, <3>2
    <3>4. k + 1 \in Diagonals(d - 1) /\ u[k + 1] >= x
      BY <2>1, <3>2, <3>3, DiagonalsMeet
    <3>5. u[k + 1] \in Nat /\ ~(u[k + 1] >= n /\ u[k + 1] - (k + 1) >= m)
      BY <1>9, <1>7, <3>4
    <3> QED BY <1>2, <2>3, <2>4, <3>4, <3>5
  <2> QED BY <1>2, <1>4, <1>9, <2>3, <2>4
<1> QED BY <1>2, <1>3, <1>5, <1>6, <1>8, <1>9

\* The search cannot miss the end of the files for longer than a common subsequence
\* takes to it, nor past n + m.
LEMMA EndIsReached ==
  ASSUME FilesOK, NEW P \in Common(prefix + n, prefix + m),
         NEW e, e = n + m - 2 * (Cardinality(P) - prefix), NEW v, InQuadrant(v, e), Furthest(v, e)
  PROVE  e \in Nat /\ n - m \in Diagonals(e) /\ AtEnd(v, n - m)
<1>1. n \in Nat /\ m \in Nat /\ prefix \in Nat /\ prefix + n \in Nat /\ prefix + m \in Nat
  BY MiddlesAre DEF FilesOK
<1>2. PICK c : c = Cardinality(P)
  OBVIOUS
<1>3. c \in Nat /\ c <= prefix + n /\ c <= prefix + m
  BY <1>1, <1>2, CommonIsShort DEF FilesOK
<1>4. PICK q \in Int : q = c - prefix
  BY <1>1, <1>3
<1>5. e \in Nat /\ n - m \in Diagonals(e)
  <2>1. n - m <= n + m - 2 * q /\ m - n <= n + m - 2 * q
    BY <1>1, <1>3, <1>4
  <2>2. n \in Int /\ m \in Int /\ q \in Int
    BY <1>1
  <2>3. n + m - 2 * q \in Nat /\ n - m \in Diagonals(n + m - 2 * q)
    BY <2>1, <2>2, DiagonalOf
  <2>4. e = n + m - 2 * q
    BY <1>2, <1>4
  <2> QED BY <2>3, <2>4
<1>6. v[n - m] >= n
  BY <1>1, <1>5 DEF Furthest
<1>7. v[n - m] \in Nat
  BY <1>5 DEF InQuadrant
<1>8. v[n - m] - (n - m) >= m
  BY <1>1, <1>6, <1>7
<1> QED BY <1>5, <1>6, <1>8 DEF AtEnd, n, m

LEMMA EndIsReachedAtLast ==
  ASSUME FilesOK, NEW v, InQuadrant(v, n + m)
  PROVE  n - m \in Diagonals(n + m) /\ AtEnd(v, n - m)
<1>1. n \in Nat /\ m \in Nat
  BY MiddlesAre
<1>2. n - m \in Diagonals(n + m)
  BY <1>1 DEF Diagonals
<1>3. v[n - m] \in Nat /\ 2 * v[n - m] - (n - m) >= n + m
  BY <1>2 DEF InQuadrant
<1>4. v[n - m] >= n /\ v[n - m] - (n - m) >= m
  BY <1>1, <1>3
<1> QED BY <1>2, <1>4 DEF AtEnd, n, m

-----------------------------------------------------------------------------
(***************************************************************************)
(* Walks: edits that go through the files from one pair of places to       *)
(* another.  A place is the number of lines passed.                        *)
(***************************************************************************)
IsStep(e, x, y, x1, y1) ==
  \/ e = Equal(x, y) /\ x1 = x + 1 /\ y1 = y + 1 /\ oldLines[x + 1] = newLines[y + 1]
  \/ e = Insert(y) /\ x1 = x /\ y1 = y + 1
  \/ e = Delete(x) /\ x1 = x + 1 /\ y1 = y

\* f and g are the old and the new lines passed.
Walks(s, f, g) ==
  /\ f \in [0 .. Len(s) -> Nat] /\ g \in [0 .. Len(s) -> Nat]
  /\ \A i \in 1 .. Len(s) : IsStep(s[i], f[i - 1], g[i - 1], f[i], g[i])

IsWalk(s, x, y, x1, y1) ==
  /\ s \in Seq(LineEdit)
  /\ \E f, g : Walks(s, f, g) /\ f[0] = x /\ g[0] = y /\ f[Len(s)] = x1 /\ g[Len(s)] = y1

LEMMA FunctionIsSequence ==
  ASSUME NEW S, NEW r \in Nat, NEW s \in [1 .. r -> S]
  PROVE  s \in Seq(S) /\ Len(s) = r
OBVIOUS

LEMMA EmptyWalk ==
  ASSUME NEW x \in Nat, NEW y \in Nat
  PROVE  IsWalk(<<>>, x, y, x, y)
<1> DEFINE f == [i \in 0 .. 0 |-> x]
           g == [i \in 0 .. 0 |-> y]
<1>1. <<>> \in Seq(LineEdit) /\ Len(<<>>) = 0 /\ 1 .. Len(<<>>) = {}
  OBVIOUS
<1>2. f \in [0 .. 0 -> Nat] /\ g \in [0 .. 0 -> Nat] /\ f[0] = x /\ g[0] = y
  OBVIOUS
<1> HIDE DEF f, g
<1>3. Walks(<<>>, f, g)
  BY <1>1, <1>2 DEF Walks
<1> QED BY <1>1, <1>2, <1>3 DEF IsWalk

LEMMA StepIsEdit ==
  ASSUME NEW x \in Nat, NEW y \in Nat, NEW e, NEW x1, NEW y1, IsStep(e, x, y, x1, y1)
  PROVE  e \in LineEdit /\ x1 \in Nat /\ y1 \in Nat
<1>1. x \in Int /\ y \in Int /\ -1 \in Int
  OBVIOUS
<1>2. CASE e = Equal(x, y) /\ x1 = x + 1 /\ y1 = y + 1
  BY <1>1, <1>2 DEF Equal, LineEdit
<1>3. CASE e = Insert(y) /\ x1 = x /\ y1 = y + 1
  BY <1>1, <1>3 DEF Insert, LineEdit
<1>4. CASE e = Delete(x) /\ x1 = x + 1 /\ y1 = y
  BY <1>1, <1>4 DEF Delete, LineEdit
<1> QED BY <1>2, <1>3, <1>4 DEF IsStep

LEMMA OneStepWalk ==
  ASSUME NEW x \in Nat, NEW y \in Nat, NEW e, NEW x1, NEW y1, IsStep(e, x, y, x1, y1)
  PROVE  IsWalk(<<e>>, x, y, x1, y1)
<1> DEFINE f == [i \in 0 .. 1 |-> IF i = 0 THEN x ELSE x1]
           g == [i \in 0 .. 1 |-> IF i = 0 THEN y ELSE y1]
<1>1. e \in LineEdit /\ x1 \in Nat /\ y1 \in Nat
  BY StepIsEdit
<1>2. <<e>> \in Seq(LineEdit) /\ Len(<<e>>) = 1 /\ <<e>>[1] = e
  BY <1>1
<1>3. f \in [0 .. 1 -> Nat] /\ g \in [0 .. 1 -> Nat] /\ f[0] = x /\ g[0] = y /\ f[1] = x1 /\ g[1] = y1
  BY <1>1
<1> HIDE DEF f, g
<1>4. \A i \in 1 .. 1 : IsStep(<<e>>[i], f[i - 1], g[i - 1], f[i], g[i])
  <2> SUFFICES ASSUME NEW i \in 1 .. 1 PROVE IsStep(<<e>>[i], f[i - 1], g[i - 1], f[i], g[i])
    OBVIOUS
  <2>1. i = 1 /\ i - 1 = 0
    OBVIOUS
  <2> QED BY <1>2, <1>3, <2>1
<1>5. Walks(<<e>>, f, g)
  BY <1>2, <1>3, <1>4 DEF Walks
<1> QED BY <1>2, <1>3, <1>5 DEF IsWalk

LEMMA WalksJoin ==
  ASSUME NEW s, NEW t, NEW x, NEW y, NEW x1, NEW y1, NEW x2, NEW y2,
         IsWalk(s, x, y, x1, y1), IsWalk(t, x1, y1, x2, y2)
  PROVE  IsWalk(s \o t, x, y, x2, y2) /\ Len(s \o t) = Len(s) + Len(t)
<1>1. s \in Seq(LineEdit) /\ t \in Seq(LineEdit)
  BY DEF IsWalk
<1>2. PICK a, b \in Nat : a = Len(s) /\ b = Len(t)
  BY <1>1
<1>3. PICK f1, g1 : Walks(s, f1, g1) /\ f1[0] = x /\ g1[0] = y /\ f1[a] = x1 /\ g1[a] = y1
  BY <1>2 DEF IsWalk
<1>4. PICK f2, g2 : Walks(t, f2, g2) /\ f2[0] = x1 /\ g2[0] = y1 /\ f2[b] = x2 /\ g2[b] = y2
  BY <1>2 DEF IsWalk
<1>5. /\ f1 \in [0 .. a -> Nat] /\ g1 \in [0 .. a -> Nat] /\ f2 \in [0 .. b -> Nat] /\ g2 \in [0 .. b -> Nat]
      /\ \A i \in 1 .. a : IsStep(s[i], f1[i - 1], g1[i - 1], f1[i], g1[i])
      /\ \A i \in 1 .. b : IsStep(t[i], f2[i - 1], g2[i - 1], f2[i], g2[i])
  BY <1>2, <1>3, <1>4 DEF Walks
<1>6. /\ s \o t \in Seq(LineEdit) /\ Len(s \o t) = a + b
      /\ \A i \in 1 .. a : (s \o t)[i] = s[i]
      /\ \A i \in a + 1 .. a + b : (s \o t)[i] = t[i - a]
  BY <1>1, <1>2
<1>7. PICK w : w = s \o t
  OBVIOUS
<1> DEFINE f == [i \in 0 .. a + b |-> IF i <= a THEN f1[i] ELSE f2[i - a]]
           g == [i \in 0 .. a + b |-> IF i <= a THEN g1[i] ELSE g2[i - a]]
<1>8. \A i \in 0 .. a + b : i <= a => i \in 0 .. a /\ f[i] = f1[i] /\ g[i] = g1[i]
  OBVIOUS
<1>9. \A i \in 0 .. a + b : i >= a => i - a \in 0 .. b /\ f[i] = f2[i - a] /\ g[i] = g2[i - a]
  <2> SUFFICES ASSUME NEW i \in 0 .. a + b, i >= a
               PROVE  i - a \in 0 .. b /\ f[i] = f2[i - a] /\ g[i] = g2[i - a]
    OBVIOUS
  <2>1. i - a \in 0 .. b
    OBVIOUS
  <2>2. CASE i = a
    <3>1. i - a = 0 /\ f[i] = f1[a] /\ g[i] = g1[a]
      BY <2>2
    <3> QED BY <1>3, <1>4, <2>1, <3>1
  <2>3. CASE i > a
    BY <2>1, <2>3
  <2> QED BY <2>2, <2>3
<1>10. f \in [0 .. a + b -> Nat] /\ g \in [0 .. a + b -> Nat]
  <2>1. \A i \in 0 .. a + b : f[i] \in Nat /\ g[i] \in Nat
    <3> SUFFICES ASSUME NEW i \in 0 .. a + b PROVE f[i] \in Nat /\ g[i] \in Nat
      OBVIOUS
    <3>1. CASE i <= a
      <4>1. i \in 0 .. a /\ f[i] = f1[i] /\ g[i] = g1[i]
        BY <1>8, <3>1
      <4> HIDE DEF f, g
      <4> QED BY <1>5, <4>1
    <3>2. CASE i >= a
      <4>1. i - a \in 0 .. b /\ f[i] = f2[i - a] /\ g[i] = g2[i - a]
        BY <1>9, <3>2
      <4> HIDE DEF f, g
      <4> QED BY <1>5, <4>1
    <3> QED BY <3>1, <3>2
  <2> QED BY <2>1
<1>11. 0 \in 0 .. a + b /\ a + b \in 0 .. a + b /\ a + b >= a /\ a + b - a = b
  OBVIOUS
<1>12. f[0] = x /\ g[0] = y /\ f[a + b] = x2 /\ g[a + b] = y2
  <2> HIDE DEF f, g
  <2>1. f[0] = x /\ g[0] = y
    BY <1>3, <1>8, <1>11
  <2>2. f[a + b] = f2[a + b - a] /\ g[a + b] = g2[a + b - a]
    BY <1>9, <1>11
  <2> QED BY <1>4, <1>11, <2>1, <2>2
<1> HIDE DEF f, g
<1>13. ASSUME NEW i \in 1 .. a + b PROVE IsStep(w[i], f[i - 1], g[i - 1], f[i], g[i])
  <2>1. i \in 0 .. a + b /\ i - 1 \in 0 .. a + b
    OBVIOUS
  <2>2. CASE i <= a
    <3>1. i \in 1 .. a /\ i - 1 <= a
      BY <2>2
    <3>2. w[i] = s[i] /\ f[i] = f1[i] /\ g[i] = g1[i] /\ f[i - 1] = f1[i - 1] /\ g[i - 1] = g1[i - 1]
      BY <1>6, <1>7, <1>8, <2>1, <3>1
    <3> QED BY <1>5, <3>1, <3>2
  <2>3. CASE i > a
    <3>1. PICK h : h = i - a
      OBVIOUS
    <3>2. h \in 1 .. b /\ i \in a + 1 .. a + b /\ i - 1 >= a /\ i >= a /\ (i - 1) - a = h - 1
      BY <2>3, <3>1
    <3>3. w[i] = t[h] /\ f[i] = f2[h] /\ g[i] = g2[h] /\ f[i - 1] = f2[h - 1] /\ g[i - 1] = g2[h - 1]
      BY <1>6, <1>7, <1>9, <2>1, <3>1, <3>2
    <3> QED BY <1>5, <3>2, <3>3
  <2> QED BY <2>2, <2>3
<1>14. Walks(w, f, g)
  BY <1>6, <1>7, <1>10, <1>13 DEF Walks
<1> QED BY <1>2, <1>6, <1>7, <1>12, <1>14 DEF IsWalk

\* r lines that are the same.
Runs(x, y, r) == \A s \in 1 .. r : oldLines[x + s] = newLines[y + s]

LEMMA RunWalks ==
  ASSUME NEW a \in Nat, NEW b \in Nat, NEW r \in Nat, NEW s,
         s = [i \in 1 .. r |-> Equal(a + i - 1, b + i - 1)],
         Runs(a, b, r)
  PROVE  IsWalk(s, a, b, a + r, b + r) /\ Len(s) = r
<1> DEFINE f == [i \in 0 .. r |-> a + i]
           g == [i \in 0 .. r |-> b + i]
<1>1. f \in [0 .. r -> Nat] /\ g \in [0 .. r -> Nat] /\ f[0] = a /\ g[0] = b /\ f[r] = a + r /\ g[r] = b + r
  OBVIOUS
<1>2. ASSUME NEW i \in 1 .. r PROVE s[i] \in LineEdit /\ IsStep(s[i], f[i - 1], g[i - 1], f[i], g[i])
  <2>1. i - 1 \in 0 .. r /\ i \in 0 .. r
    OBVIOUS
  <2>2. f[i - 1] = a + i - 1 /\ g[i - 1] = b + i - 1 /\ f[i] = (a + i - 1) + 1 /\ g[i] = (b + i - 1) + 1
    BY <2>1
  <2>3. s[i] = Equal(a + i - 1, b + i - 1)
    OBVIOUS
  <2>4. oldLines[(a + i - 1) + 1] = newLines[(b + i - 1) + 1]
    <3>1. (a + i - 1) + 1 = a + i /\ (b + i - 1) + 1 = b + i
      OBVIOUS
    <3> QED BY <3>1 DEF Runs
  <2>5. a + i - 1 \in Nat /\ b + i - 1 \in Nat
    OBVIOUS
  <2> HIDE DEF f, g
  <2>6. IsStep(s[i], f[i - 1], g[i - 1], f[i], g[i])
    BY <2>2, <2>3, <2>4 DEF IsStep
  <2>7. f[i - 1] \in Nat /\ g[i - 1] \in Nat
    BY <1>1, <2>1
  <2> QED BY <2>6, <2>7, StepIsEdit
<1>3. s \in Seq(LineEdit) /\ Len(s) = r
  <2>1. \A i \in 1 .. r : s[i] \in LineEdit
    BY <1>2
  <2>2. s \in [1 .. r -> LineEdit]
    BY <2>1
  <2> QED BY <2>2, FunctionIsSequence
<1> HIDE DEF f, g
<1>4. Walks(s, f, g)
  BY <1>1, <1>2, <1>3 DEF Walks
<1> QED BY <1>1, <1>3, <1>4 DEF IsWalk

\* New lines, and old lines, without the other side.
LEMMA InsertsWalk ==
  ASSUME NEW a \in Nat, NEW b \in Nat, NEW r \in Nat, NEW s,
         s = [i \in 1 .. r |-> Insert(b + i - 1)]
  PROVE  IsWalk(s, a, b, a, b + r) /\ Len(s) = r
<1> DEFINE f == [i \in 0 .. r |-> a]
           g == [i \in 0 .. r |-> b + i]
<1>1. f \in [0 .. r -> Nat] /\ g \in [0 .. r -> Nat] /\ f[0] = a /\ g[0] = b /\ f[r] = a /\ g[r] = b + r
  OBVIOUS
<1>2. ASSUME NEW i \in 1 .. r PROVE s[i] \in LineEdit /\ IsStep(s[i], f[i - 1], g[i - 1], f[i], g[i])
  <2>1. i - 1 \in 0 .. r /\ i \in 0 .. r
    OBVIOUS
  <2>2. f[i - 1] = a /\ g[i - 1] = b + i - 1 /\ f[i] = a /\ g[i] = (b + i - 1) + 1
    BY <2>1
  <2>3. s[i] = Insert(b + i - 1) /\ b + i - 1 \in Nat
    OBVIOUS
  <2> HIDE DEF f, g
  <2>4. IsStep(s[i], f[i - 1], g[i - 1], f[i], g[i])
    BY <2>2, <2>3 DEF IsStep
  <2>5. f[i - 1] \in Nat /\ g[i - 1] \in Nat
    BY <1>1, <2>1
  <2> QED BY <2>4, <2>5, StepIsEdit
<1>3. s \in Seq(LineEdit) /\ Len(s) = r
  <2>1. \A i \in 1 .. r : s[i] \in LineEdit
    BY <1>2
  <2>2. s \in [1 .. r -> LineEdit]
    BY <2>1
  <2> QED BY <2>2, FunctionIsSequence
<1> HIDE DEF f, g
<1>4. Walks(s, f, g)
  BY <1>1, <1>2, <1>3 DEF Walks
<1> QED BY <1>1, <1>3, <1>4 DEF IsWalk

LEMMA DeletesWalk ==
  ASSUME NEW a \in Nat, NEW b \in Nat, NEW r \in Nat, NEW s,
         s = [i \in 1 .. r |-> Delete(a + i - 1)]
  PROVE  IsWalk(s, a, b, a + r, b) /\ Len(s) = r
<1> DEFINE f == [i \in 0 .. r |-> a + i]
           g == [i \in 0 .. r |-> b]
<1>1. f \in [0 .. r -> Nat] /\ g \in [0 .. r -> Nat] /\ f[0] = a /\ g[0] = b /\ f[r] = a + r /\ g[r] = b
  OBVIOUS
<1>2. ASSUME NEW i \in 1 .. r PROVE s[i] \in LineEdit /\ IsStep(s[i], f[i - 1], g[i - 1], f[i], g[i])
  <2>1. i - 1 \in 0 .. r /\ i \in 0 .. r
    OBVIOUS
  <2>2. f[i - 1] = a + i - 1 /\ g[i - 1] = b /\ f[i] = (a + i - 1) + 1 /\ g[i] = b
    BY <2>1
  <2>3. s[i] = Delete(a + i - 1) /\ a + i - 1 \in Nat
    OBVIOUS
  <2> HIDE DEF f, g
  <2>4. IsStep(s[i], f[i - 1], g[i - 1], f[i], g[i])
    BY <2>2, <2>3 DEF IsStep
  <2>5. f[i - 1] \in Nat /\ g[i - 1] \in Nat
    BY <1>1, <2>1
  <2> QED BY <2>4, <2>5, StepIsEdit
<1>3. s \in Seq(LineEdit) /\ Len(s) = r
  <2>1. \A i \in 1 .. r : s[i] \in LineEdit
    BY <1>2
  <2>2. s \in [1 .. r -> LineEdit]
    BY <2>1
  <2> QED BY <2>2, FunctionIsSequence
<1> HIDE DEF f, g
<1>4. Walks(s, f, g)
  BY <1>1, <1>2, <1>3 DEF Walks
<1> QED BY <1>1, <1>3, <1>4 DEF IsWalk

-----------------------------------------------------------------------------
(***************************************************************************)
(* The inductive invariant.                                                *)
(***************************************************************************)

\* The frontier before turn d of the search.
Reach(d) == IF d < Len(trace) THEN trace[d + 1] ELSE frontier

Grid == [-MaxDistance .. MaxDistance -> Int]

KindsInv ==
  /\ oldLines \in Seq(Letters) /\ newLines \in Seq(Letters)
  /\ context \in Nat \ {0}
  /\ prefix \in Nat /\ suffix \in Nat
  /\ frontier \in [DOMAIN frontier -> Int]
  /\ back \in [d : Int, x : Int, y : Int]
  /\ script \in Seq(LineEdit)
  /\ diffAt \in {"trim", "search", "back", "group", "done"}

TrimInv ==
  /\ diffAt = "trim" => trace = <<>> /\ hunks = <<>>
  /\ diffAt # "trim" => FilesOK
  /\ diffAt # "done" => hunks = <<>>

SearchInv == diffAt \in {"search", "back"} =>
  /\ n >= 1 /\ m >= 1
  /\ trace \in Seq(Grid) /\ frontier \in Grid
  /\ \A u : u = Reach(0) => u[1] = 0
  /\ \A d \in Nat : \A u, v :
       d < Len(trace) /\ u = Reach(d) /\ v = Reach(d + 1) => Turn(u, v, d) /\ Good(v, d)
  /\ \A d \in Nat : \A v :
       d < Len(trace) /\ (diffAt = "back" => d + 1 < Len(trace)) /\ v = Reach(d + 1) => NotDone(v, d)

EmptyInv == diffAt \in {"trim", "search"} => script = <<>>

\* The loop over d is a bounded one, and never comes to its end.
Converges == diffAt = "search" => Len(trace) <= MaxDistance

\* What is left to retrace ends where the frontier was, and the edits found so far go
\* on from there: one change a turn.
BackInv == diffAt = "back" =>
  /\ back \in [d : Nat, x : Nat, y : Nat]
  /\ back.d < Len(trace) /\ back.x <= n /\ back.y <= m
  /\ back.x - back.y \in Diagonals(back.d)
  /\ \A v : v = Reach(back.d + 1) => v[back.x - back.y] = back.x
  /\ IsWalk(script, prefix + back.x, prefix + back.y, prefix + n, prefix + m)
  /\ 2 * Len(script) - ((n - back.x) + (m - back.y)) = Len(trace) - 1 - back.d

GroupInv == diffAt = "group" =>
  /\ IsWalk(script, prefix, prefix, prefix + n, prefix + m)
  /\ \A P \in Common(prefix + n, prefix + m) : Cardinality(P) + Len(script) <= prefix + n + m

DoneInv == diffAt = "done" =>
  /\ IsWalk(script, 0, 0, Len(oldLines), Len(newLines))
  /\ \A P \in Common(Len(oldLines), Len(newLines)) : Cardinality(P) + Len(script) <= Len(oldLines) + Len(newLines)
  /\ LET ranges == Ranges(script) IN hunks = [i \in DOMAIN ranges |-> HunkOf(script, ranges[i])]

DiffInv == KindsInv /\ TrimInv /\ EmptyInv /\ SearchInv /\ Converges /\ BackInv /\ GroupInv /\ DoneInv

LEMMA SameFiles ==
  ASSUME UNCHANGED <<oldLines, newLines, prefix, suffix>>
  PROVE  /\ n' = n /\ m' = m /\ MaxDistance' = MaxDistance /\ Grid' = Grid
         /\ FilesOK <=> FilesOK'
         /\ \A a, b : Common(a, b)' = Common(a, b)
         /\ \A u, v, d : Turn(u, v, d) <=> Turn(u, v, d)'
         /\ \A v, d : Good(v, d) <=> Good(v, d)'
         /\ \A v, d : NotDone(v, d) <=> NotDone(v, d)'
         /\ \A s, x, y, x1, y1 : IsWalk(s, x, y, x1, y1) <=> IsWalk(s, x, y, x1, y1)'
<1>1. OldMiddle' = OldMiddle /\ NewMiddle' = NewMiddle
  BY DEF OldMiddle, NewMiddle
<1>2. n' = n /\ m' = m /\ MaxDistance' = MaxDistance
  BY <1>1 DEF n, m, MaxDistance
<1>3. Grid' = Grid
  BY <1>2 DEF Grid
<1>4. FilesOK <=> FilesOK'
  BY DEF FilesOK, Alike, AlikeAtEnd
<1>5. Matches' = Matches
  BY DEF Matches
<1>6. \A a, b : Common(a, b)' = Common(a, b)
  BY <1>5 DEF Common, InOrder
<1>7. \A x, y : Slide(x, y)' = Slide(x, y)
  BY <1>1, <1>2 DEF Slide
<1>8. \A u, d, k : Reached(u, d, k)' = Reached(u, d, k)
  BY <1>1, <1>2 DEF Slide, Reached, Down
<1>9. \A u, v, d : Turn(u, v, d) <=> Turn(u, v, d)'
  BY <1>8 DEF Turn
<1>10. \A v, k : AtEnd(v, k) <=> AtEnd(v, k)'
  BY <1>1 DEF AtEnd
<1>11. \A v, d : NotDone(v, d) <=> NotDone(v, d)'
  BY <1>10 DEF NotDone
<1>12. \A v, d : PastEdges(v, d) <=> PastEdges(v, d)'
  BY <1>2 DEF PastEdges
<1>13. \A v, d : Furthest(v, d) <=> Furthest(v, d)'
  BY <1>2, <1>5 DEF Furthest, Common, InOrder
<1>14. \A v, d : Good(v, d) <=> Good(v, d)'
  BY <1>12, <1>13 DEF Good, InQuadrant
<1>15. \A s, x, y, x1, y1 : IsWalk(s, x, y, x1, y1) <=> IsWalk(s, x, y, x1, y1)'
  BY DEF IsWalk, Walks, IsStep
<1> QED BY <1>2, <1>3, <1>4, <1>6, <1>9, <1>11, <1>14, <1>15

\* Common subsequences and walks depend on the files alone.
LEMMA SameLines ==
  ASSUME UNCHANGED <<oldLines, newLines>>
  PROVE  /\ \A a, b : Common(a, b)' = Common(a, b)
         /\ \A s, x, y, x1, y1 : IsWalk(s, x, y, x1, y1) <=> IsWalk(s, x, y, x1, y1)'
<1>1. Matches' = Matches
  BY DEF Matches
<1>2. \A a, b : Common(a, b)' = Common(a, b)
  BY <1>1 DEF Common, InOrder
<1>3. \A s, x, y, x1, y1 : IsWalk(s, x, y, x1, y1) <=> IsWalk(s, x, y, x1, y1)'
  BY DEF IsWalk, Walks, IsStep
<1> QED BY <1>2, <1>3

LEMMA InitIsRight ==
  DiffInit => DiffInv
<1> SUFFICES ASSUME DiffInit PROVE DiffInv
  OBVIOUS
<1>1. File \subseteq Seq(Letters)
  BY DEF File
<1>2. KindsInv
  BY <1>1, DiffAssumption DEF DiffInit, KindsInv
<1>3. TrimInv /\ EmptyInv /\ SearchInv /\ Converges /\ BackInv /\ GroupInv /\ DoneInv
  BY DEF DiffInit, TrimInv, EmptyInv, SearchInv, Converges, BackInv, GroupInv, DoneInv
<1> QED BY <1>2, <1>3 DEF DiffInv

-----------------------------------------------------------------------------
(***************************************************************************)
(* Trimming.                                                               *)
(***************************************************************************)
LEMMA TrimmedEnds ==
  ASSUME KindsInv, Trims
  PROVE  \E p \in Nat, q \in Nat :
           /\ p = prefix' /\ q = suffix'
           /\ p + q <= Len(oldLines) /\ p + q <= Len(newLines)
           /\ Alike(p) /\ AlikeAtEnd(q)
<1>1. PICK a \in Nat, b \in Nat : a = Len(oldLines) /\ b = Len(newLines)
  <2>1. oldLines \in Seq(Letters) /\ newLines \in Seq(Letters)
    BY DEF KindsInv
  <2> QED BY <2>1
<1>2. PICK c \in Nat : c = Shorter /\ c <= a /\ c <= b
  <2>1. Min({a, b}) = IF a <= b THEN a ELSE b
    BY LargerIs
  <2> QED BY <1>1, <2>1 DEF Shorter
<1> DEFINE T == {i \in 0 .. c : Alike(i)}
<1>3. PICK p : p \in T /\ p = Max(T)
  <2>1. T \in SUBSET Nat /\ \A i \in T : i <= c
    OBVIOUS
  <2>2. 0 \in T
    BY DEF Alike
  <2> HIDE DEF T
  <2>3. T # {}
    BY <2>2
  <2> QED BY <2>1, <2>3, LargestIs
<1>4. p = prefix'
  BY <1>2, <1>3 DEF Trims
<1>5. p \in Nat /\ p <= c /\ Alike(p)
  BY <1>3
<1>6. PICK e \in Nat : e = c - p
  BY <1>5
<1> DEFINE U == {i \in 0 .. e : AlikeAtEnd(i)}
<1>7. PICK q : q \in U /\ q = Max(U)
  <2>1. U \in SUBSET Nat /\ \A i \in U : i <= e
    OBVIOUS
  <2>2. 0 \in U
    BY DEF AlikeAtEnd
  <2> HIDE DEF U
  <2>3. U # {}
    BY <2>2
  <2> QED BY <2>1, <2>3, LargestIs
<1>8. q = suffix'
  BY <1>2, <1>4, <1>6, <1>7 DEF Trims
<1>9. q \in Nat /\ q <= e /\ AlikeAtEnd(q)
  BY <1>7
<1> HIDE DEF T, U
<1>10. p + q <= c
  BY <1>5, <1>6, <1>9
<1>11. p + q <= a /\ p + q <= b
  BY <1>2, <1>5, <1>9, <1>10
<1> QED BY <1>1, <1>4, <1>5, <1>8, <1>9, <1>11

LEMMA MiddleLength ==
  ASSUME NEW s \in Seq(Letters), NEW p \in Nat, NEW q \in Nat, p + q <= Len(s)
  PROVE  Len(SubSeq(s, p + 1, Len(s) - q)) = Len(s) - p - q
OBVIOUS

LEMMA TrimsStep ==
  ASSUME DiffInv, Trims
  PROVE  DiffInv'
<1>1. KindsInv /\ TrimInv
  BY DEF DiffInv
<1>2. PICK p \in Nat, q \in Nat :
        /\ p = prefix' /\ q = suffix' /\ p + q <= Len(oldLines) /\ p + q <= Len(newLines)
        /\ Alike(p) /\ AlikeAtEnd(q)
  BY <1>1, TrimmedEnds
<1>3. oldLines' = oldLines /\ newLines' = newLines /\ context' = context
  BY DEF Trims
<1>4. Len(oldLines) \in Nat /\ Len(newLines) \in Nat /\ oldLines \in Seq(Letters) /\ newLines \in Seq(Letters)
  BY <1>1 DEF KindsInv
<1>5. FilesOK'
  BY <1>2, <1>3, <1>4 DEF FilesOK, Alike, AlikeAtEnd
<1>6. PICK a \in Nat, b \in Nat : a = Len(oldLines) - p - q /\ b = Len(newLines) - p - q
  BY <1>2, <1>4
<1>7. n' = a /\ m' = b /\ MaxDistance' = a + b
  <2>1. n' = Len(SubSeq(oldLines, p + 1, Len(oldLines) - q))
    BY <1>2, <1>3 DEF n, OldMiddle
  <2>2. m' = Len(SubSeq(newLines, p + 1, Len(newLines) - q))
    BY <1>2, <1>3 DEF m, NewMiddle
  <2>3. n' = a
    <3>1. Len(SubSeq(oldLines, p + 1, Len(oldLines) - q)) = Len(oldLines) - p - q
      BY <1>2, <1>4, MiddleLength
    <3> QED BY <1>6, <2>1, <3>1
  <2>4. m' = b
    <3>1. Len(SubSeq(newLines, p + 1, Len(newLines) - q)) = Len(newLines) - p - q
      BY <1>2, <1>4, MiddleLength
    <3> QED BY <1>6, <2>2, <3>1
  <2> QED BY <2>3, <2>4 DEF MaxDistance, n, m
<1>8. /\ script' = CASE a = 0 -> [j \in 1 .. b |-> Insert(p + j - 1)]
                     [] b = 0 /\ a # 0 -> [i \in 1 .. a |-> Delete(p + i - 1)]
                     [] OTHER -> <<>>
      /\ diffAt' = IF a = 0 \/ b = 0 THEN "group" ELSE "search"
      /\ frontier' = [k \in -(a + b) .. a + b |-> 0]
      /\ trace' = trace /\ back' = back /\ hunks' = hunks /\ diffAt = "trim"
  BY <1>2, <1>6 DEF Trims
<1>9. trace' = <<>> /\ hunks' = <<>>
  BY <1>1, <1>8 DEF TrimInv
<1>10. TrimInv'
  BY <1>5, <1>8, <1>9 DEF TrimInv
<1>11. BackInv' /\ DoneInv'
  BY <1>8 DEF BackInv, DoneInv
<1>12. ASSUME script' \in Seq(LineEdit) PROVE KindsInv'
  BY <1>1, <1>2, <1>3, <1>8, <1>12 DEF KindsInv
<1>13. \A P \in Common(p + a, p + b) :
         IsFiniteSet(P) /\ Cardinality(P) \in Nat /\ Cardinality(P) <= p + a /\ Cardinality(P) <= p + b
  <2>1. PICK c \in Nat, e \in Nat : c = p + a /\ e = p + b
    OBVIOUS
  <2> QED BY <1>4, <2>1, CommonIsShort
<1>14. ASSUME a = 0 \/ b = 0, NEW s, s = script', IsWalk(s, p, p, p + a, p + b), Len(s) = a + b
       PROVE  DiffInv'
  <2>1. s \in Seq(LineEdit)
    BY <1>14 DEF IsWalk
  <2>2. SearchInv' /\ Converges' /\ EmptyInv'
    BY <1>8, <1>14 DEF EmptyInv, SearchInv, Converges
  <2>3. IsWalk(script, prefix, prefix, prefix + n, prefix + m)'
    <3>1. IsWalk(s, p, p, p + a, p + b)'
      BY <1>3, <1>14, SameLines
    <3> QED BY <1>2, <1>7, <1>14, <3>1
  <2>4. \A P \in Common(p + a, p + b) : Cardinality(P) + Len(s) <= p + a + b
    BY <1>13, <1>14
  <2>5. \A P \in Common(p + a, p + b)' : Cardinality(P) + Len(s) <= p + a + b
    BY <1>3, <2>4, SameLines
  <2>6. \A P \in Common(prefix + n, prefix + m)' : Cardinality(P) + Len(script') <= prefix' + n' + m'
    BY <1>2, <1>7, <1>14, <2>5 DEF Common
  <2>7. GroupInv'
    BY <2>3, <2>6 DEF GroupInv
  <2> QED BY <1>10, <1>11, <1>12, <1>14, <2>1, <2>2, <2>7 DEF DiffInv
<1>15. CASE a = 0
  <2>1. PICK s : s = [j \in 1 .. b |-> Insert(p + j - 1)]
    OBVIOUS
  <2>2. s = script'
    BY <1>8, <1>15, <2>1
  <2>3. IsWalk(s, p, p, p, p + b) /\ Len(s) = b
    BY <2>1, InsertsWalk
  <2>4. p + a = p /\ a + b = b
    BY <1>15
  <2> QED BY <1>14, <1>15, <2>2, <2>3, <2>4
<1>16. CASE b = 0 /\ a # 0
  <2>1. PICK s : s = [i \in 1 .. a |-> Delete(p + i - 1)]
    OBVIOUS
  <2>2. s = script'
    BY <1>8, <1>16, <2>1
  <2>3. IsWalk(s, p, p, p + a, p) /\ Len(s) = a
    BY <2>1, DeletesWalk
  <2>4. p + b = p /\ a + b = a
    BY <1>16
  <2> QED BY <1>14, <1>16, <2>2, <2>3, <2>4
<1>17. CASE a # 0 /\ b # 0
  <2>1. script' = <<>> /\ diffAt' = "search"
    BY <1>8, <1>17
  <2>2. KindsInv'
    BY <1>12, <2>1
  <2>3. GroupInv' /\ Converges' /\ EmptyInv'
    BY <1>7, <1>9, <2>1 DEF EmptyInv, GroupInv, Converges
  <2>4. Len(trace') = 0 /\ trace' \in Seq(Grid') /\ frontier' \in Grid'
    BY <1>7, <1>8, <1>9 DEF Grid
  <2>5. \A u : u = Reach(0)' => u[1] = 0
    <3>1. Reach(0)' = frontier'
      BY <2>4 DEF Reach
    <3>2. 1 \in -(a + b) .. a + b
      BY <1>17
    <3> QED BY <1>8, <3>1, <3>2
  <2>6. n' >= 1 /\ m' >= 1
    BY <1>7, <1>17
  <2>7. \A d \in Nat : ~(d < Len(trace'))
    BY <2>4
  <2>8. SearchInv'
    BY <2>4, <2>5, <2>6, <2>7 DEF SearchInv
  <2> QED BY <1>10, <1>11, <2>2, <2>3, <2>8 DEF DiffInv
<1> QED BY <1>15, <1>16, <1>17

-----------------------------------------------------------------------------
(***************************************************************************)
(* Searching.                                                              *)
(***************************************************************************)

\* What is known of the frontier before turn d, and of the turn.
LEMMA SearchTurn ==
  ASSUME DiffInv, diffAt = "search", NEW d \in Nat, d = Len(trace),
         NEW u, u = frontier, NEW v, Turn(u, v, d)
  PROVE  /\ Good(v, d)
         /\ \A k \in Diagonals(d) : AtEnd(v, k) => k = n - m /\ v[k] = n
         /\ (\A k \in Diagonals(d) : ~AtEnd(v, k)) => d < n + m
<1>1. FilesOK /\ SearchInv /\ d <= n + m /\ n \in Nat /\ m \in Nat
  BY MiddlesAre DEF DiffInv, TrimInv, Converges
<1>2. u = Reach(d)
  BY DEF Reach
<1>3. Before(u, d) /\ (d >= 1 => Good(u, d - 1) /\ NotDone(u, d - 1))
  <2>1. CASE d = 0
    <3>1. u[1] = 0
      BY <1>1, <1>2, <2>1 DEF SearchInv
    <3> QED BY <2>1, <3>1 DEF Before
  <2>2. CASE d >= 1
    <3>1. PICK e \in Nat : e = d - 1
      BY <2>2
    <3>2. e < Len(trace) /\ u = Reach(e + 1)
      BY <1>2, <3>1
    <3>3. Good(u, e) /\ NotDone(u, e)
      BY <1>1, <3>2 DEF SearchInv
    <3> QED BY <2>2, <3>1, <3>3 DEF Before, Good
  <2> QED BY <2>1, <2>2
<1>4. Good(v, d)
  <2>1. InQuadrant(v, d)
    BY <1>1, <1>3, StaysInQuadrant
  <2>2. PastEdges(v, d)
    BY <1>1, <1>3, StaysBehind DEF Good
  <2>3. Furthest(v, d)
    BY <1>1, <1>3, GoesFurthest DEF Good
  <2> QED BY <2>1, <2>2, <2>3 DEF Good
<1>5. ASSUME NEW k \in Diagonals(d), AtEnd(v, k)
      PROVE  k = n - m /\ v[k] = n
  BY <1>1, <1>3, <1>5, StopsAtCorner DEF Good, SearchInv
<1>6. ASSUME \A k \in Diagonals(d) : ~AtEnd(v, k)
      PROVE  d < n + m
  <2>1. d # n + m
    BY <1>1, <1>4, <1>6, EndIsReachedAtLast DEF Good
  <2> QED BY <1>1, <2>1
<1> QED BY <1>4, <1>5, <1>6

LEMMA SearchesStep ==
  ASSUME DiffInv, Searches
  PROVE  DiffInv'
<1>1. /\ KindsInv /\ TrimInv /\ SearchInv /\ Converges /\ FilesOK /\ diffAt = "search"
  BY DEF DiffInv, TrimInv, Searches
<1>2. n \in Nat /\ m \in Nat /\ MaxDistance = n + m /\ n >= 1 /\ m >= 1
  BY <1>1, MiddlesAre DEF SearchInv
<1>3. trace \in Seq(Grid) /\ frontier \in Grid
  BY <1>1 DEF SearchInv
<1>4. PICK d \in Nat : d = Len(trace)
  BY <1>3
<1>5. d <= n + m
  BY <1>1, <1>2, <1>4 DEF Converges
<1>6. PICK u : u = frontier
  OBVIOUS
<1>7. PICK v : v = [k \in DOMAIN u |-> IF k \in Diagonals(d) THEN Reached(u, d, k) ELSE u[k]]
  OBVIOUS
<1>8. DOMAIN u = -(n + m) .. n + m /\ \A k \in DOMAIN u : u[k] \in Int
  BY <1>2, <1>3, <1>6 DEF Grid
<1>9. \A k \in Diagonals(d) : k \in DOMAIN u
  <2> SUFFICES ASSUME NEW k \in Diagonals(d) PROVE k \in -(n + m) .. n + m
    BY <1>8
  <2>1. k \in Int /\ -d <= k /\ k <= d
    BY DiagonalsMeet
  <2> QED BY <1>2, <1>5, <2>1
<1>10. Turn(u, v, d)
  BY <1>7, <1>9 DEF Turn
<1>11. /\ Good(v, d)
       /\ \A k \in Diagonals(d) : AtEnd(v, k) => k = n - m /\ v[k] = n
       /\ (\A k \in Diagonals(d) : ~AtEnd(v, k)) => d < n + m
  BY <1>1, <1>4, <1>6, <1>10, SearchTurn
<1>12. v \in Grid
  <2>1. \A k \in DOMAIN u : v[k] \in Int
    <3> SUFFICES ASSUME NEW k \in DOMAIN u PROVE v[k] \in Int
      OBVIOUS
    <3>1. CASE k \in Diagonals(d)
      BY <1>11, <3>1 DEF Good, InQuadrant
    <3>2. CASE k \notin Diagonals(d)
      BY <1>7, <1>8, <3>2
    <3> QED BY <3>1, <3>2
  <2>2. v \in [DOMAIN u -> Int]
    BY <1>7, <2>1
  <2> QED BY <1>2, <1>8, <2>2 DEF Grid
<1>13. /\ frontier' = v /\ trace' = Append(trace, u)
       /\ UNCHANGED <<oldLines, newLines, context, prefix, suffix, script, hunks>>
       /\ IF \E k \in Diagonals(d) : AtEnd(v, k)
          THEN diffAt' = "back" /\ back' = [d |-> d, x |-> n, y |-> m]
          ELSE diffAt' = diffAt /\ back' = back
  BY <1>4, <1>6, <1>7 DEF Searches, n, m
<1>14. UNCHANGED <<oldLines, newLines, prefix, suffix>>
  BY <1>13
<1>15. n' = n /\ m' = m /\ MaxDistance' = MaxDistance /\ Grid' = Grid /\ FilesOK'
  BY <1>1, <1>14, SameFiles
<1>16. Len(trace') = d + 1 /\ trace' \in Seq(Grid) /\ frontier' \in Grid
  BY <1>3, <1>4, <1>6, <1>12, <1>13
<1>17. \A e \in Nat : e <= d => Reach(e)' = Reach(e)
  <2> SUFFICES ASSUME NEW e \in Nat, e <= d PROVE Reach(e)' = Reach(e)
    OBVIOUS
  <2>1. Reach(e)' = trace'[e + 1]
    BY <1>16 DEF Reach
  <2>2. CASE e < d
    <3>1. trace'[e + 1] = trace[e + 1]
      BY <1>3, <1>4, <1>13, <2>2
    <3> QED BY <1>4, <2>1, <2>2, <3>1 DEF Reach
  <2>3. CASE e = d
    <3>1. trace'[e + 1] = u
      BY <1>3, <1>4, <1>13, <2>3
    <3> QED BY <1>4, <1>6, <2>1, <2>3, <3>1 DEF Reach
  <2> QED BY <2>2, <2>3
<1>18. Reach(d + 1)' = v /\ Reach(d) = u
  BY <1>4, <1>6, <1>13, <1>16 DEF Reach
<1>19. diffAt' \in {"search", "back"} /\ (diffAt' = "search" => \A k \in Diagonals(d) : ~AtEnd(v, k))
  BY <1>1, <1>13
<1>20. ASSUME NEW w, w = Reach(0)' PROVE w[1] = 0
  BY <1>1, <1>17, <1>20 DEF SearchInv
<1>21. ASSUME NEW e \in Nat, NEW a, NEW b, e < Len(trace'), a = Reach(e)', b = Reach(e + 1)'
       PROVE  Turn(a, b, e)' /\ Good(b, e)'
  <2>1. CASE e < d
    <3>1. a = Reach(e) /\ b = Reach(e + 1)
      BY <1>17, <1>21, <2>1
    <3>2. Turn(a, b, e) /\ Good(b, e)
      BY <1>1, <1>4, <2>1, <3>1 DEF SearchInv
    <3> QED BY <1>14, <3>2, SameFiles
  <2>2. CASE e = d
    <3>1. a = u /\ b = v
      BY <1>17, <1>18, <1>21, <2>2
    <3>2. Turn(a, b, e) /\ Good(b, e)
      BY <1>10, <1>11, <2>2, <3>1
    <3> QED BY <1>14, <3>2, SameFiles
  <2> QED BY <1>16, <1>21, <2>1, <2>2
<1>22. ASSUME NEW e \in Nat, NEW b, e < Len(trace'), diffAt' = "back" => e + 1 < Len(trace'), b = Reach(e + 1)'
       PROVE  NotDone(b, e)'
  <2>1. CASE e < d
    <3>1. b = Reach(e + 1)
      BY <1>17, <1>22, <2>1
    <3>2. NotDone(b, e)
      BY <1>1, <1>4, <2>1, <3>1 DEF SearchInv
    <3> QED BY <1>14, <3>2, SameFiles
  <2>2. CASE e = d
    <3>1. b = v /\ diffAt' = "search"
      BY <1>16, <1>18, <1>19, <1>22, <2>2
    <3>2. NotDone(b, e)
      BY <1>19, <2>2, <3>1 DEF NotDone
    <3> QED BY <1>14, <3>2, SameFiles
  <2> QED BY <1>16, <1>22, <2>1, <2>2
<1>23. SearchInv'
  BY <1>2, <1>15, <1>16, <1>20, <1>21, <1>22 DEF SearchInv
<1>24. Converges'
  BY <1>2, <1>11, <1>15, <1>16, <1>19 DEF Converges
<1>25. BackInv'
  <2> SUFFICES ASSUME diffAt' = "back" PROVE BackInv'
    BY DEF BackInv
  <2>1. PICK k \in Diagonals(d) : AtEnd(v, k)
    BY <1>1, <1>13
  <2>2. k = n - m /\ v[k] = n
    BY <1>11, <2>1
  <2>3. back' = [d |-> d, x |-> n, y |-> m]
    BY <1>13, <2>1
  <2>4. script' = <<>>
    BY <1>1, <1>13 DEF DiffInv, EmptyInv
  <2>5. IsWalk(<<>>, prefix + n, prefix + m, prefix + n, prefix + m)'
    <3>1. PICK a \in Nat, b \in Nat : a = prefix + n /\ b = prefix + m
      BY <1>1, <1>2 DEF FilesOK
    <3>2. IsWalk(<<>>, a, b, a, b)'
      BY <1>14, EmptyWalk, SameFiles
    <3>3. a = prefix' + n' /\ b = prefix' + m'
      BY <1>14, <1>15, <3>1
    <3> QED BY <1>14, <1>15, <3>1, <3>2, <3>3
  <2> QED BY <1>2, <1>15, <1>16, <1>18, <2>2, <2>3, <2>4, <2>5 DEF BackInv
<1>26. KindsInv' /\ TrimInv'
  <2>1. frontier' \in [DOMAIN frontier' -> Int]
    BY <1>16 DEF Grid
  <2>2. back' \in [d : Int, x : Int, y : Int]
    BY <1>1, <1>2, <1>13 DEF KindsInv
  <2>3. KindsInv'
    BY <1>1, <1>13, <1>19, <2>1, <2>2 DEF KindsInv
  <2> QED BY <1>1, <1>13, <1>15, <1>19, <2>3 DEF TrimInv
<1>27. GroupInv' /\ DoneInv' /\ EmptyInv'
  BY <1>1, <1>13, <1>19 DEF GroupInv, DoneInv, DiffInv, EmptyInv
<1> QED BY <1>23, <1>24, <1>25, <1>26, <1>27 DEF DiffInv

-----------------------------------------------------------------------------
(***************************************************************************)
(* Retracing.                                                              *)
(***************************************************************************)

LEMMA OnTheWay ==
  ASSUME NEW x \in Nat, NEW x0 \in Nat, NEW y0 \in Nat, NEW k \in Int, k = x0 - y0, x >= k, x <= x0
  PROVE  x0 - x \in Nat /\ x - k \in Nat /\ x - k = y0 - (x0 - x)
OBVIOUS

\* Backtrack is at (x0, y0), on diagonal k, which turn d entered at x from frontier v.
IsAt(x0, y0, d, k, v, x) ==
  x0 = back.x /\ y0 = back.y /\ d = back.d /\ k = x0 - y0 /\ v = trace[d + 1] /\ x = Entry(v, d, k)

LEMMA Retraced ==
  ASSUME DiffInv, diffAt = "back", NEW x0, NEW y0, NEW d, NEW k, NEW v, NEW x,
         IsAt(x0, y0, d, k, v, x)
  PROVE  /\ x0 \in Nat /\ y0 \in Nat /\ x0 <= n /\ y0 <= m
         /\ d \in Nat /\ k \in Diagonals(d) /\ Before(v, d)
         /\ x \in Nat /\ x >= k /\ x <= x0
         /\ d = 0 => x = 0 /\ k = 0
         /\ Runs(prefix + x, prefix + (x - k), x0 - x)
         /\ d >= 1 => Good(v, d - 1) /\ v = Reach((d - 1) + 1)
<1>1. FilesOK /\ SearchInv /\ BackInv /\ n \in Nat /\ m \in Nat /\ trace \in Seq(Grid) /\ prefix \in Nat
  BY MiddlesAre DEF DiffInv, TrimInv, SearchInv, FilesOK
<1>2. /\ d \in Nat /\ d < Len(trace) /\ k \in Diagonals(d) /\ k \in Int
      /\ x0 \in Nat /\ y0 \in Nat /\ x0 <= n /\ y0 <= m
  BY <1>1, DiagonalsMeet DEF BackInv, IsAt
<1>3. v = Reach(d)
  BY <1>2 DEF Reach, IsAt
<1>4. PICK w : w = Reach(d + 1)
  OBVIOUS
<1>5. Turn(v, w, d) /\ w[k] = x0
  BY <1>1, <1>2, <1>3, <1>4 DEF SearchInv, BackInv, IsAt
<1>6. Before(v, d) /\ (d >= 1 => Good(v, d - 1) /\ v = Reach((d - 1) + 1))
  <2>1. CASE d = 0
    <3>1. v[1] = 0
      BY <1>1, <1>3, <2>1 DEF SearchInv
    <3> QED BY <2>1, <3>1 DEF Before
  <2>2. CASE d >= 1
    <3>1. PICK e \in Nat : e = d - 1
      BY <1>2, <2>2
    <3>2. e < Len(trace) /\ v = Reach(e + 1)
      BY <1>1, <1>2, <1>3, <3>1
    <3>3. Good(v, e)
      BY <1>1, <3>2 DEF SearchInv
    <3> QED BY <2>2, <3>1, <3>2, <3>3 DEF Before, Good
  <2> QED BY <1>2, <2>1, <2>2
<1>7. x \in Nat /\ x >= k /\ (d = 0 => x = 0 /\ k = 0)
  BY <1>2, <1>6, EntryIs DEF IsAt
<1>8. PICK z : z = Reached(v, d, k)
  OBVIOUS
<1>9. z = x0
  BY <1>2, <1>5, <1>8 DEF Turn
<1>10. z >= x /\ \A s \in 1 .. z - x : OldMiddle[x + s] = NewMiddle[x - k + s]
  BY <1>1, <1>2, <1>6, <1>8, ReachedIs DEF IsAt, Slides
<1>11. ASSUME NEW s \in 1 .. x0 - x
       PROVE  oldLines[prefix + x + s] = newLines[prefix + (x - k) + s]
  <2>1. PICK i, j : i = x + s /\ j = x - k + s
    OBVIOUS
  <2>2. x <= x0 /\ k = x0 - y0
    BY <1>9, <1>10 DEF IsAt
  <2>3. /\ i \in 1 .. n /\ j \in 1 .. m
        /\ prefix + i = prefix + x + s /\ prefix + j = prefix + (x - k) + s
    <3>1. /\ x \in Nat /\ x0 \in Nat /\ y0 \in Nat /\ k \in Int /\ k = x0 - y0 /\ x >= k /\ x <= x0
          /\ n \in Nat /\ m \in Nat /\ x0 <= n /\ y0 <= m /\ prefix \in Nat
      BY <1>1, <1>2, <1>7, <2>2
    <3> QED BY <2>1, <3>1
  <2>4. OldMiddle[i] = oldLines[prefix + i] /\ NewMiddle[j] = newLines[prefix + j]
    BY <1>1, <2>3, MiddlesAre
  <2>5. OldMiddle[i] = NewMiddle[j]
    BY <1>9, <1>10, <2>1
  <2> QED BY <2>3, <2>4, <2>5
<1> QED BY <1>2, <1>6, <1>7, <1>9, <1>10, <1>11 DEF Runs

\* All of a common subsequence is found by the turn at which no more edits than it
\* leaves are spent: the search stopped no later.
LEMMA StopsInTime ==
  ASSUME DiffInv, diffAt = "back", NEW P \in Common(prefix + n, prefix + m)
  PROVE  Len(trace) - 1 <= n + m - 2 * (Cardinality(P) - prefix)
<1>1. FilesOK /\ SearchInv /\ trace \in Seq(Grid) /\ n \in Nat /\ m \in Nat /\ prefix \in Nat
  BY MiddlesAre DEF DiffInv, TrimInv, SearchInv, FilesOK
<1>2. PICK e : e = n + m - 2 * (Cardinality(P) - prefix)
  OBVIOUS
<1>3. e \in Nat
  <2>1. PICK a \in Nat, b \in Nat : a = prefix + n /\ b = prefix + m
    BY <1>1
  <2>2. Cardinality(P) \in Nat /\ Cardinality(P) <= a /\ Cardinality(P) <= b
    BY <1>1, <2>1, CommonIsShort DEF FilesOK
  <2> QED BY <1>1, <1>2, <2>1, <2>2
<1>4. SUFFICES ASSUME e + 1 < Len(trace) PROVE FALSE
  BY <1>1, <1>2, <1>3
<1>5. PICK v : v = Reach(e + 1)
  OBVIOUS
<1>6. Good(v, e) /\ NotDone(v, e)
  BY <1>1, <1>3, <1>4, <1>5 DEF SearchInv
<1> QED BY <1>1, <1>2, <1>6, EndIsReached DEF Good, NotDone

\* The edit that led to the diagonal, and the place it was made at.
LEMMA EditBefore ==
  ASSUME NEW d \in Nat \ {0}, NEW k \in Diagonals(d), NEW v, InQuadrant(v, d - 1),
         NEW x, x = Entry(v, d, k)
  PROVE  /\ Down(v, d, k) => k + 1 \in Diagonals(d - 1) /\ v[k + 1] = x /\ x - k - 1 \in Nat
         /\ ~Down(v, d, k) => k - 1 \in Diagonals(d - 1) /\ v[k - 1] = x - 1 /\ x - 1 \in Nat
<1>1. d >= 1 /\ d \in Nat /\ k \in Int /\ Before(v, d)
  BY DiagonalsMeet DEF Before
<1>2. ASSUME Down(v, d, k) PROVE k + 1 \in Diagonals(d - 1) /\ v[k + 1] = x /\ x - k - 1 \in Nat
  <2>1. k # d /\ x = v[k + 1] /\ k + 1 \in Diagonals(d - 1)
    BY <1>1, <1>2, EntryIs, DiagonalsMeet
  <2>2. v[k + 1] \in Nat /\ v[k + 1] >= k + 1
    BY <2>1 DEF InQuadrant
  <2> QED BY <1>1, <2>1, <2>2
<1>3. ASSUME ~Down(v, d, k) PROVE k - 1 \in Diagonals(d - 1) /\ v[k - 1] = x - 1 /\ x - 1 \in Nat
  <2>1. k # -d /\ x = v[k - 1] + 1 /\ k - 1 \in Diagonals(d - 1)
    BY <1>1, <1>3, EntryIs, DiagonalsMeet
  <2>2. v[k - 1] \in Nat
    BY <2>1 DEF InQuadrant
  <2> QED BY <1>1, <2>1, <2>2
<1> QED BY <1>2, <1>3

LEMMA BacktracksStep ==
  ASSUME DiffInv, Backtracks
  PROVE  DiffInv'
<1>1. KindsInv /\ TrimInv /\ SearchInv /\ BackInv /\ FilesOK /\ diffAt = "back"
  BY DEF DiffInv, TrimInv, Backtracks
<1>2. n \in Nat /\ m \in Nat /\ prefix \in Nat
  BY <1>1, MiddlesAre DEF FilesOK
<1>3. PICK x0, y0, d, k, v, x : IsAt(x0, y0, d, k, v, x)
  BY DEF IsAt
<1>4. /\ x0 = back.x /\ y0 = back.y /\ d = back.d /\ k = x0 - y0 /\ v = trace[d + 1]
      /\ x = Entry(v, d, k)
  BY <1>3 DEF IsAt
<1>5. /\ x0 \in Nat /\ y0 \in Nat /\ x0 <= n /\ y0 <= m
      /\ d \in Nat /\ k \in Diagonals(d) /\ Before(v, d)
      /\ x \in Nat /\ x >= k /\ x <= x0
      /\ d = 0 => x = 0 /\ k = 0
      /\ d >= 1 => Good(v, d - 1) /\ v = Reach((d - 1) + 1)
  BY <1>1, <1>3, Retraced
<1>a. k \in Int
  BY <1>4, <1>5
<1>6. Runs(prefix + x, prefix + (x - k), x0 - x)
  BY <1>1, <1>3, Retraced
<1>7. /\ d < Len(trace)
      /\ IsWalk(script, prefix + x0, prefix + y0, prefix + n, prefix + m)
      /\ 2 * Len(script) - ((n - x0) + (m - y0)) = Len(trace) - 1 - d
      /\ trace \in Seq(Grid) /\ script \in Seq(LineEdit)
  BY <1>1, <1>4 DEF BackInv, SearchInv, KindsInv
<1>8. PICK r \in Nat, y \in Nat : r = x0 - x /\ y = x - k /\ y = y0 - r
  <2>1. x0 - x \in Nat /\ x - k \in Nat /\ x - k = y0 - (x0 - x)
    BY <1>4, <1>5, <1>a, OnTheWay
  <2> QED BY <2>1
<1>9. PICK down \in BOOLEAN : down <=> Down(v, d, k)
  <2>1. Down(v, d, k) \/ ~Down(v, d, k)
    OBVIOUS
  <2> QED BY <2>1
<1>10. PICK j : j = IF down THEN k + 1 ELSE k - 1
  OBVIOUS
<1>11. Max({0, Min({x0 - v[j], y0 - (v[j] - j)})}) = r
  <2>1. CASE d = 0
    <3>1. Down(v, d, k) /\ v[1] = 0
      <4>1. v[1] = 0 /\ k = 0 /\ k \in Int /\ -d <= k /\ k <= -d /\ -d \in Int
        BY <1>5, <2>1 DEF Before
      <4>2. k = -d
        BY <4>1
      <4> QED BY <4>1, <4>2 DEF Down
    <3>2. j = 1 /\ v[j] = 0
      BY <1>5, <1>9, <1>10, <2>1, <3>1
    <3>3. x0 - v[j] = r /\ y0 - (v[j] - j) = r + 1
      BY <1>5, <1>a, <1>8, <2>1, <3>2
    <3>4. Min({r, r + 1}) = r /\ Max({0, r}) = r
      BY LargerIs
    <3> QED BY <3>3, <3>4
  <2>2. CASE d >= 1 /\ down
    <3>1. v[k + 1] = x
      BY <1>4, <1>5, <1>9, <2>2, EntryIs
    <3>2. x0 - v[j] = r /\ y0 - (v[j] - j) = r + 1
      BY <1>5, <1>a, <1>8, <1>10, <2>2, <3>1
    <3>3. Min({r, r + 1}) = r /\ Max({0, r}) = r
      BY LargerIs
    <3> QED BY <3>2, <3>3
  <2>3. CASE d >= 1 /\ ~down
    <3>1. v[k - 1] = x - 1
      BY <1>4, <1>5, <1>9, <2>3, EditBefore DEF Good
    <3>2. x0 - v[j] = r + 1 /\ y0 - (v[j] - j) = r
      BY <1>5, <1>a, <1>8, <1>10, <2>3, <3>1
    <3>3. Min({r + 1, r}) = r /\ Max({0, r}) = r
      BY LargerIs
    <3> QED BY <3>2, <3>3
  <2> QED BY <1>5, <2>1, <2>2, <2>3
<1>12. PICK diagonal, step :
         /\ diagonal = [i \in 1 .. r |-> Equal(prefix + x + i - 1, prefix + y + i - 1)]
         /\ step = IF d = 0 THEN <<>>
                   ELSE IF down THEN <<Insert(prefix + y - 1)>> ELSE <<Delete(prefix + x - 1)>>
  OBVIOUS
<1>13. /\ script' = step \o diagonal \o script
       /\ back' = [d |-> d - 1, x |-> IF d = 0 \/ down THEN x ELSE x - 1,
                   y |-> IF d # 0 /\ down THEN y - 1 ELSE y]
       /\ diffAt' = IF d = 0 \/ (back'.x = 0 /\ back'.y = 0) THEN "group" ELSE "back"
       /\ UNCHANGED <<oldLines, newLines, context, prefix, suffix, frontier, trace, hunks>>
  <2>1. x0 - r = x /\ y0 - r = y
    BY <1>5, <1>a, <1>8
  <2> QED BY <1>4, <1>9, <1>10, <1>11, <1>12, <2>1, ZenonT(30) DEF Backtracks
<1>14. PICK nx, ny, w : nx = back'.x /\ ny = back'.y /\ w = step \o diagonal \o script
  OBVIOUS
<1>15. /\ nx \in Nat /\ ny \in Nat /\ nx <= n /\ ny <= m
       /\ IsWalk(step, prefix + nx, prefix + ny, prefix + x, prefix + y)
       /\ d = 0 => nx = x /\ ny = y /\ Len(step) = 0
       /\ d >= 1 => nx + ny = x + y - 1 /\ Len(step) = 1 /\ nx - ny \in Diagonals(d - 1) /\ v[nx - ny] = nx
  <2>1. PICK p \in Nat : p = prefix
    BY <1>2
  <2>2. x <= n /\ y <= m
    <3>1. x \in Nat /\ x0 \in Nat /\ y0 \in Nat /\ x <= x0 /\ x0 <= n /\ y0 <= m /\ y = y0 - r
      BY <1>5, <1>8
    <3> QED BY <1>2, <3>1
  <2>3. CASE d = 0
    <3>1. nx = x /\ ny = y /\ step = <<>> /\ Len(step) = 0
      BY <1>12, <1>13, <1>14, <2>3
    <3>2. PICK a \in Nat, b \in Nat : a = p + x /\ b = p + y
      BY <1>5
    <3>3. IsWalk(<<>>, a, b, a, b)
      BY EmptyWalk
    <3> QED BY <1>5, <2>1, <2>2, <2>3, <3>1, <3>2, <3>3
  <2>4. CASE d >= 1 /\ down
    <3>1. k + 1 \in Diagonals(d - 1) /\ v[k + 1] = x /\ x - k - 1 \in Nat
      BY <1>4, <1>5, <1>9, <2>4, EditBefore DEF Good
    <3>2. y - 1 \in Nat /\ x - (y - 1) = k + 1
      BY <1>5, <1>a, <1>8, <3>1
    <3>3. nx = x /\ ny = y - 1 /\ step = <<Insert(p + y - 1)>> /\ Len(step) = 1
      BY <1>12, <1>13, <1>14, <2>1, <2>4
    <3>4. PICK a \in Nat, b \in Nat : a = p + x /\ b = p + y - 1
      BY <1>5, <3>2
    <3>5. IsStep(Insert(b), a, b, a, b + 1)
      BY DEF IsStep
    <3>6. IsWalk(<<Insert(b)>>, a, b, a, b + 1)
      BY <3>5, OneStepWalk
    <3>7. b = p + ny /\ b + 1 = p + y /\ nx + ny = x + y - 1
      BY <1>5, <3>2, <3>3, <3>4
    <3>8. IsWalk(step, prefix + nx, prefix + ny, prefix + x, prefix + y)
      BY <2>1, <3>3, <3>4, <3>6, <3>7
    <3> QED BY <1>2, <1>5, <2>2, <2>4, <3>1, <3>2, <3>3, <3>7, <3>8
  <2>5. CASE d >= 1 /\ ~down
    <3>1. k - 1 \in Diagonals(d - 1) /\ v[k - 1] = x - 1 /\ x - 1 \in Nat
      BY <1>4, <1>5, <1>9, <2>5, EditBefore DEF Good
    <3>2. x - 1 - y = k - 1
      BY <1>5, <1>a, <1>8, <3>1
    <3>3. nx = x - 1 /\ ny = y /\ step = <<Delete(p + x - 1)>> /\ Len(step) = 1
      BY <1>12, <1>13, <1>14, <2>1, <2>5
    <3>4. PICK a \in Nat, b \in Nat : a = p + x - 1 /\ b = p + y
      BY <1>5, <3>1
    <3>5. IsStep(Delete(a), a, b, a + 1, b)
      BY DEF IsStep
    <3>6. IsWalk(<<Delete(a)>>, a, b, a + 1, b)
      BY <3>5, OneStepWalk
    <3>7. a = p + nx /\ a + 1 = p + x /\ nx + ny = x + y - 1
      BY <1>5, <3>1, <3>3, <3>4
    <3>8. IsWalk(step, prefix + nx, prefix + ny, prefix + x, prefix + y)
      BY <2>1, <3>3, <3>4, <3>6, <3>7
    <3> QED BY <1>2, <1>5, <2>2, <2>5, <3>1, <3>2, <3>3, <3>7, <3>8
  <2> QED BY <1>5, <2>3, <2>4, <2>5
<1>16. IsWalk(diagonal, prefix + x, prefix + y, prefix + x0, prefix + y0) /\ Len(diagonal) = r
  <2>1. PICK a \in Nat, b \in Nat : a = prefix + x /\ b = prefix + y
    BY <1>2, <1>5
  <2>2. Runs(a, b, r)
    BY <1>6, <1>8, <2>1
  <2>3. diagonal = [i \in 1 .. r |-> Equal(a + i - 1, b + i - 1)]
    BY <1>12, <2>1
  <2>4. IsWalk(diagonal, a, b, a + r, b + r) /\ Len(diagonal) = r
    BY <2>2, <2>3, RunWalks
  <2>5. a + r = prefix + x0 /\ b + r = prefix + y0
    BY <1>2, <1>5, <1>8, <2>1
  <2> QED BY <2>1, <2>4, <2>5
<1>17. IsWalk(w, prefix + nx, prefix + ny, prefix + n, prefix + m) /\ Len(w) = Len(step) + r + Len(script)
  <2>1. /\ IsWalk(step \o diagonal, prefix + nx, prefix + ny, prefix + x0, prefix + y0)
        /\ Len(step \o diagonal) = Len(step) + r
    BY <1>15, <1>16, WalksJoin
  <2>2. IsWalk(script, prefix + x0, prefix + y0, prefix + n, prefix + m)
    BY <1>4, <1>7
  <2> QED BY <1>14, <2>1, <2>2, WalksJoin
<1>18. PICK l \in Nat, t \in Nat : l = Len(script) /\ t = Len(trace)
  BY <1>7
<1>19. Len(w) \in Nat /\ 2 * Len(w) - ((n - nx) + (m - ny)) = IF d = 0 THEN t - 1 ELSE t - 1 - (d - 1)
  <2>1. 2 * l - ((n - x0) + (m - y0)) = t - 1 - d
    BY <1>4, <1>7, <1>18
  <2>2. x0 = x + r /\ y0 = y + r
    BY <1>5, <1>8
  <2>3. Len(w) = Len(step) + r + l
    BY <1>17, <1>18
  <2>4. CASE d = 0
    <3>1. Len(w) = r + l /\ nx = x /\ ny = y
      BY <1>15, <1>18, <2>3, <2>4
    <3> QED BY <1>2, <1>5, <1>8, <1>18, <2>1, <2>2, <2>4, <3>1
  <2>5. CASE d >= 1
    <3>1. Len(w) = 1 + r + l /\ nx + ny = x + y - 1
      BY <1>15, <2>3, <2>5
    <3>2. x \in Nat /\ nx \in Nat /\ ny \in Nat /\ d \in Nat
      BY <1>5, <1>15
    <3>3. Len(w) \in Nat
      BY <3>1
    <3>4. 2 * Len(w) - ((n - nx) + (m - ny)) = t - 1 - (d - 1)
      BY <1>2, <2>1, <2>2, <3>1, <3>2
    <3> QED BY <2>5, <3>2, <3>3, <3>4
  <2> QED BY <1>5, <2>4, <2>5
<1>20. UNCHANGED <<oldLines, newLines, prefix, suffix>>
  BY <1>13
<1>21. n' = n /\ m' = m /\ Grid' = Grid /\ FilesOK'
  BY <1>1, <1>20, SameFiles
<1>22. script' = w /\ w \in Seq(LineEdit) /\ IsWalk(w, prefix + nx, prefix + ny, prefix + n, prefix + m)'
  <2>1. PICK a, b, c, e : a = prefix + nx /\ b = prefix + ny /\ c = prefix + n /\ e = prefix + m
    OBVIOUS
  <2>2. IsWalk(w, a, b, c, e)'
    BY <1>17, <1>20, <2>1, SameFiles
  <2>3. a = prefix' + nx /\ b = prefix' + ny /\ c = prefix' + n' /\ e = prefix' + m'
    BY <1>20, <1>21, <2>1
  <2>4. w \in Seq(LineEdit)
    BY <1>17 DEF IsWalk
  <2> QED BY <1>13, <1>14, <2>2, <2>3, <2>4
<1>23. diffAt' \in {"back", "group"} /\ (diffAt' = "back" => d >= 1) /\ (diffAt' = "group" => nx = 0 /\ ny = 0)
  <2>1. d = 0 => nx = 0 /\ ny = 0
    BY <1>5, <1>8, <1>15
  <2> QED BY <1>5, <1>13, <1>14, <2>1
<1>24. KindsInv' /\ TrimInv'
  <2>1. back' \in [d : Int, x : Int, y : Int]
    <3>1. back' = [d |-> d - 1, x |-> nx, y |-> ny]
      BY <1>13, <1>14
    <3>2. d - 1 \in Int /\ nx \in Int /\ ny \in Int
      BY <1>5, <1>15
    <3> QED BY <3>1, <3>2
  <2>2. KindsInv'
    BY <1>1, <1>13, <1>22, <1>23, <2>1 DEF KindsInv
  <2> QED BY <1>1, <1>13, <1>21, <1>23, <2>2 DEF TrimInv
<1>25. \A e : Reach(e)' = Reach(e)
  BY <1>13 DEF Reach
<1>26. SearchInv'
  <2>1. n' >= 1 /\ m' >= 1 /\ trace' \in Seq(Grid') /\ frontier' \in Grid'
    BY <1>1, <1>13, <1>21 DEF SearchInv
  <2>2. \A u : u = Reach(0)' => u[1] = 0
    BY <1>1, <1>25 DEF SearchInv
  <2>3. ASSUME NEW e \in Nat, NEW a, NEW b, e < Len(trace'), a = Reach(e)', b = Reach(e + 1)'
        PROVE  Turn(a, b, e)' /\ Good(b, e)'
    <3>1. Turn(a, b, e) /\ Good(b, e)
      BY <1>1, <1>13, <1>25, <2>3 DEF SearchInv
    <3> QED BY <1>20, <3>1, SameFiles
  <2>4. ASSUME NEW e \in Nat, NEW b, e < Len(trace'), diffAt' = "back" => e + 1 < Len(trace'), b = Reach(e + 1)',
               diffAt' = "back"
        PROVE  NotDone(b, e)'
    <3>1. NotDone(b, e)
      BY <1>1, <1>13, <1>25, <2>4 DEF SearchInv
    <3> QED BY <1>20, <3>1, SameFiles
  <2> QED BY <1>23, <2>1, <2>2, <2>3, <2>4 DEF SearchInv
<1>27. BackInv'
  <2> SUFFICES ASSUME diffAt' = "back" PROVE BackInv'
    BY DEF BackInv
  <2>1. d >= 1
    BY <1>23
  <2>2. PICK e \in Nat : e = d - 1
    BY <1>5, <2>1
  <2>3. back' = [d |-> e, x |-> nx, y |-> ny]
    BY <1>13, <1>14, <2>2
  <2>4. nx - ny \in Diagonals(e) /\ v[nx - ny] = nx /\ v = Reach(e + 1) /\ e < t
    <3>1. nx - ny \in Diagonals(e) /\ v[nx - ny] = nx
      BY <1>15, <2>1, <2>2
    <3>2. v = Reach(e + 1)
      BY <1>5, <2>1, <2>2
    <3>3. e < t
      <4>1. d < t
        BY <1>4, <1>7, <1>18
      <4> QED BY <1>5, <2>2, <4>1
    <3> QED BY <3>1, <3>2, <3>3
  <2>5. 2 * Len(w) - ((n - nx) + (m - ny)) = t - 1 - e
    BY <1>19, <2>1, <2>2
  <2>6. back' \in [d : Nat, x : Nat, y : Nat] /\ back'.d = e /\ back'.x = nx /\ back'.y = ny
    BY <1>15, <2>3
  <2>7. back'.d < Len(trace') /\ back'.x <= n' /\ back'.y <= m'
    BY <1>2, <1>5, <1>13, <1>15, <1>18, <1>21, <2>4, <2>6
  <2>8. ASSUME NEW u, u = Reach(back.d + 1)' PROVE u[back'.x - back'.y] = back'.x
    <3>1. Reach(back.d + 1)' = Reach(e + 1)
      <4>1. Reach(e + 1)' = Reach(e + 1)
        BY <1>25
      <4> QED BY <2>6, <4>1 DEF Reach
    <3> QED BY <2>4, <2>6, <2>8, <3>1
  <2>9. IsWalk(script, prefix + back.x, prefix + back.y, prefix + n, prefix + m)'
    BY <1>22, <2>6
  <2>10. 2 * Len(script') - ((n' - back'.x) + (m' - back'.y)) = Len(trace') - 1 - back'.d
    BY <1>13, <1>18, <1>21, <1>22, <2>5, <2>6
  <2>11. back'.x - back'.y \in Diagonals(back'.d)
    BY <2>4, <2>6
  <2> QED BY <2>6, <2>7, <2>8, <2>9, <2>10, <2>11 DEF BackInv
<1>28. GroupInv'
  <2> SUFFICES ASSUME diffAt' = "group" PROVE GroupInv'
    BY DEF GroupInv
  <2>1. nx = 0 /\ ny = 0
    BY <1>23
  <2>2. 2 * Len(w) - (n + m) <= t - 1
    BY <1>2, <1>5, <1>18, <1>19, <2>1
  <2>3. ASSUME NEW P \in Common(prefix + n, prefix + m)
        PROVE  Cardinality(P) + Len(w) <= prefix + n + m
    <3>1. PICK c \in Nat : c = Cardinality(P)
      <4>1. PICK a \in Nat, b \in Nat : a = prefix + n /\ b = prefix + m
        BY <1>2
      <4>2. Cardinality(P) \in Nat
        BY <1>1, <4>1, CommonIsShort DEF FilesOK
      <4> QED BY <4>2
    <3>2. t - 1 <= n + m - 2 * (c - prefix)
      BY <1>1, <1>18, <3>1, StopsInTime
    <3>3. PICK q \in Nat : q = Len(w)
      BY <1>19
    <3>4. 2 * q - (n + m) <= n + m - 2 * (c - prefix)
      BY <1>2, <1>18, <2>2, <3>2, <3>3
    <3>5. c + q <= prefix + n + m
      BY <1>2, <3>4
    <3> QED BY <3>1, <3>3, <3>5
  <2>4. \A P \in Common(prefix + n, prefix + m)' : Cardinality(P) + Len(script') <= prefix' + n' + m'
    <3>1. PICK a, b : a = prefix + n /\ b = prefix + m
      OBVIOUS
    <3>2. Common(a, b)' = Common(a, b)
      BY <1>20, SameFiles
    <3>3. prefix' + n' = a /\ prefix' + m' = b
      BY <1>20, <1>21, <3>1
    <3>4. Common(prefix + n, prefix + m)' = Common(prefix + n, prefix + m)
      BY <3>1, <3>2, <3>3
    <3> QED BY <1>20, <1>21, <1>22, <2>3, <3>4
  <2>5. IsWalk(script, prefix, prefix, prefix + n, prefix + m)'
    <3>1. prefix' + nx = prefix' /\ prefix' + ny = prefix'
      BY <1>2, <1>20, <2>1
    <3> QED BY <1>22, <3>1
  <2> QED BY <2>4, <2>5 DEF GroupInv
<1>29. DoneInv' /\ Converges' /\ EmptyInv'
  BY <1>23 DEF DoneInv, Converges, EmptyInv
<1> QED BY <1>24, <1>26, <1>27, <1>28, <1>29 DEF DiffInv

-----------------------------------------------------------------------------
(***************************************************************************)
(* Putting the trimmed ends back.                                          *)
(***************************************************************************)
LEMMA CommonShrinks ==
  ASSUME oldLines \in Seq(Letters), newLines \in Seq(Letters),
         NEW a \in Nat \ {0}, NEW b \in Nat \ {0}, NEW P \in Common(a, b)
  PROVE  \E Q \in Common(a - 1, b - 1) : Cardinality(P) <= Cardinality(Q) + 1
<1>1. IsFiniteSet(P) /\ Cardinality(P) \in Nat
  BY CommonIsShort
<1>2. \A p \in P : p \in Matches /\ p[1] \in Nat /\ p[2] \in Nat /\ p[1] <= a /\ p[2] <= b
  BY MatchesArePairs DEF Common
<1>3. \A Q \in SUBSET P : (\A p \in Q : p[1] < a /\ p[2] < b) => Q \in Common(a - 1, b - 1)
  BY <1>2 DEF Common, InOrder
<1>4. CASE \A p \in P : p[1] < a /\ p[2] < b
  BY <1>1, <1>3, <1>4
<1>5. CASE \E p \in P : ~(p[1] < a /\ p[2] < b)
  <2>1. PICK p \in P : p[1] = a \/ p[2] = b
    BY <1>2, <1>5
  <2> DEFINE Q == P \ {p}
  <2>2. \A q \in Q : q[1] < a /\ q[2] < b
    BY <1>2, <2>1 DEF Common, InOrder
  <2>3. Cardinality(Q) = Cardinality(P) - 1
    BY <1>1, FS_RemoveElement
  <2>4. Q \in Common(a - 1, b - 1)
    BY <1>3, <2>2
  <2> QED BY <1>1, <2>3, <2>4
<1> QED BY <1>4, <1>5

LEMMA Induction ==
  ASSUME NEW T \in SUBSET Nat, 0 \in T, \A i \in T : i + 1 \in T
  PROVE  T = Nat
<1> SUFFICES ASSUME Nat \ T # {} PROVE FALSE
  OBVIOUS
<1>1. PICK x \in Nat \ T : \A y \in Nat \ T : x <= y
  BY LeastNatural
<1>2. x # 0 /\ x - 1 \in Nat /\ ~(x <= x - 1)
  BY <1>1
<1>3. x - 1 \in T
  BY <1>1, <1>2
<1> QED BY <1>1, <1>2, <1>3

LEMMA CommonWithoutEnds ==
  ASSUME oldLines \in Seq(Letters), newLines \in Seq(Letters),
         NEW a \in Nat, NEW b \in Nat, NEW t \in Nat, NEW P \in Common(a + t, b + t)
  PROVE  \E Q \in Common(a, b) : Cardinality(P) <= Cardinality(Q) + t
<1> DEFINE Goes(r) == \A R \in Common(a + r, b + r) : \E Q \in Common(a, b) : Cardinality(R) <= Cardinality(Q) + r
           T == {r \in Nat : Goes(r)}
<1>1. \A Q \in Common(a, b) : Cardinality(Q) \in Nat
  BY CommonIsShort
<1>2. Goes(0)
  BY <1>1
<1>3. ASSUME NEW r \in Nat, Goes(r) PROVE Goes(r + 1)
  <2> SUFFICES ASSUME NEW R \in Common(a + (r + 1), b + (r + 1))
               PROVE  \E Q \in Common(a, b) : Cardinality(R) <= Cardinality(Q) + (r + 1)
    OBVIOUS
  <2>1. PICK c \in Nat \ {0}, e \in Nat \ {0} : c = a + (r + 1) /\ e = b + (r + 1)
    OBVIOUS
  <2>2. c - 1 = a + r /\ e - 1 = b + r
    BY <2>1
  <2>3. PICK S \in Common(c - 1, e - 1) : Cardinality(R) <= Cardinality(S) + 1
    BY <2>1, CommonShrinks
  <2>4. PICK Q \in Common(a, b) : Cardinality(S) <= Cardinality(Q) + r
    BY <1>3, <2>2, <2>3
  <2>5. Cardinality(Q) \in Nat /\ Cardinality(S) \in Nat /\ Cardinality(R) \in Nat
    <3>1. c - 1 \in Nat /\ e - 1 \in Nat
      BY <2>1
    <3> HIDE DEF Goes
    <3> QED BY <1>1, <2>1, <2>3, <3>1, CommonIsShort
  <2>6. Cardinality(R) <= Cardinality(Q) + (r + 1)
    <3>1. PICK i \in Nat, j \in Nat, k \in Nat :
             i = Cardinality(R) /\ j = Cardinality(S) /\ k = Cardinality(Q)
      BY <2>5
    <3>2. i <= j + 1 /\ j <= k + r
      BY <2>3, <2>4, <3>1
    <3>3. i <= k + (r + 1)
      BY <3>2
    <3> QED BY <3>1, <3>3
  <2> QED BY <2>6
<1>4. T = Nat
  <2> HIDE DEF Goes
  <2>1. 0 \in T /\ \A r \in T : r + 1 \in T
    BY <1>2, <1>3
  <2> QED BY <2>1, Induction
<1> QED BY <1>4

LEMMA SameContext ==
  ASSUME context' = context
  PROVE  \A s : Ranges(s)' = Ranges(s)
BY DEF Ranges, Widens

LEMMA WholeScriptIs ==
  ASSUME DiffInv, diffAt = "group"
  PROVE  /\ IsWalk(WholeScript, 0, 0, Len(oldLines), Len(newLines))
         /\ \A P \in Common(Len(oldLines), Len(newLines)) :
              Cardinality(P) + Len(WholeScript) <= Len(oldLines) + Len(newLines)
<1>1. FilesOK /\ GroupInv /\ KindsInv
  BY DEF DiffInv, TrimInv
<1>2. PICK a \in Nat, b \in Nat, p \in Nat, q \in Nat, c \in Nat, e \in Nat :
        a = Len(oldLines) /\ b = Len(newLines) /\ p = prefix /\ q = suffix /\ c = prefix + n /\ e = prefix + m
  <2>1. n \in Nat /\ m \in Nat
    BY <1>1, MiddlesAre
  <2>2. Len(oldLines) \in Nat /\ Len(newLines) \in Nat /\ prefix \in Nat /\ suffix \in Nat
    BY <1>1 DEF FilesOK
  <2>3. prefix + n \in Nat /\ prefix + m \in Nat
    BY <2>1, <2>2
  <2> QED BY <2>2, <2>3
<1>3. p + q <= a /\ p + q <= b /\ a = c + q /\ b = e + q /\ n = c - p /\ m = e - p
  <2>1. n = a - p - q /\ m = b - p - q /\ n \in Nat /\ m \in Nat
    BY <1>1, <1>2, MiddlesAre
  <2> QED BY <1>2, <2>1
<1>4. PICK head, tail :
        /\ head = [i \in 1 .. p |-> Equal(0 + i - 1, 0 + i - 1)]
        /\ tail = [i \in 1 .. q |-> Equal(c + i - 1, e + i - 1)]
  OBVIOUS
<1>5. WholeScript = head \o script \o tail
  <2>1. head = [i \in 1 .. prefix |-> Equal(i - 1, i - 1)]
    BY <1>2, <1>4
  <2>2. tail = [i \in 1 .. suffix |-> Equal(Len(oldLines) - suffix + i - 1, Len(newLines) - suffix + i - 1)]
    <3>1. c = Len(oldLines) - suffix /\ e = Len(newLines) - suffix
      BY <1>2, <1>3
    <3> QED BY <1>2, <1>4, <3>1
  <2> QED BY <2>1, <2>2 DEF WholeScript
<1>6. Runs(0, 0, p)
  BY <1>1, <1>2 DEF FilesOK, Alike, Runs
<1>7. Runs(c, e, q)
  <2> SUFFICES ASSUME NEW i \in 1 .. q PROVE oldLines[c + i] = newLines[e + i]
    BY DEF Runs
  <2>1. PICK j \in 0 .. q - 1 : j = q - i
    OBVIOUS
  <2>2. oldLines[a - j] = newLines[b - j]
    BY <1>1, <1>2 DEF FilesOK, AlikeAtEnd
  <2>3. a - j = c + i /\ b - j = e + i
    BY <1>3, <2>1
  <2> QED BY <2>2, <2>3
<1>8. IsWalk(head, 0, 0, p, p) /\ Len(head) = p
  BY <1>4, <1>6, RunWalks
<1>9. IsWalk(tail, c, e, a, b) /\ Len(tail) = q
  BY <1>3, <1>4, <1>7, RunWalks
<1>10. IsWalk(script, p, p, c, e) /\ \A P \in Common(c, e) : Cardinality(P) + Len(script) <= prefix + n + m
  BY <1>1, <1>2 DEF GroupInv
<1>11. IsWalk(head \o script, 0, 0, c, e) /\ Len(head \o script) = p + Len(script)
  BY <1>8, <1>10, WalksJoin
<1>12. IsWalk(WholeScript, 0, 0, a, b) /\ Len(WholeScript) = p + Len(script) + q
  BY <1>5, <1>9, <1>11, WalksJoin
<1>13. ASSUME NEW P \in Common(a, b)
       PROVE  Cardinality(P) + Len(WholeScript) <= a + b
  <2>1. PICK Q \in Common(c, e) : Cardinality(P) <= Cardinality(Q) + q
    BY <1>1, <1>3, CommonWithoutEnds DEF FilesOK
  <2>2. Cardinality(P) \in Nat /\ Cardinality(Q) \in Nat
    BY <1>1, CommonIsShort DEF FilesOK
  <2>3. PICK l \in Nat : l = Len(script)
    BY <1>1, SMTT(30) DEF KindsInv
  <2>4. Cardinality(Q) + l <= p + n + m
    BY <1>2, <1>10, <2>3
  <2>5. Cardinality(Q) + l <= p + (c - p) + (e - p)
    BY <1>3, <2>4
  <2>6. Len(WholeScript) = p + l + q
    BY <1>12, <2>3
  <2> QED BY <1>3, <2>1, <2>2, <2>5, <2>6
<1> QED BY <1>2, <1>12, <1>13

LEMMA GroupsStep ==
  ASSUME DiffInv, Groups
  PROVE  DiffInv'
<1>1. /\ KindsInv /\ TrimInv /\ FilesOK /\ diffAt = "group" /\ diffAt' = "done"
      /\ UNCHANGED <<oldLines, newLines, context, prefix, suffix, frontier, trace, back>>
  BY DEF DiffInv, TrimInv, Groups
<1>2. PICK s : s = WholeScript
  OBVIOUS
<1>3. PICK a, b : a = Len(oldLines) /\ b = Len(newLines)
  OBVIOUS
<1>4. IsWalk(s, 0, 0, a, b) /\ \A P \in Common(a, b) : Cardinality(P) + Len(s) <= a + b
  BY <1>1, <1>2, <1>3, WholeScriptIs
<1>5. s = script' /\ hunks' = LET ranges == Ranges(s) IN [i \in DOMAIN ranges |-> HunkOf(s, ranges[i])]
  BY <1>2 DEF Groups
<1>6. Ranges(s)' = Ranges(s)
  BY <1>1, SameContext
<1>7. IsWalk(s, 0, 0, a, b)' /\ Common(a, b)' = Common(a, b)
  BY <1>1, <1>4, SameLines
<1>8. DoneInv'
  <2>1. a = Len(oldLines') /\ b = Len(newLines')
    BY <1>1, <1>3
  <2>2. IsWalk(script, 0, 0, Len(oldLines), Len(newLines))'
    BY <1>5, <1>7, <2>1
  <2>3. \A P \in Common(Len(oldLines), Len(newLines))' :
          Cardinality(P) + Len(script') <= Len(oldLines') + Len(newLines')
    BY <1>4, <1>5, <1>7, <2>1
  <2>4. (LET ranges == Ranges(script) IN hunks = [i \in DOMAIN ranges |-> HunkOf(script, ranges[i])])'
    <3>1. Ranges(script)' = Ranges(s)
      BY <1>5, <1>6
    <3> QED BY <1>5, <3>1
  <2> QED BY <2>2, <2>3, <2>4 DEF DoneInv
<1>9. s \in Seq(LineEdit)
  BY <1>4 DEF IsWalk
<1>10. FilesOK'
  BY <1>1, SameFiles
<1>11. KindsInv' /\ TrimInv'
  BY <1>1, <1>5, <1>9, <1>10 DEF KindsInv, TrimInv
<1>12. SearchInv' /\ Converges' /\ BackInv' /\ GroupInv' /\ EmptyInv'
  BY <1>1 DEF SearchInv, Converges, BackInv, GroupInv, EmptyInv
<1> QED BY <1>8, <1>11, <1>12 DEF DiffInv

-----------------------------------------------------------------------------
(***************************************************************************)
(* Counting the lines passed.                                              *)
(***************************************************************************)
\* h counts the members of A.
CountsUp(A, h, k) ==
  h[0] = 0 /\ \A i \in 1 .. k : (i \in A => h[i] = h[i - 1] + 1) /\ (i \notin A => h[i] = h[i - 1])

LEMMA Counted ==
  ASSUME NEW A, NEW k \in Nat, NEW h, CountsUp(A, h, k)
  PROVE  \A i \in 0 .. k : Cardinality({j \in 1 .. i : j \in A}) = h[i]
<1> DEFINE S(i) == {j \in 1 .. i : j \in A}
           Counts(i) == i <= k => IsFiniteSet(S(i)) /\ Cardinality(S(i)) = h[i]
           T == {i \in Nat : Counts(i)}
<1>1. Counts(0)
  <2>1. S(0) = {}
    OBVIOUS
  <2> QED BY <2>1, FS_EmptySet DEF CountsUp
<1>2. ASSUME NEW i \in Nat, Counts(i) PROVE Counts(i + 1)
  <2> SUFFICES ASSUME i + 1 <= k PROVE IsFiniteSet(S(i + 1)) /\ Cardinality(S(i + 1)) = h[i + 1]
    OBVIOUS
  <2>1. IsFiniteSet(S(i)) /\ Cardinality(S(i)) = h[i]
    BY <1>2
  <2>2. i + 1 \in 1 .. k /\ (i + 1) - 1 = i
    OBVIOUS
  <2>3. (i + 1 \in A => h[i + 1] = h[i] + 1) /\ (i + 1 \notin A => h[i + 1] = h[i])
    BY <2>2 DEF CountsUp
  <2>4. CASE i + 1 \in A
    <3>1. S(i + 1) = S(i) \cup {i + 1}
      BY <2>4
    <3>2. i + 1 \notin S(i)
      OBVIOUS
    <3> HIDE DEF S
    <3>3. IsFiniteSet(S(i + 1)) /\ Cardinality(S(i + 1)) = Cardinality(S(i)) + 1
      BY <2>1, <3>1, <3>2, FS_AddElement
    <3> QED BY <2>1, <2>3, <2>4, <3>3
  <2>5. CASE i + 1 \notin A
    <3>1. S(i + 1) = S(i)
      BY <2>5
    <3> HIDE DEF S
    <3>2. Cardinality(S(i)) \in Nat
      BY <2>1, FS_CardinalityType
    <3> QED BY <2>1, <2>3, <2>5, <3>1, <3>2
  <2> QED BY <2>4, <2>5
<1>3. T = Nat
  <2> HIDE DEF Counts
  <2>1. 0 \in T /\ \A i \in T : i + 1 \in T
    BY <1>1, <1>2
  <2> QED BY <2>1, Induction
<1>4. \A i \in 0 .. k : Counts(i)
  <2> HIDE DEF Counts
  <2> QED BY <1>3
<1> QED BY <1>4

LEMMA StepKinds ==
  ASSUME NEW x \in Nat, NEW y \in Nat, NEW e, NEW x1, NEW y1, IsStep(e, x, y, x1, y1)
  PROVE  \/ /\ e.op = "equal" /\ x1 = x + 1 /\ y1 = y + 1 /\ e.oldIndex = x /\ e.newIndex = y
            /\ oldLines[x + 1] = newLines[y + 1]
         \/ e.op = "insert" /\ x1 = x /\ y1 = y + 1 /\ e.oldIndex = -1 /\ e.newIndex = y
         \/ e.op = "delete" /\ x1 = x + 1 /\ y1 = y /\ e.oldIndex = x /\ e.newIndex = -1
BY DEF IsStep, Equal, Insert, Delete

LEMMA PassedIs ==
  ASSUME script \in Seq(LineEdit), NEW f, NEW g, Walks(script, f, g), f[0] = 0, g[0] = 0
  PROVE  /\ \A i \in 0 .. Len(script) : Passed(i, "insert") = f[i] /\ Passed(i, "delete") = g[i]
         /\ Kept = f[Len(script)] + g[Len(script)] - Len(script)
<1>1. PICK k \in Nat : k = Len(script)
  OBVIOUS
<1>2. /\ \A i \in 0 .. k : f[i] \in Nat /\ g[i] \in Nat
      /\ \A i \in 1 .. k : i - 1 \in 0 .. k /\ i \in 0 .. k
      /\ \A i \in 1 .. k : IsStep(script[i], f[i - 1], g[i - 1], f[i], g[i])
  <2>1. \A i \in 0 .. k : f[i] \in Nat /\ g[i] \in Nat
    BY <1>1 DEF Walks
  <2>2. \A i \in 1 .. k : i - 1 \in 0 .. k /\ i \in 0 .. k
    OBVIOUS
  <2> QED BY <1>1, <2>1, <2>2 DEF Walks
<1>3. ASSUME NEW i \in 1 .. k
      PROVE  \/ script[i].op = "equal" /\ f[i] = f[i - 1] + 1 /\ g[i] = g[i - 1] + 1
             \/ script[i].op = "insert" /\ f[i] = f[i - 1] /\ g[i] = g[i - 1] + 1
             \/ script[i].op = "delete" /\ f[i] = f[i - 1] + 1 /\ g[i] = g[i - 1]
  <2>1. IsStep(script[i], f[i - 1], g[i - 1], f[i], g[i]) /\ f[i - 1] \in Nat /\ g[i - 1] \in Nat
    BY <1>2
  <2> QED BY <2>1, StepKinds
<1>4. \A i \in 0 .. k : Passed(i, "insert") = f[i]
  <2> DEFINE A == {j \in 1 .. k : script[j].op # "insert"}
  <2>1. CountsUp(A, f, k)
    <3> SUFFICES ASSUME NEW i \in 1 .. k
                 PROVE  (i \in A => f[i] = f[i - 1] + 1) /\ (i \notin A => f[i] = f[i - 1])
      BY DEF CountsUp
    <3>1. i \in A <=> script[i].op # "insert"
      OBVIOUS
    <3> HIDE DEF A
    <3> QED BY <1>3, <3>1
  <2>2. ASSUME NEW i \in 0 .. k PROVE {j \in 1 .. i : script[j].op # "insert"} = {j \in 1 .. i : j \in A}
    OBVIOUS
  <2> HIDE DEF A
  <2>3. \A i \in 0 .. k : Cardinality({j \in 1 .. i : j \in A}) = f[i]
    BY <2>1, Counted
  <2> QED BY <2>2, <2>3 DEF Passed
<1>5. \A i \in 0 .. k : Passed(i, "delete") = g[i]
  <2> DEFINE A == {j \in 1 .. k : script[j].op # "delete"}
  <2>1. CountsUp(A, g, k)
    <3> SUFFICES ASSUME NEW i \in 1 .. k
                 PROVE  (i \in A => g[i] = g[i - 1] + 1) /\ (i \notin A => g[i] = g[i - 1])
      BY DEF CountsUp
    <3>1. i \in A <=> script[i].op # "delete"
      OBVIOUS
    <3> HIDE DEF A
    <3> QED BY <1>3, <3>1
  <2>2. ASSUME NEW i \in 0 .. k PROVE {j \in 1 .. i : script[j].op # "delete"} = {j \in 1 .. i : j \in A}
    OBVIOUS
  <2> HIDE DEF A
  <2>3. \A i \in 0 .. k : Cardinality({j \in 1 .. i : j \in A}) = g[i]
    BY <2>1, Counted
  <2> QED BY <2>2, <2>3 DEF Passed
<1>6. Kept = f[k] + g[k] - k
  <2> DEFINE A == {j \in 1 .. k : script[j].op = "equal"}
             h == [i \in 0 .. k |-> f[i] + g[i] - i]
  <2>1. h[0] = 0
    BY <1>1
  <2>2. ASSUME NEW i \in 1 .. k
        PROVE  (i \in A => h[i] = h[i - 1] + 1) /\ (i \notin A => h[i] = h[i - 1])
    <3>1. h[i] = f[i] + g[i] - i /\ h[i - 1] = f[i - 1] + g[i - 1] - (i - 1)
      BY <1>2
    <3>2. f[i] \in Nat /\ g[i] \in Nat /\ f[i - 1] \in Nat /\ g[i - 1] \in Nat
      BY <1>2
    <3>3. CASE i \in A
      <4>1. script[i].op = "equal"
        BY <3>3
      <4> HIDE DEF A, h
      <4>2. f[i] = f[i - 1] + 1 /\ g[i] = g[i - 1] + 1
        BY <1>3, <4>1
      <4>3. h[i] = h[i - 1] + 1
        <5>1. PICK a \in Nat, b \in Nat : a = f[i - 1] /\ b = g[i - 1]
          BY <3>2
        <5> QED BY <3>1, <4>2, <5>1
      <4> QED BY <3>3, <4>3
    <3>4. CASE i \notin A
      <4>1. script[i].op # "equal"
        BY <3>4
      <4> HIDE DEF A, h
      <4>2. (f[i] = f[i - 1] /\ g[i] = g[i - 1] + 1) \/ (f[i] = f[i - 1] + 1 /\ g[i] = g[i - 1])
        BY <1>3, <4>1
      <4>3. h[i] = h[i - 1]
        <5>1. PICK a \in Nat, b \in Nat : a = f[i - 1] /\ b = g[i - 1]
          BY <3>2
        <5>2. PICK c \in Nat, e \in Nat : c = f[i] /\ e = g[i]
          BY <3>2
        <5>3. c + e = a + b + 1
          <6>1. (c = a /\ e = b + 1) \/ (c = a + 1 /\ e = b)
            BY <4>2, <5>1, <5>2
          <6> QED BY <6>1
        <5>4. h[i] = c + e - i /\ h[i - 1] = a + b - (i - 1)
          BY <3>1, <5>1, <5>2
        <5> QED BY <5>3, <5>4
      <4> QED BY <3>4, <4>3
    <3> QED BY <3>3, <3>4
  <2>3. {i \in DOMAIN script : script[i].op = "equal"} = {j \in 1 .. k : j \in A}
    BY <1>1
  <2>4. h[k] = f[k] + g[k] - k
    OBVIOUS
  <2> HIDE DEF A, h
  <2>5. \A i \in 0 .. k : Cardinality({j \in 1 .. i : j \in A}) = h[i]
    <3>1. CountsUp(A, h, k)
      BY <2>1, <2>2 DEF CountsUp
    <3> QED BY <3>1, Counted
  <2>6. Cardinality({j \in 1 .. k : j \in A}) = h[k]
    BY <2>5
  <2> QED BY <2>3, <2>4, <2>6 DEF Kept
<1> QED BY <1>1, <1>4, <1>5, <1>6

LEMMA ShortestIs ==
  ASSUME DiffInv, diffAt = "done"
  PROVE  ScriptIsShortest
<1>1. KindsInv /\ DoneInv
  BY DEF DiffInv
<1>2. PICK k \in Nat, a \in Nat, b \in Nat : k = Len(script) /\ a = Len(oldLines) /\ b = Len(newLines)
  BY <1>1, SMTT(30) DEF KindsInv
<1>3. PICK f, g : Walks(script, f, g) /\ f[0] = 0 /\ g[0] = 0 /\ f[k] = a /\ g[k] = b
  BY <1>1, <1>2 DEF DoneInv, IsWalk
<1>4. /\ \A i \in 0 .. k : Passed(i, "insert") = f[i] /\ Passed(i, "delete") = g[i]
      /\ Kept = a + b - k
  <2>1. script \in Seq(LineEdit)
    BY <1>1 DEF KindsInv
  <2>2. /\ \A i \in 0 .. Len(script) : Passed(i, "insert") = f[i] /\ Passed(i, "delete") = g[i]
        /\ Kept = f[Len(script)] + g[Len(script)] - Len(script)
    BY <1>3, <2>1, PassedIs
  <2> QED BY <1>2, <1>3, <2>2
<1>5. Passed(k, "insert") = a /\ Passed(k, "delete") = b
  BY <1>3, <1>4
<1>6. ASSUME NEW i \in DOMAIN script
      PROVE  /\ script[i].op # "insert" => script[i].oldIndex = Passed(i - 1, "insert")
             /\ script[i].op # "delete" => script[i].newIndex = Passed(i - 1, "delete")
             /\ script[i].op = "equal" => oldLines[script[i].oldIndex + 1] = newLines[script[i].newIndex + 1]
  <2>1. i \in 1 .. k /\ i - 1 \in 0 .. k
    BY <1>1, <1>2 DEF KindsInv
  <2>2. IsStep(script[i], f[i - 1], g[i - 1], f[i], g[i]) /\ f[i - 1] \in Nat /\ g[i - 1] \in Nat
    BY <1>2, <1>3, <2>1 DEF Walks
  <2>3. Passed(i - 1, "insert") = f[i - 1] /\ Passed(i - 1, "delete") = g[i - 1]
    BY <1>4, <2>1
  <2> QED BY <2>2, <2>3, StepKinds
<1>7. ASSUME NEW pairs \in SUBSET Matches, InOrder(pairs)
      PROVE  Cardinality(pairs) <= Kept
  <2>1. pairs \in Common(a, b)
    BY <1>1, <1>2, <1>7, MatchesArePairs DEF Common, KindsInv
  <2>2. Cardinality(pairs) \in Nat /\ Cardinality(pairs) + k <= a + b
    BY <1>1, <1>2, <2>1, CommonIsShort DEF DoneInv, KindsInv
  <2> QED BY <1>4, <2>2
<1> QED BY <1>2, <1>5, <1>6, <1>7 DEF ScriptIsShortest

-----------------------------------------------------------------------------
(***************************************************************************)
(* Ranges of changes.                                                      *)
(***************************************************************************)
EditRange == [start : Nat, end : Nat]

\* The equation of upTo in Ranges, for the first k edits.
UpTo(s, k, f) ==
  f = [i \in 0 .. k |-> IF i = 0 THEN <<>>
                        ELSE IF IsChange(s[i]) THEN Widens(s, f[i - 1], i - 1) ELSE f[i - 1]]

LEMMA UpToExtends ==
  ASSUME NEW s, NEW k \in Nat, NEW f, UpTo(s, k, f)
  PROVE  \E g : UpTo(s, k + 1, g)
<1> DEFINE last == IF IsChange(s[k + 1]) THEN Widens(s, f[k], k) ELSE f[k]
           g == [i \in 0 .. k + 1 |-> IF i = k + 1 THEN last ELSE f[i]]
           new(i) == IF i = 0 THEN <<>>
                     ELSE IF IsChange(s[i]) THEN Widens(s, g[i - 1], i - 1) ELSE g[i - 1]
<1>1. ASSUME NEW i \in 0 .. k + 1 PROVE g[i] = new(i)
  <2>1. CASE i = k + 1
    <3>1. i - 1 = k /\ k \in 0 .. k + 1 /\ k # k + 1 /\ i # 0
      BY <2>1
    <3>2. g[i - 1] = f[k] /\ g[i] = last
      BY <2>1, <3>1
    <3> HIDE DEF g
    <3> QED BY <2>1, <3>1, <3>2
  <2>2. CASE i # k + 1
    <3>1. i \in 0 .. k /\ g[i] = f[i]
      BY <2>2
    <3>2. i # 0 => i - 1 \in 0 .. k + 1 /\ i - 1 # k + 1
      BY <3>1
    <3>3. i # 0 => g[i - 1] = f[i - 1]
      BY <3>2
    <3>4. f[i] = IF i = 0 THEN <<>>
                 ELSE IF IsChange(s[i]) THEN Widens(s, f[i - 1], i - 1) ELSE f[i - 1]
      BY <3>1 DEF UpTo
    <3> HIDE DEF g
    <3> QED BY <3>1, <3>3, <3>4
  <2> QED BY <2>1, <2>2
<1>2. g = [i \in 0 .. k + 1 |-> g[i]]
  OBVIOUS
<1> HIDE DEF g
<1>3. UpTo(s, k + 1, g)
  BY <1>1, <1>2 DEF UpTo
<1> QED BY <1>3

LEMMA UpToExists ==
  ASSUME NEW s, NEW k \in Nat
  PROVE  \E f : UpTo(s, k, f)
<1> DEFINE Solved(i) == \E f : UpTo(s, i, f)
           T == {i \in Nat : Solved(i)}
<1>1. Solved(0)
  <2> DEFINE f == [i \in 0 .. 0 |-> <<>>]
  <2>1. UpTo(s, 0, f)
    BY DEF UpTo
  <2> QED BY <2>1
<1>2. ASSUME NEW i \in Nat, Solved(i) PROVE Solved(i + 1)
  BY <1>2, UpToExtends
<1>3. T = Nat
  <2> HIDE DEF Solved
  <2>1. 0 \in T /\ \A i \in T : i + 1 \in T
    BY <1>1, <1>2
  <2> QED BY <2>1, Induction
<1>4. Solved(k)
  <2> HIDE DEF Solved
  <2> QED BY <1>3
<1> QED BY <1>4

LEMMA RangesDef ==
  ASSUME NEW s
  PROVE  Ranges(s) = (CHOOSE f : UpTo(s, Len(s), f))[Len(s)]
BY Zenon DEF Ranges, UpTo

LEMMA RangesAre ==
  ASSUME NEW s, Len(s) \in Nat
  PROVE  \E f : /\ Ranges(s) = f[Len(s)]
                /\ f[0] = <<>>
                /\ \A i \in 1 .. Len(s) : f[i] = IF IsChange(s[i]) THEN Widens(s, f[i - 1], i - 1) ELSE f[i - 1]
<1> DEFINE f == CHOOSE g : UpTo(s, Len(s), g)
<1>1. UpTo(s, Len(s), f)
  BY UpToExists
<1>2. Ranges(s) = f[Len(s)]
  BY RangesDef
<1> HIDE DEF f
<1>3. \A i \in 0 .. Len(s) : f[i] = IF i = 0 THEN <<>>
                                    ELSE IF IsChange(s[i]) THEN Widens(s, f[i - 1], i - 1) ELSE f[i - 1]
  BY <1>1 DEF UpTo
<1>4. f[0] = <<>>
  BY <1>3
<1>5. ASSUME NEW i \in 1 .. Len(s)
      PROVE  f[i] = IF IsChange(s[i]) THEN Widens(s, f[i - 1], i - 1) ELSE f[i - 1]
  <2>1. i \in 0 .. Len(s) /\ i # 0
    OBVIOUS
  <2> QED BY <1>3, <2>1
<1> QED BY <1>2, <1>4, <1>5

\* What the ranges of the first i edits are: the changes among them and their context,
\* apart from each other, each beginning with the file or a line that is kept.
RangesRight(s, i, r) ==
  /\ r \in Seq(EditRange)
  /\ \A h \in 1 .. Len(r) : /\ r[h].start <= r[h].end /\ r[h].end <= Len(s) - 1
                            /\ r[h].start = 0 \/ ~IsChange(s[r[h].start + 1])
  /\ \A h \in 1 .. Len(r) - 1 : r[h].end + 1 < r[h + 1].start
  /\ Len(r) > 0 => r[Len(r)].start <= Max({0, i - 1 - context})
  /\ \A j \in 1 .. i : IsChange(s[j]) =>
       /\ Len(r) > 0 /\ j - 1 <= r[Len(r)].end
       /\ \E h \in 1 .. Len(r) :
            r[h].start <= Max({0, j - 1 - context}) /\ Min({Len(s) - 1, j - 1 + context}) <= r[h].end

LEMMA RangesGoOn ==
  ASSUME context \in Nat, NEW s, NEW i \in 1 .. Len(s), Len(s) \in Nat, ~IsChange(s[i]),
         NEW r, RangesRight(s, i - 1, r)
  PROVE  RangesRight(s, i, r)
<1>1. r \in Seq(EditRange) /\ Len(r) \in Nat
  BY DEF RangesRight
<1>2. Len(r) > 0 => r[Len(r)].start <= Max({0, i - 1 - context})
  <2> SUFFICES ASSUME Len(r) > 0 PROVE r[Len(r)].start <= Max({0, i - 1 - context})
    OBVIOUS
  <2>1. PICK x \in Nat : x = r[Len(r)].start
    <3>1. Len(r) \in 1 .. Len(r)
      BY <1>1
    <3>2. r[Len(r)] \in EditRange
      BY <1>1, <3>1
    <3> QED BY <3>2 DEF EditRange
  <2>2. PICK a \in Int, b \in Int : a = i - 1 - context /\ b = (i - 1) - 1 - context
    OBVIOUS
  <2>3. x <= Max({0, b})
    BY <2>1, <2>2 DEF RangesRight
  <2>4. x <= Max({0, a})
    BY <2>2, <2>3, LargerIs
  <2> QED BY <2>1, <2>2, <2>4
<1>3. \A j \in 1 .. i : j \in 1 .. i - 1 \/ j = i
  OBVIOUS
<1> QED BY <1>2, <1>3 DEF RangesRight

LEMMA ReplaceIn ==
  ASSUME NEW S, NEW s \in Seq(S), NEW k \in 1 .. Len(s), NEW e \in S, NEW t, t = [s EXCEPT ![k] = e]
  PROVE  t \in Seq(S) /\ Len(t) = Len(s) /\ t[k] = e /\ \A h \in 1 .. Len(s) : h # k => t[h] = s[h]
OBVIOUS

LEMMA AddTo ==
  ASSUME NEW S, NEW s \in Seq(S), NEW e \in S, NEW t, t = Append(s, e)
  PROVE  t \in Seq(S) /\ Len(t) = Len(s) + 1 /\ t[Len(s) + 1] = e /\ \A h \in 1 .. Len(s) : t[h] = s[h]
OBVIOUS

LEMMA RangesWiden ==
  ASSUME context \in Nat \ {0}, NEW s, NEW i \in 1 .. Len(s), Len(s) \in Nat, IsChange(s[i]),
         NEW r, RangesRight(s, i - 1, r), NEW t, t = Widens(s, r, i - 1)
  PROVE  RangesRight(s, i, t)
<1>1. PICK c \in Nat \ {0}, l \in Nat, k \in Nat : c = context /\ l = Len(s) /\ k = Len(r)
  BY DEF RangesRight
<1>2. PICK start, end : start = Max({0, i - 1 - c}) /\ end = Min({l - 1, i - 1 + c})
  OBVIOUS
<1>3. i \in Nat /\ i >= 1 /\ i <= l
  BY <1>1
<1>4. /\ start = IF i - 1 - c > 0 THEN i - 1 - c ELSE 0
      /\ end = IF i - 1 + c < l - 1 THEN i - 1 + c ELSE l - 1
      /\ start \in Nat /\ end \in Nat /\ start <= i - 1 /\ i - 1 <= end /\ end <= l - 1
  <2>1. PICK a \in Int, b \in Int, e \in Int : a = i - 1 - c /\ b = i - 1 + c /\ e = l - 1
    BY <1>3
  <2>2. start = (IF a > 0 THEN a ELSE 0) /\ end = (IF b < e THEN b ELSE e)
    <3>1. start = Max({0, a}) /\ end = Min({e, b})
      BY <1>2, <2>1
    <3>2. Max({0, a}) = IF 0 >= a THEN 0 ELSE a
      BY LargerIs
    <3>3. Min({e, b}) = IF e <= b THEN e ELSE b
      BY LargerIs
    <3> QED BY <2>1, <3>1, <3>2, <3>3
  <2> QED BY <1>3, <2>1, <2>2
<1>5. /\ r \in Seq(EditRange)
      /\ \A h \in 1 .. k : /\ r[h] \in EditRange /\ r[h].start \in Nat /\ r[h].end \in Nat
                           /\ r[h].start <= r[h].end /\ r[h].end <= l - 1
                           /\ r[h].start = 0 \/ ~IsChange(s[r[h].start + 1])
      /\ \A h \in 1 .. k - 1 : r[h].end + 1 < r[h + 1].start
      /\ \A j \in 1 .. i - 1 : IsChange(s[j]) =>
           /\ k > 0 /\ j - 1 <= r[k].end
           /\ \E h \in 1 .. k :
                r[h].start <= Max({0, j - 1 - c}) /\ Min({l - 1, j - 1 + c}) <= r[h].end
  <2>1. r \in Seq(EditRange)
    BY DEF RangesRight
  <2>2. ASSUME NEW h \in 1 .. k PROVE r[h] \in EditRange /\ r[h].start \in Nat /\ r[h].end \in Nat
    <3>1. r[h] \in EditRange
      BY <1>1, <2>1
    <3> QED BY <3>1 DEF EditRange
  <2>3. \A h \in 1 .. k : /\ r[h].start <= r[h].end /\ r[h].end <= l - 1
                          /\ r[h].start = 0 \/ ~IsChange(s[r[h].start + 1])
    BY <1>1 DEF RangesRight
  <2>4. \A h \in 1 .. k - 1 : r[h].end + 1 < r[h + 1].start
    BY <1>1 DEF RangesRight
  <2>5. ASSUME NEW j \in 1 .. i - 1, IsChange(s[j])
        PROVE  /\ k > 0 /\ j - 1 <= r[k].end
               /\ \E h \in 1 .. k :
                    r[h].start <= Max({0, j - 1 - c}) /\ Min({l - 1, j - 1 + c}) <= r[h].end
    BY <1>1, <2>5 DEF RangesRight
  <2> QED BY <2>1, <2>2, <2>3, <2>4, <2>5
<1>6. k > 0 => r[k].start <= start
  <2> SUFFICES ASSUME k > 0 PROVE r[k].start <= start
    OBVIOUS
  <2>1. PICK a \in Int, x \in Nat : a = i - 1 - 1 - c /\ x = r[k].start
    <3>1. k \in 1 .. k
      OBVIOUS
    <3>2. r[k].start \in Nat
      BY <1>5, <3>1
    <3>3. i - 1 - 1 - c \in Int
      BY <1>3
    <3> QED BY <3>2, <3>3
  <2>2. x <= Max({0, a})
    BY <1>1, <2>1 DEF RangesRight
  <2>3. Max({0, a}) = IF 0 >= a THEN 0 ELSE a
    BY LargerIs
  <2>4. x <= a \/ x = 0
    BY <2>1, <2>2, <2>3
  <2>5. a <= start
    BY <1>3, <1>4, <2>1
  <2> QED BY <1>4, <2>1, <2>4, <2>5
<1>7. \A j \in 1 .. i : j \in 1 .. i - 1 \/ j = i
  BY <1>3
<1>8. t = IF k > 0 /\ start <= r[k].end + 1
          THEN [r EXCEPT ![k].end = Max({@, end})]
          ELSE Append(r, [start |-> start, end |-> end])
  BY <1>1, <1>2 DEF Widens
<1>9. CASE k > 0 /\ start <= r[k].end + 1
  <2>1. PICK x \in Nat, y \in Nat : x = r[k].start /\ y = r[k].end
    <3>1. k \in 1 .. k
      BY <1>9
    <3> QED BY <1>5, <3>1
  <2>2. PICK z \in Nat : z = Max({y, end}) /\ y <= z /\ end <= z /\ z <= l - 1
    <3>1. y <= l - 1
      BY <1>5, <1>9, <2>1
    <3>2. Max({y, end}) = IF y >= end THEN y ELSE end
      BY <1>4, LargerIs
    <3> QED BY <1>4, <3>1, <3>2
  <2>3. k \in 1 .. k /\ k \in DOMAIN r /\ DOMAIN r = 1 .. k
    BY <1>1, <1>5, <1>9
  <2>4. r[k] = [start |-> x, end |-> y]
    BY <1>5, <2>1, <2>3 DEF EditRange
  <2>5. t = [r EXCEPT ![k] = [start |-> x, end |-> z]]
    <3>1. [r[k] EXCEPT !.end = z] = [start |-> x, end |-> z]
      BY <2>4
    <3>2. t = [r EXCEPT ![k].end = z]
      BY <1>8, <1>9, <2>1, <2>2
    <3>3. t = [r EXCEPT ![k] = [r[k] EXCEPT !.end = z]]
      BY <3>2
    <3> QED BY <3>1, <3>3
  <2>6. [start |-> x, end |-> z] \in EditRange
    BY DEF EditRange
  <2>7. t \in Seq(EditRange) /\ Len(t) = k /\ t[k] = [start |-> x, end |-> z]
        /\ \A h \in 1 .. k : h # k => t[h] = r[h]
    <3>1. PICK e \in EditRange : e = [start |-> x, end |-> z]
      BY <2>6
    <3>2. k \in 1 .. Len(r)
      BY <1>1, <2>3
    <3>3. t = [r EXCEPT ![k] = e]
      BY <2>5, <3>1
    <3>4. t \in Seq(EditRange) /\ Len(t) = Len(r) /\ t[k] = e /\ \A h \in 1 .. Len(r) : h # k => t[h] = r[h]
      BY <1>5, <3>2, <3>3, ReplaceIn
    <3> QED BY <1>1, <3>1, <3>4
  <2>8. t[k].start = x /\ t[k].end = z
    BY <2>7
  <2>9. \A h \in 1 .. k : t[h].start = r[h].start /\ t[h].end \in Nat /\ r[h].end <= t[h].end /\ t[h].end <= l - 1
    <3> SUFFICES ASSUME NEW h \in 1 .. k
                 PROVE  t[h].start = r[h].start /\ t[h].end \in Nat /\ r[h].end <= t[h].end /\ t[h].end <= l - 1
      OBVIOUS
    <3>1. CASE h = k
      BY <2>1, <2>2, <2>8, <3>1
    <3>2. CASE h # k
      BY <1>5, <2>7, <3>2, SMTT(30)
    <3> QED BY <3>1, <3>2
  <2>10. ASSUME NEW h \in 1 .. Len(t)
         PROVE  /\ t[h].start <= t[h].end /\ t[h].end <= l - 1
                /\ t[h].start = 0 \/ ~IsChange(s[t[h].start + 1])
    <3>1. h \in 1 .. k
      BY <2>7
    <3>2. r[h].start \in Nat /\ r[h].end \in Nat /\ r[h].start <= r[h].end
          /\ (r[h].start = 0 \/ ~IsChange(s[r[h].start + 1]))
      BY <1>5, <3>1
    <3>3. t[h].start = r[h].start /\ t[h].end \in Nat /\ r[h].end <= t[h].end /\ t[h].end <= l - 1
      BY <2>9, <3>1
    <3>4. t[h].start <= t[h].end
      BY <3>2, <3>3, SMTT(30)
    <3> QED BY <3>2, <3>3, <3>4
  <2>11. ASSUME NEW h \in 1 .. Len(t) - 1
         PROVE  t[h].end + 1 < t[h + 1].start
    <3>1. h \in 1 .. k - 1 /\ h \in 1 .. k /\ h # k /\ h + 1 \in 1 .. k
      BY <1>1, <2>7
    <3>2. t[h] = r[h] /\ t[h + 1].start = r[h + 1].start
      BY <2>7, <2>9, <3>1
    <3> QED BY <1>5, <3>1, <3>2
  <2>12. t[Len(t)].start <= Max({0, i - 1 - context})
    BY <1>1, <1>2, <1>6, <1>9, <2>1, <2>7, <2>8
  <2>13. ASSUME NEW j \in 1 .. i, IsChange(s[j])
         PROVE  /\ Len(t) > 0 /\ j - 1 <= t[Len(t)].end
                /\ \E h \in 1 .. Len(t) :
                     t[h].start <= Max({0, j - 1 - c}) /\ Min({l - 1, j - 1 + c}) <= t[h].end
    <3>1. CASE j = i
      <4>1. j - 1 <= z
        BY <1>3, <1>4, <2>2, <3>1
      <4>2. t[k].start <= Max({0, j - 1 - c}) /\ Min({l - 1, j - 1 + c}) <= t[k].end
        BY <1>2, <1>6, <1>9, <2>1, <2>2, <2>8, <3>1
      <4> QED BY <1>9, <2>3, <2>7, <2>8, <4>1, <4>2
    <3>2. CASE j \in 1 .. i - 1
      <4>1. PICK h \in 1 .. k : r[h].start <= Max({0, j - 1 - c}) /\ Min({l - 1, j - 1 + c}) <= r[h].end
        BY <1>5, <2>13, <3>2
      <4>2. j - 1 <= y
        BY <1>5, <2>1, <2>13, <3>2
      <4>3. j - 1 <= z
        BY <1>3, <2>2, <3>2, <4>2
      <4>4. Min({l - 1, j - 1 + c}) <= t[h].end
        <5>1. PICK a \in Int, b \in Int : a = l - 1 /\ b = j - 1 + c
          BY <1>3
        <5>2. Min({a, b}) \in Int
          BY LargerIs
        <5>3. r[h].end \in Nat /\ t[h].end \in Nat /\ r[h].end <= t[h].end
          BY <1>5, <2>9
        <5> QED BY <4>1, <5>1, <5>2, <5>3
      <4>5. t[h].start <= Max({0, j - 1 - c})
        BY <2>9, <4>1
      <4> QED BY <1>9, <2>7, <2>8, <4>3, <4>4, <4>5
    <3> QED BY <1>7, <3>1, <3>2
  <2> QED BY <1>1, <2>7, <2>10, <2>11, <2>12, <2>13 DEF RangesRight
<1>10. CASE ~(k > 0 /\ start <= r[k].end + 1)
  <2>1. PICK e : e = [start |-> start, end |-> end]
    OBVIOUS
  <2>2. e \in EditRange /\ e.start = start /\ e.end = end
    BY <1>4, <2>1 DEF EditRange
  <2>3. t = Append(r, e)
    BY <1>8, <1>10, <2>1
  <2>4. t \in Seq(EditRange) /\ Len(t) = k + 1 /\ t[k + 1] = e /\ \A h \in 1 .. k : t[h] = r[h]
    BY <1>1, <1>5, <2>2, <2>3, AddTo
  <2>5. start = 0 \/ ~IsChange(s[start + 1])
    <3> SUFFICES ASSUME start # 0, IsChange(s[start + 1]) PROVE FALSE
      OBVIOUS
    <3>1. start + 1 \in 1 .. i - 1 /\ (start + 1) - 1 = start
      BY <1>3, <1>4
    <3>2. k > 0 /\ start <= r[k].end
      BY <1>5, <3>1
    <3>3. k \in 1 .. k
      BY <3>2
    <3>4. r[k].end \in Nat
      BY <1>5, <3>3
    <3> QED BY <1>4, <1>10, <3>2, <3>4
  <2>6. ASSUME NEW h \in 1 .. Len(t)
        PROVE  /\ t[h].start <= t[h].end /\ t[h].end <= l - 1
               /\ t[h].start = 0 \/ ~IsChange(s[t[h].start + 1])
    <3>1. CASE h \in 1 .. k
      BY <1>5, <2>4, <3>1
    <3>2. CASE h = k + 1
      <4>1. t[h].start = start /\ t[h].end = end
        BY <2>2, <2>4, <3>2
      <4>2. start <= end
        BY <1>3, <1>4
      <4> QED BY <1>4, <2>5, <4>1, <4>2
    <3> QED BY <2>4, <3>1, <3>2
  <2>7. ASSUME NEW h \in 1 .. Len(t) - 1
        PROVE  t[h].end + 1 < t[h + 1].start
    <3>1. h \in 1 .. k
      BY <2>4
    <3>2. CASE h = k
      <4>1. t[h] = r[k] /\ t[h + 1].start = start
        BY <2>2, <2>4, <3>1, <3>2
      <4>2. r[k].end \in Nat /\ k > 0
        <5>1. k \in 1 .. k /\ k > 0
          BY <3>1, <3>2
        <5> QED BY <1>5, <5>1
      <4> QED BY <1>4, <1>10, <4>1, <4>2
    <3>3. CASE h # k
      <4>1. h \in 1 .. k - 1 /\ h + 1 \in 1 .. k
        BY <3>1, <3>3
      <4>2. t[h] = r[h] /\ t[h + 1] = r[h + 1]
        BY <2>4, <3>1, <4>1
      <4> QED BY <1>5, <4>1, <4>2
    <3> QED BY <3>2, <3>3
  <2>8. t[Len(t)].start <= Max({0, i - 1 - context})
    BY <1>1, <1>2, <1>4, <2>2, <2>4
  <2>9. ASSUME NEW j \in 1 .. i, IsChange(s[j])
        PROVE  /\ Len(t) > 0 /\ j - 1 <= t[Len(t)].end
               /\ \E h \in 1 .. Len(t) :
                    t[h].start <= Max({0, j - 1 - c}) /\ Min({l - 1, j - 1 + c}) <= t[h].end
    <3>1. t[Len(t)].end = end /\ t[k + 1].start = start /\ t[k + 1].end = end /\ Len(t) = k + 1 /\ k + 1 \in 1 .. Len(t)
      BY <2>2, <2>4
    <3>2. Len(t) > 0 /\ j - 1 <= t[Len(t)].end
      BY <1>3, <1>4, <3>1
    <3>3. CASE j = i
      <4>1. start <= Max({0, j - 1 - c}) /\ Min({l - 1, j - 1 + c}) <= end
        BY <1>2, <1>4, <3>3
      <4> QED BY <3>1, <3>2, <4>1
    <3>4. CASE j \in 1 .. i - 1
      <4>1. PICK h \in 1 .. k : r[h].start <= Max({0, j - 1 - c}) /\ Min({l - 1, j - 1 + c}) <= r[h].end
        BY <1>5, <2>9, <3>4
      <4>2. t[h] = r[h] /\ h \in 1 .. Len(t)
        BY <2>4
      <4> QED BY <3>2, <4>1, <4>2
    <3> QED BY <1>7, <3>3, <3>4
  <2> QED BY <1>1, <2>4, <2>6, <2>7, <2>8, <2>9 DEF RangesRight
<1> QED BY <1>9, <1>10

LEMMA RangesAreRight ==
  ASSUME context \in Nat \ {0}, NEW s, Len(s) \in Nat
  PROVE  RangesRight(s, Len(s), Ranges(s))
<1>1. PICK f : /\ Ranges(s) = f[Len(s)]
               /\ f[0] = <<>>
               /\ \A i \in 1 .. Len(s) : f[i] = IF IsChange(s[i]) THEN Widens(s, f[i - 1], i - 1) ELSE f[i - 1]
  BY RangesAre
<1> DEFINE Right(i) == i <= Len(s) => RangesRight(s, i, f[i])
           T == {i \in Nat : Right(i)}
<1>2. Right(0)
  <2>1. <<>> \in Seq(EditRange) /\ Len(<<>>) = 0 /\ 1 .. 0 = {} /\ 1 .. 0 - 1 = {}
    OBVIOUS
  <2> QED BY <1>1, <2>1 DEF RangesRight
<1>3. ASSUME NEW i \in Nat, Right(i) PROVE Right(i + 1)
  <2> SUFFICES ASSUME i + 1 <= Len(s) PROVE RangesRight(s, i + 1, f[i + 1])
    OBVIOUS
  <2>1. PICK j \in 1 .. Len(s) : j = i + 1
    OBVIOUS
  <2>2. j - 1 = i /\ RangesRight(s, j - 1, f[j - 1])
    BY <1>3, <2>1
  <2>3. CASE IsChange(s[j])
    <3>1. f[j] = Widens(s, f[j - 1], j - 1)
      BY <1>1, <2>3
    <3> QED BY <2>1, <2>2, <2>3, <3>1, RangesWiden
  <2>4. CASE ~IsChange(s[j])
    <3>1. f[j] = f[j - 1]
      BY <1>1, <2>4
    <3> QED BY <2>1, <2>2, <2>4, <3>1, RangesGoOn
  <2> QED BY <2>3, <2>4
<1>4. T = Nat
  <2> HIDE DEF Right
  <2>1. 0 \in T /\ \A i \in T : i + 1 \in T
    BY <1>2, <1>3
  <2> QED BY <2>1, Induction
<1>5. Right(Len(s))
  <2> HIDE DEF Right
  <2> QED BY <1>4
<1> QED BY <1>1, <1>5

-----------------------------------------------------------------------------
(***************************************************************************)
(* Hunks.                                                                  *)
(***************************************************************************)

\* f counts the lines of one side; h is the number of the line an edit is on there, 0
\* where it is on none.
Numbers(f, h, k) ==
  /\ \A i \in 0 .. k : f[i] \in Nat
  /\ \A i \in 1 .. k : (f[i] = f[i - 1] + 1 /\ h[i] = f[i]) \/ (f[i] = f[i - 1] /\ h[i] = 0)

LEMMA NumbersRise ==
  ASSUME NEW k \in Nat, NEW f, NEW h, Numbers(f, h, k), NEW a \in 0 .. k, NEW b \in 0 .. k, a <= b
  PROVE  f[a] <= f[b]
<1> DEFINE Above(i) == a + i <= k => f[a] <= f[a + i]
           T == {i \in Nat : Above(i)}
<1>1. Above(0)
  <2>1. a + 0 = a /\ f[a] \in Nat
    BY DEF Numbers
  <2> QED BY <2>1
<1>2. ASSUME NEW i \in Nat, Above(i) PROVE Above(i + 1)
  <2> SUFFICES ASSUME a + (i + 1) <= k PROVE f[a] <= f[a + (i + 1)]
    OBVIOUS
  <2>1. PICK j \in 1 .. k : j = a + (i + 1)
    OBVIOUS
  <2>2. j - 1 = a + i /\ j - 1 \in 0 .. k /\ j \in 0 .. k
    BY <2>1
  <2>3. f[a] <= f[j - 1]
    BY <1>2, <2>2
  <2>4. f[a] \in Nat /\ f[j - 1] \in Nat /\ f[j] \in Nat /\ (f[j] = f[j - 1] + 1 \/ f[j] = f[j - 1])
    BY <2>2 DEF Numbers
  <2> QED BY <2>1, <2>3, <2>4
<1>3. T = Nat
  <2> HIDE DEF Above
  <2>1. 0 \in T /\ \A i \in T : i + 1 \in T
    BY <1>1, <1>2
  <2> QED BY <2>1, Induction
<1>4. b - a \in Nat /\ a + (b - a) = b
  OBVIOUS
<1>5. Above(b - a)
  <2> HIDE DEF Above
  <2> QED BY <1>3, <1>4
<1> QED BY <1>4, <1>5

LEMMA NumbersFollow ==
  ASSUME NEW k \in Nat, NEW f, NEW h, Numbers(f, h, k), NEW a \in 0 .. k, NEW b \in 0 .. k, a <= b
  PROVE  {h[i] : i \in a + 1 .. b} \ {0} = f[a] + 1 .. f[b]
<1>1. /\ \A i \in 0 .. k : f[i] \in Nat
      /\ \A i \in 1 .. k : (f[i] = f[i - 1] + 1 /\ h[i] = f[i]) \/ (f[i] = f[i - 1] /\ h[i] = 0)
  BY DEF Numbers
<1>2. f[a] \in Nat /\ f[b] \in Nat
  BY <1>1
<1>3. ASSUME NEW i \in a + 1 .. b, h[i] # 0 PROVE h[i] \in f[a] + 1 .. f[b]
  <2>1. i \in 1 .. k /\ i \in 0 .. k /\ i - 1 \in 0 .. k /\ a <= i - 1 /\ i <= b
    OBVIOUS
  <2>2. f[a] <= f[i - 1] /\ f[i] <= f[b]
    BY <2>1, NumbersRise
  <2>3. h[i] = f[i] /\ f[i] = f[i - 1] + 1 /\ f[i - 1] \in Nat /\ f[i] \in Nat
    BY <1>1, <1>3, <2>1
  <2> QED BY <1>2, <2>2, <2>3
<1>4. ASSUME NEW v \in f[a] + 1 .. f[b] PROVE v # 0 /\ \E i \in a + 1 .. b : h[i] = v
  <2>1. v \in Nat /\ v # 0 /\ f[a] < v /\ v <= f[b]
    BY <1>2
  <2> DEFINE T == {i \in a + 1 .. b : f[i] >= v}
  <2>2. T \in SUBSET Nat /\ T # {}
    <3>1. b # a
      BY <1>2, <2>1
    <3>2. b \in a + 1 .. b /\ f[b] >= v
      BY <1>2, <2>1, <3>1
    <3> QED BY <3>2
  <2>3. PICK i \in T : \A j \in T : i <= j
    <3> HIDE DEF T
    <3> QED BY <2>2, LeastNatural
  <2>4. i \in a + 1 .. b /\ i \in Nat /\ f[i] >= v /\ i \in 1 .. k /\ i \in 0 .. k /\ i - 1 \in 0 .. k
    BY <2>3
  <2>5. f[i - 1] < v
    <3>1. CASE i - 1 = a
      BY <2>1, <3>1
    <3>2. CASE i - 1 # a
      <4>1. i - 1 \in a + 1 .. b /\ ~(i <= i - 1)
        BY <2>4, <3>2
      <4>2. i - 1 \notin T
        <5> HIDE DEF T
        <5> QED BY <2>3, <4>1
      <4>3. ~(f[i - 1] >= v) /\ f[i - 1] \in Nat
        BY <1>1, <2>4, <4>1, <4>2
      <4> QED BY <2>1, <4>3
    <3> QED BY <3>1, <3>2
  <2>6. f[i - 1] \in Nat /\ f[i] \in Nat
    BY <1>1, <2>4
  <2> HIDE DEF T
  <2>7. f[i] = f[i - 1] + 1 /\ h[i] = f[i]
    BY <1>1, <2>1, <2>4, <2>5, <2>6
  <2>8. h[i] = v
    BY <2>1, <2>4, <2>5, <2>6, <2>7
  <2> QED BY <2>1, <2>4, <2>8
<1> QED BY <1>3, <1>4

LinesOn(h, a, b) == {h[i + 1] : i \in a .. b} \ {0}

\* Where a hunk stands on one side.
LEMMA StandsRight ==
  ASSUME NEW k \in Nat, NEW f, NEW h, Numbers(f, h, k), f[0] = 0, NEW a \in 0 .. k - 1, NEW b \in 0 .. k - 1, a <= b,
         a = 0 \/ f[a + 1] = f[a] + 1,
         NEW lines, lines = LinesOn(h, a, b)
  PROVE  /\ First(lines) \in Nat /\ Cardinality(lines) \in Nat
         /\ StartIsRight(First(lines), Cardinality(lines), f[a])
<1>1. a \in 0 .. k /\ a + 1 \in 0 .. k /\ b + 1 \in 0 .. k /\ a <= b + 1 /\ a + 1 <= b + 1
  OBVIOUS
<1>2. f[a] \in Nat /\ f[b + 1] \in Nat
  BY <1>1 DEF Numbers
<1>3. lines = f[a] + 1 .. f[b + 1]
  <2>1. {h[i + 1] : i \in a .. b} = {h[i] : i \in a + 1 .. b + 1}
    <3>1. ASSUME NEW i \in a .. b PROVE i + 1 \in a + 1 .. b + 1
      OBVIOUS
    <3>2. ASSUME NEW i \in a + 1 .. b + 1 PROVE i - 1 \in a .. b /\ i = (i - 1) + 1
      OBVIOUS
    <3> QED BY <3>1, <3>2
  <2>2. PICK e \in 0 .. k : e = b + 1
    BY <1>1
  <2>3. {h[i] : i \in a + 1 .. e} \ {0} = f[a] + 1 .. f[e]
    BY <1>1, <2>2, NumbersFollow
  <2>4. lines = {h[i] : i \in a + 1 .. b + 1} \ {0}
    BY <2>1 DEF LinesOn
  <2> QED BY <2>2, <2>3, <2>4
<1>4. CASE f[b + 1] >= f[a] + 1
  <2>1. PICK x \in Nat, y \in Nat : x = f[a] + 1 /\ y = f[b + 1] /\ x <= y
    BY <1>2, <1>4
  <2>2. lines = x .. y
    BY <1>3, <2>1
  <2>3. Cardinality(lines) = y - x + 1
    <3>1. x \in Int /\ y \in Int /\ ~(x > y)
      BY <2>1
    <3>2. Cardinality(x .. y) = IF x > y THEN 0 ELSE y - x + 1
      BY <3>1, FS_Interval
    <3>3. Cardinality(x .. y) = y - x + 1
      BY <3>1, <3>2
    <3>4. Cardinality(lines) = Cardinality(x .. y)
      BY <2>2
    <3> QED BY <3>3, <3>4
  <2>4. x \in lines /\ lines \in SUBSET Nat /\ lines # {}
    BY <2>1, <2>2
  <2>5. Min(lines) \in lines /\ \A z \in lines : Min(lines) <= z
    BY <2>4, SmallestIs
  <2>6. First(lines) = x
    <3>1. PICK w : w = Min(lines)
      OBVIOUS
    <3>2. w <= x /\ w \in x .. y
      BY <2>2, <2>4, <2>5, <3>1
    <3>3. w = x
      BY <2>1, <3>2
    <3> QED BY <2>4, <3>1, <3>3 DEF First
  <2> QED BY <1>2, <2>1, <2>3, <2>6 DEF StartIsRight
<1>5. CASE ~(f[b + 1] >= f[a] + 1)
  <2>1. lines = {}
    <3>1. PICK x \in Nat, y \in Nat : x = f[a] /\ y = f[b + 1]
      BY <1>2
    <3>2. x + 1 .. y = {}
      BY <1>5, <3>1
    <3> QED BY <1>3, <3>1, <3>2
  <2>2. Cardinality(lines) = 0 /\ First(lines) = 0
    BY <2>1, FS_EmptySet DEF First
  <2>3. a = 0
    <3>1. f[a + 1] <= f[b + 1]
      BY <1>1, NumbersRise
    <3>2. f[a + 1] \in Nat
      BY <1>1 DEF Numbers
    <3> QED BY <1>2, <1>5, <3>1, <3>2
  <2> QED BY <2>2, <2>3 DEF StartIsRight
<1> QED BY <1>4, <1>5

LEMMA HunkIsRight ==
  ASSUME script \in Seq(LineEdit), NEW f, NEW g, Walks(script, f, g), f[0] = 0, g[0] = 0,
         NEW range \in EditRange, range.start <= range.end, range.end <= Len(script) - 1,
         range.start = 0 \/ ~IsChange(script[range.start + 1]),
         NEW hunk, hunk = HunkOf(script, range)
  PROVE  /\ hunk \in Hunk
         /\ hunk.start = range.start /\ hunk.end = range.end
         /\ StartIsRight(hunk.oldStart, hunk.oldLines, Passed(hunk.start, "insert"))
         /\ StartIsRight(hunk.newStart, hunk.newLines, Passed(hunk.start, "delete"))
<1>1. PICK k \in Nat, a \in Nat, b \in Nat : k = Len(script) /\ a = range.start /\ b = range.end
  BY DEF EditRange
<1>2. a \in 0 .. k - 1 /\ b \in 0 .. k - 1 /\ a <= b /\ a \in 0 .. k /\ a + 1 \in 1 .. k
  BY <1>1
<1>3. /\ \A i \in 0 .. k : f[i] \in Nat /\ g[i] \in Nat
      /\ \A i \in 1 .. k : IsStep(script[i], f[i - 1], g[i - 1], f[i], g[i])
  BY <1>1 DEF Walks
<1>4. \A i \in 1 .. k : i - 1 \in 0 .. k /\ i \in 0 .. k
  OBVIOUS
<1>5. ASSUME NEW i \in 1 .. k
      PROVE  \/ /\ ~IsChange(script[i]) /\ f[i] = f[i - 1] + 1 /\ g[i] = g[i - 1] + 1
                /\ script[i].oldIndex = f[i - 1] /\ script[i].newIndex = g[i - 1]
             \/ /\ IsChange(script[i]) /\ f[i] = f[i - 1] /\ g[i] = g[i - 1] + 1
                /\ script[i].oldIndex = -1 /\ script[i].newIndex = g[i - 1]
             \/ /\ IsChange(script[i]) /\ f[i] = f[i - 1] + 1 /\ g[i] = g[i - 1]
                /\ script[i].oldIndex = f[i - 1] /\ script[i].newIndex = -1
  <2>1. IsStep(script[i], f[i - 1], g[i - 1], f[i], g[i]) /\ f[i - 1] \in Nat /\ g[i - 1] \in Nat
    BY <1>3, <1>4
  <2> QED BY <2>1, StepKinds DEF IsChange
<1> DEFINE hf == [i \in 1 .. k |-> script[i].oldIndex + 1]
           hg == [i \in 1 .. k |-> script[i].newIndex + 1]
<1>6. Numbers(f, hf, k) /\ Numbers(g, hg, k)
  <2>1. ASSUME NEW i \in 1 .. k
        PROVE  /\ (f[i] = f[i - 1] + 1 /\ hf[i] = f[i]) \/ (f[i] = f[i - 1] /\ hf[i] = 0)
               /\ (g[i] = g[i - 1] + 1 /\ hg[i] = g[i]) \/ (g[i] = g[i - 1] /\ hg[i] = 0)
    <3>1. hf[i] = script[i].oldIndex + 1 /\ hg[i] = script[i].newIndex + 1
      OBVIOUS
    <3>2. f[i - 1] \in Nat /\ g[i - 1] \in Nat
      BY <1>3, <1>4
    <3> HIDE DEF hf, hg
    <3> QED BY <1>5, <3>1, <3>2
  <2> HIDE DEF hf, hg
  <2> QED BY <1>3, <2>1 DEF Numbers
<1>7. a = 0 \/ (f[a + 1] = f[a] + 1 /\ g[a + 1] = g[a] + 1)
  <2> SUFFICES ASSUME a # 0 PROVE f[a + 1] = f[a] + 1 /\ g[a + 1] = g[a] + 1
    OBVIOUS
  <2>1. PICK i \in 1 .. k : i = a + 1
    BY <1>2
  <2>2. i - 1 = a /\ ~IsChange(script[i])
    BY <1>1, <2>1
  <2>3. f[i] = f[i - 1] + 1 /\ g[i] = g[i - 1] + 1
    BY <1>5, <2>2
  <2> QED BY <2>1, <2>2, <2>3
<1>8. PICK olds, news : olds = OldNumbers(script, range) /\ news = NewNumbers(script, range)
  OBVIOUS
<1>9. olds = LinesOn(hf, a, b) /\ news = LinesOn(hg, a, b)
  <2>1. \A i \in a .. b : i + 1 \in 1 .. k
    BY <1>2
  <2>2. \A i \in a .. b : hf[i + 1] = script[i + 1].oldIndex + 1 /\ hg[i + 1] = script[i + 1].newIndex + 1
    BY <2>1
  <2> HIDE DEF hf, hg
  <2>3. {script[i + 1].oldIndex + 1 : i \in a .. b} = {hf[i + 1] : i \in a .. b}
    BY <2>2
  <2>4. {script[i + 1].newIndex + 1 : i \in a .. b} = {hg[i + 1] : i \in a .. b}
    BY <2>2
  <2> QED BY <1>1, <1>8, <2>3, <2>4 DEF OldNumbers, NewNumbers, LinesOn
<1> HIDE DEF hf, hg
<1>10. First(olds) \in Nat /\ Cardinality(olds) \in Nat /\ StartIsRight(First(olds), Cardinality(olds), f[a])
  <2>1. Numbers(f, hf, k) /\ f[0] = 0 /\ (a = 0 \/ f[a + 1] = f[a] + 1)
    BY <1>6, <1>7
  <2>2. olds = LinesOn(hf, a, b) /\ a \in 0 .. k - 1 /\ b \in 0 .. k - 1 /\ a <= b
    BY <1>2, <1>9
  <2> QED BY <2>1, <2>2, StandsRight
<1>11. First(news) \in Nat /\ Cardinality(news) \in Nat /\ StartIsRight(First(news), Cardinality(news), g[a])
  <2>1. Numbers(g, hg, k) /\ g[0] = 0 /\ (a = 0 \/ g[a + 1] = g[a] + 1)
    BY <1>6, <1>7
  <2>2. news = LinesOn(hg, a, b) /\ a \in 0 .. k - 1 /\ b \in 0 .. k - 1 /\ a <= b
    BY <1>2, <1>9
  <2> QED BY <2>1, <2>2, StandsRight
<1>12. hunk = [start |-> a, end |-> b, oldStart |-> First(olds), oldLines |-> Cardinality(olds),
               newStart |-> First(news), newLines |-> Cardinality(news)]
  BY <1>1, <1>8 DEF HunkOf
<1>13. Passed(a, "insert") = f[a] /\ Passed(a, "delete") = g[a]
  BY <1>1, <1>2, PassedIs
<1>14. hunk \in Hunk
  BY <1>10, <1>11, <1>12 DEF Hunk
<1> QED BY <1>1, <1>10, <1>11, <1>12, <1>13, <1>14

\* The hunks of a script, one by one.
LEMMA HunksAre ==
  ASSUME DiffInv, diffAt = "done"
  PROVE  \E ranges :
           /\ RangesRight(script, Len(script), ranges)
           /\ hunks \in Seq(Hunk) /\ Len(hunks) = Len(ranges)
           /\ \A i \in 1 .. Len(ranges) :
                /\ hunks[i].start = ranges[i].start /\ hunks[i].end = ranges[i].end
                /\ StartIsRight(hunks[i].oldStart, hunks[i].oldLines, Passed(hunks[i].start, "insert"))
                /\ StartIsRight(hunks[i].newStart, hunks[i].newLines, Passed(hunks[i].start, "delete"))
<1>1. KindsInv /\ DoneInv /\ script \in Seq(LineEdit) /\ context \in Nat \ {0} /\ Len(script) \in Nat
  BY DEF DiffInv, KindsInv
<1>2. PICK ranges : ranges = Ranges(script)
  OBVIOUS
<1>3. RangesRight(script, Len(script), ranges)
  BY <1>1, <1>2, RangesAreRight
<1>4. PICK f, g : Walks(script, f, g) /\ f[0] = 0 /\ g[0] = 0
  BY <1>1 DEF DoneInv, IsWalk
<1>5. ranges \in Seq(EditRange) /\ DOMAIN ranges = 1 .. Len(ranges) /\ Len(ranges) \in Nat
  BY <1>3 DEF RangesRight
<1>6. hunks = [i \in 1 .. Len(ranges) |-> HunkOf(script, ranges[i])]
  BY <1>1, <1>2, <1>5 DEF DoneInv
<1>7. ASSUME NEW i \in 1 .. Len(ranges)
      PROVE  /\ hunks[i] \in Hunk
             /\ hunks[i].start = ranges[i].start /\ hunks[i].end = ranges[i].end
             /\ StartIsRight(hunks[i].oldStart, hunks[i].oldLines, Passed(hunks[i].start, "insert"))
             /\ StartIsRight(hunks[i].newStart, hunks[i].newLines, Passed(hunks[i].start, "delete"))
  <2>1. PICK range \in EditRange : range = ranges[i]
    BY <1>5
  <2>2. /\ range.start <= range.end /\ range.end <= Len(script) - 1
        /\ range.start = 0 \/ ~IsChange(script[range.start + 1])
    BY <1>3, <2>1 DEF RangesRight
  <2>3. PICK hunk : hunk = HunkOf(script, range)
    OBVIOUS
  <2>4. hunks[i] = hunk
    BY <1>6, <2>1, <2>3
  <2> QED BY <1>1, <1>4, <2>1, <2>2, <2>3, <2>4, HunkIsRight
<1>8. hunks \in Seq(Hunk) /\ Len(hunks) = Len(ranges)
  <2>1. hunks \in [1 .. Len(ranges) -> Hunk]
    BY <1>6, <1>7
  <2> QED BY <1>5, <2>1, FunctionIsSequence
<1> QED BY <1>3, <1>7, <1>8

LEMMA HunksRight ==
  ASSUME DiffInv, diffAt = "done"
  PROVE  HunksAreRight
<1>1. PICK ranges :
        /\ RangesRight(script, Len(script), ranges)
        /\ hunks \in Seq(Hunk) /\ Len(hunks) = Len(ranges)
        /\ \A i \in 1 .. Len(ranges) :
             /\ hunks[i].start = ranges[i].start /\ hunks[i].end = ranges[i].end
             /\ StartIsRight(hunks[i].oldStart, hunks[i].oldLines, Passed(hunks[i].start, "insert"))
             /\ StartIsRight(hunks[i].newStart, hunks[i].newLines, Passed(hunks[i].start, "delete"))
  BY HunksAre
<1>2. script \in Seq(LineEdit) /\ DOMAIN script = 1 .. Len(script) /\ Len(ranges) \in Nat
  BY <1>1 DEF DiffInv, KindsInv, RangesRight
<1>3. DOMAIN hunks = 1 .. Len(ranges)
  BY <1>1
<1>4. ASSUME NEW i \in DOMAIN script, IsChange(script[i])
      PROVE  \E h \in Range(hunks) :
               h.start <= Max({0, i - 1 - context}) /\ Min({Len(script) - 1, i - 1 + context}) <= h.end
  <2>1. PICK j \in 1 .. Len(ranges) :
          ranges[j].start <= Max({0, i - 1 - context}) /\ Min({Len(script) - 1, i - 1 + context}) <= ranges[j].end
    BY <1>1, <1>2, <1>4 DEF RangesRight
  <2>2. hunks[j] \in Range(hunks)
    BY <1>3 DEF Range
  <2> QED BY <1>1, <2>1, <2>2
<1>5. ASSUME NEW i \in 1 .. Len(hunks) - 1
      PROVE  hunks[i].end + 1 < hunks[i + 1].start
  <2>1. i \in 1 .. Len(ranges) /\ i + 1 \in 1 .. Len(ranges) /\ i \in 1 .. Len(ranges) - 1
    BY <1>1, <1>2
  <2>2. ranges[i].end + 1 < ranges[i + 1].start
    BY <1>1, <2>1 DEF RangesRight
  <2> QED BY <1>1, <2>1, <2>2
<1>6. ASSUME NEW h \in Range(hunks)
      PROVE  /\ StartIsRight(h.oldStart, h.oldLines, Passed(h.start, "insert"))
             /\ StartIsRight(h.newStart, h.newLines, Passed(h.start, "delete"))
  <2>1. PICK i \in 1 .. Len(ranges) : h = hunks[i]
    BY <1>3 DEF Range
  <2> QED BY <1>1, <2>1
<1> QED BY <1>4, <1>5, <1>6 DEF HunksAreRight

-----------------------------------------------------------------------------
(***************************************************************************)
(* The theorems.                                                           *)
(***************************************************************************)
LEMMA NextIsRight ==
  DiffInv /\ [DiffNext]_diffVars => DiffInv'
<1> SUFFICES ASSUME DiffInv, [DiffNext]_diffVars PROVE DiffInv'
  OBVIOUS
<1>1. CASE Trims
  BY <1>1, TrimsStep
<1>2. CASE Searches
  BY <1>2, SearchesStep
<1>3. CASE Backtracks
  BY <1>3, BacktracksStep
<1>4. CASE Groups
  BY <1>4, GroupsStep
<1>5. CASE UNCHANGED diffVars
  <2>1. /\ oldLines' = oldLines /\ newLines' = newLines /\ context' = context /\ prefix' = prefix
        /\ suffix' = suffix /\ frontier' = frontier /\ trace' = trace /\ back' = back
        /\ script' = script /\ hunks' = hunks /\ diffAt' = diffAt
    BY <1>5 DEF diffVars
  <2>2. UNCHANGED <<oldLines, newLines, prefix, suffix>>
    BY <2>1
  <2>3. /\ n' = n /\ m' = m /\ Grid' = Grid /\ MaxDistance' = MaxDistance /\ (FilesOK <=> FilesOK')
        /\ \A a, b : Common(a, b)' = Common(a, b)
        /\ \A u, v, d : Turn(u, v, d) <=> Turn(u, v, d)'
        /\ \A v, d : Good(v, d) <=> Good(v, d)'
        /\ \A v, d : NotDone(v, d) <=> NotDone(v, d)'
        /\ \A s, x, y, x1, y1 : IsWalk(s, x, y, x1, y1) <=> IsWalk(s, x, y, x1, y1)'
    BY <2>2, SameFiles
  <2>4. \A s : Ranges(s)' = Ranges(s)
    BY <2>1, SameContext
  <2>5. \A d : Reach(d)' = Reach(d)
    BY <2>1 DEF Reach
  <2>6. KindsInv' /\ TrimInv' /\ EmptyInv' /\ Converges'
    BY <2>1, <2>3 DEF DiffInv, KindsInv, TrimInv, EmptyInv, Converges
  <2>7. SearchInv'
    BY <2>1, <2>3, <2>5 DEF DiffInv, SearchInv
  <2>8. BackInv'
    BY <2>1, <2>3, <2>5 DEF DiffInv, BackInv
  <2>9. GroupInv'
    BY <2>1, <2>3 DEF DiffInv, GroupInv
  <2>10. DoneInv'
    BY <2>1, <2>3, <2>4 DEF DiffInv, DoneInv
  <2> QED BY <2>6, <2>7, <2>8, <2>9, <2>10 DEF DiffInv
<1> QED BY <1>1, <1>2, <1>3, <1>4, <1>5 DEF DiffNext

LEMMA AlwaysRight == DiffSpec => []DiffInv
BY InitIsRight, NextIsRight, PTL DEF DiffSpec

\* Whatever the files and the context, diffLines and buildHunks give a shortest edit
\* script, and hunks that hold its changes with their context, at their line numbers.
THEOREM DiffsAreRight == DiffSpec => []DiffIsRight
<1>1. DiffInv => DiffIsRight
  BY ShortestIs, HunksRight DEF DiffIsRight
<1> QED BY <1>1, AlwaysRight, PTL

\* The loop over d of recordTrace ends before its bound is passed: what it throws after
\* the loop is unreachable.
THEOREM SearchConverges == DiffSpec => []Converges
<1>1. DiffInv => Converges
  BY DEF DiffInv
<1> QED BY <1>1, AlwaysRight, PTL

\* The types are kept.
THEOREM DiffsAreTyped == DiffSpec => []DiffTypeOK
<1>1. DiffInv => DiffTypeOK
  <2> SUFFICES ASSUME DiffInv PROVE DiffTypeOK
    OBVIOUS
  <2>1. KindsInv /\ TrimInv
    BY DEF DiffInv
  <2>2. hunks \in Seq(Hunk)
    <3>1. CASE diffAt = "done"
      BY <3>1, HunksAre
    <3>2. CASE diffAt # "done"
      BY <2>1, <3>2 DEF TrimInv
    <3> QED BY <3>1, <3>2
  <2> QED BY <2>1, <2>2 DEF DiffTypeOK, KindsInv
<1> QED BY <1>1, AlwaysRight, PTL
=============================================================================
