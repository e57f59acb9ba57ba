---------------------------- MODULE MemoryProofs ----------------------------
(***************************************************************************)
(* Theorems about physical memory and address spaces, for any processes,   *)
(* any amount of memory, any geometry of the page tables and any programs: *)
(* every page has one owner, an image is what its size says, and the       *)
(* kernel panics only over an address space that a failed allocation left  *)
(* incomplete.  First what the operators on page directories do to the     *)
(* pages they hold, then the steps that take a slot of the process table   *)
(* and build an address space, then the ends of sbrk(), exec(), fork(),    *)
(* exit() and wait().                                                      *)
(***************************************************************************)
EXTENDS Memory, TLAPS

(* Every set of numbers that is not empty has a least member. *)
Least == \A S \in SUBSET Nat : S # {} => \E n \in S : \A m \in S : n <= m

-----------------------------------------------------------------------------
(* What the loop of deallocuvm() visits, for the pages "has" that have a   *)
(* page table, tables of N pages, and up to page T of K pages.             *)

Visit(f, has, N, T, n) == IF n >= T THEN {} ELSE IF n \notin has THEN f[n + N] ELSE {n} \cup f[n + 1]

IsVisit(f, has, N, T, n, m) == f = [i \in n .. m |-> Visit(f, has, N, T, i)]

LEMMA VisitLast ==
  ASSUME NEW K \in Nat \ {0}, NEW N \in 1 .. K, NEW T \in 0 .. K, NEW has
  PROVE  \E f : IsVisit(f, has, N, T, 2 * K, 2 * K)
<1>. DEFINE f == [i \in 2 * K .. 2 * K |-> {}]
<1>1. \A i \in 2 * K .. 2 * K : Visit(f, has, N, T, i) = {}
  BY DEF Visit
<1>2. f = [i \in 2 * K .. 2 * K |-> Visit(f, has, N, T, i)]
  BY <1>1
<1> QED BY <1>2, Zenon DEF IsVisit

LEMMA VisitMore ==
  ASSUME NEW K \in Nat \ {0}, NEW N \in 1 .. K, NEW T \in 0 .. K, NEW has,
         NEW n \in 0 .. 2 * K - 1, NEW f, IsVisit(f, has, N, T, n + 1, 2 * K)
  PROVE  \E g : IsVisit(g, has, N, T, n, 2 * K)
<1>. DEFINE g == [i \in n .. 2 * K |-> IF i = n THEN Visit(f, has, N, T, n) ELSE f[i]]
<1>1. \A i \in n + 1 .. 2 * K : f[i] = Visit(f, has, N, T, i)
  BY Zenon DEF IsVisit
<1>2. \A i \in n + 1 .. 2 * K : g[i] = f[i]
  OBVIOUS
<1>3. ASSUME NEW i \in n .. 2 * K PROVE Visit(g, has, N, T, i) = Visit(f, has, N, T, i)
  <2>1. CASE i >= T
    BY <2>1, Zenon DEF Visit
  <2>2. CASE ~(i >= T)
    <3>1. i + N \in n + 1 .. 2 * K /\ i + 1 \in n + 1 .. 2 * K
      BY <2>2
    <3>2. g[i + N] = f[i + N] /\ g[i + 1] = f[i + 1]
      BY <3>1, <1>2, Zenon
    <3> QED BY <3>2, Zenon DEF Visit
  <2> QED BY <2>1, <2>2, Zenon
<1>4. ASSUME NEW i \in n .. 2 * K PROVE g[i] = Visit(g, has, N, T, i)
  <2>1. CASE i = n
    BY <2>1, <1>3
  <2>2. CASE i # n
    <3>1. i \in n + 1 .. 2 * K
      BY <2>2
    <3> QED BY <3>1, <1>1, <1>2, <1>3, Zenon
  <2> QED BY <2>1, <2>2, Zenon
<1>5. g = [i \in n .. 2 * K |-> g[i]]
  OBVIOUS
<1>. HIDE DEF g
<1>6. g = [i \in n .. 2 * K |-> Visit(g, has, N, T, i)]
  BY <1>4, <1>5, Zenon
<1> QED BY <1>6, Zenon DEF IsVisit

LEMMA VisitExists ==
  ASSUME Least, NEW K \in Nat \ {0}, NEW N \in 1 .. K, NEW T \in 0 .. K, NEW has
  PROVE  \E f : IsVisit(f, has, N, T, 0, 2 * K)
<1>. DEFINE Good(k) == \E f : IsVisit(f, has, N, T, 2 * K - k, 2 * K)
            Bad1 == {k \in 0 .. 2 * K : ~Good(k)}
<1>1. SUFFICES Bad1 = {}
  <2>1. 2 * K \in 0 .. 2 * K /\ 2 * K - 2 * K = 0
    OBVIOUS
  <2>2. Good(2 * K)
    BY <1>1, <2>1, Zenon
  <2> QED BY <2>1, <2>2, Zenon
<1>2. SUFFICES ASSUME Bad1 # {} PROVE FALSE
  OBVIOUS
<1>3. Bad1 \in SUBSET Nat
  OBVIOUS
<1>4. PICK k \in Bad1 : \A j \in Bad1 : k <= j
  BY <1>2, <1>3, Zenon DEF Least
<1>5. k \in 0 .. 2 * K /\ ~Good(k)
  BY Zenon
<1>6. CASE k = 0
  <2>1. 2 * K - k = 2 * K
    BY <1>6
  <2> QED BY <1>5, <2>1, VisitLast, Zenon
<1>7. CASE k # 0
  <2>1. k - 1 \in 0 .. 2 * K /\ ~(k <= k - 1)
    BY <1>5, <1>7
  <2>2. Good(k - 1)
    BY <2>1, <1>4, Zenon
  <2>3. 2 * K - k \in 0 .. 2 * K - 1 /\ 2 * K - (k - 1) = (2 * K - k) + 1
    BY <1>5, <1>7
  <2>4. \E f : IsVisit(f, has, N, T, (2 * K - k) + 1, 2 * K)
    BY <2>2, <2>3, Zenon
  <2>5. Good(k)
    BY <2>3, <2>4, VisitMore, Zenon
  <2> QED BY <1>5, <2>5, Zenon
<1> QED BY <1>6, <1>7, Zenon

(* A page that is visited has a table and is in the range. *)
LEMMA VisitSound ==
  ASSUME Least, NEW K \in Nat \ {0}, NEW N \in 1 .. K, NEW T \in 0 .. K, NEW has,
         NEW f, IsVisit(f, has, N, T, 0, 2 * K), NEW n \in 0 .. 2 * K
  PROVE  \A m \in f[n] : m \in has /\ m \in n .. T - 1
<1>. DEFINE Good(i) == \A m \in f[i] : m \in has /\ m \in i .. T - 1
            Wrong == {k \in 0 .. 2 * K : ~Good(2 * K - k)}
<1>1. SUFFICES Wrong = {}
  <2>1. 2 * K - n \in 0 .. 2 * K /\ 2 * K - (2 * K - n) = n
    OBVIOUS
  <2> QED BY <1>1, <2>1, Zenon
<1>2. SUFFICES ASSUME Wrong # {} PROVE FALSE
  OBVIOUS
<1>3. Wrong \in SUBSET Nat
  OBVIOUS
<1>4. PICK k \in Wrong : \A j \in Wrong : k <= j
  BY <1>2, <1>3, Zenon DEF Least
<1>5. PICK i \in 0 .. 2 * K : i = 2 * K - k /\ k = 2 * K - i
  <2>1. k \in 0 .. 2 * K
    BY Zenon
  <2>2. 2 * K - k \in 0 .. 2 * K /\ k = 2 * K - (2 * K - k)
    BY <2>1
  <2> QED BY <2>2, Zenon
<1>6. ~Good(i)
  BY <1>4, <1>5, Zenon
<1>7. ASSUME NEW j \in i + 1 .. 2 * K PROVE Good(j)
  <2>1. 2 * K - j \in 0 .. 2 * K /\ ~(k <= 2 * K - j) /\ 2 * K - (2 * K - j) = j
    BY <1>5
  <2>2. 2 * K - j \notin Wrong
    BY <2>1, <1>4, Zenon
  <2> QED BY <2>1, <2>2, Zenon
<1>8. f[i] = Visit(f, has, N, T, i)
  BY Zenon DEF IsVisit
<1>9. CASE i >= T
  BY <1>6, <1>8, <1>9, Zenon DEF Visit
<1>10. CASE ~(i >= T)
  <2>1. i + N \in i + 1 .. 2 * K /\ i + 1 \in i + 1 .. 2 * K
    BY <1>10
  <2>2. Good(i + N) /\ Good(i + 1)
    BY <1>7, <2>1, Zenon
  <2>3. \A m : m \in i + N .. T - 1 \/ m \in i + 1 .. T - 1 => m \in i .. T - 1
    OBVIOUS
  <2>4. i \in i .. T - 1
    BY <1>10
  <2>5. CASE i \notin has
    <3>1. f[i] = f[i + N]
      BY <1>8, <1>10, <2>5, Zenon DEF Visit
    <3> QED BY <1>6, <2>2, <2>3, <3>1, Zenon
  <2>6. CASE i \in has
    <3>1. f[i] = {i} \cup f[i + 1]
      BY <1>8, <1>10, <2>6, Zenon DEF Visit
    <3> QED BY <1>6, <2>2, <2>3, <2>4, <2>6, <3>1, Zenon
  <2> QED BY <2>5, <2>6, Zenon
<1> QED BY <1>9, <1>10, Zenon

(* "al" is where tables start: a table has all of its pages or none.       *)
Aligned(has, al, N, T) ==
  /\ \A i \in 0 .. T - 1 : i \in al => i + N \in al
  /\ \A i \in 0 .. T - 1 : i \in al /\ i \notin has => \A m \in i .. i + N - 1 : m \notin has
  /\ \A i \in 0 .. T - 1 : i \in has => i + 1 \in has \/ i + 1 \in al

(* From the start of a table, or from a page with one, all pages with a    *)
(* table are visited.                                                      *)
LEMMA VisitComplete ==
  ASSUME Least, NEW K \in Nat \ {0}, NEW N \in 1 .. K, NEW T \in 0 .. K, NEW has, NEW al,
         NEW f, IsVisit(f, has, N, T, 0, 2 * K), NEW n \in 0 .. 2 * K, n \in has \/ n \in al,
         Aligned(has, al, N, T)
  PROVE  \A m \in n .. T - 1 : m \in has => m \in f[n]
<1>. DEFINE Good(i) == i \in has \/ i \in al => \A m \in i .. T - 1 : m \in has => m \in f[i]
            Wrong == {k \in 0 .. 2 * K : ~Good(2 * K - k)}
<1>1. SUFFICES Wrong = {}
  <2>1. 2 * K - n \in 0 .. 2 * K /\ 2 * K - (2 * K - n) = n
    OBVIOUS
  <2>2. Good(n)
    BY <1>1, <2>1, Zenon
  <2> QED BY <2>2, Zenon
<1>2. SUFFICES ASSUME Wrong # {} PROVE FALSE
  OBVIOUS
<1>3. Wrong \in SUBSET Nat
  OBVIOUS
<1>4. PICK k \in Wrong : \A j \in Wrong : k <= j
  BY <1>2, <1>3, Zenon DEF Least
<1>5. PICK i \in 0 .. 2 * K : i = 2 * K - k /\ k = 2 * K - i
  <2>1. k \in 0 .. 2 * K
    BY Zenon
  <2>2. 2 * K - k \in 0 .. 2 * K /\ k = 2 * K - (2 * K - k)
    BY <2>1
  <2> QED BY <2>2, Zenon
<1>6. ~Good(i)
  BY <1>4, <1>5, Zenon
<1>7. ASSUME NEW j \in i + 1 .. 2 * K PROVE Good(j)
  <2>1. 2 * K - j \in 0 .. 2 * K /\ ~(k <= 2 * K - j) /\ 2 * K - (2 * K - j) = j
    BY <1>5
  <2>2. 2 * K - j \notin Wrong
    BY <2>1, <1>4, Zenon
  <2> QED BY <2>1, <2>2, Zenon
<1>8. f[i] = Visit(f, has, N, T, i)
  BY Zenon DEF IsVisit
<1>9. PICK m \in i .. T - 1 : m \in has /\ m \notin f[i]
  BY <1>6, Zenon
<1>10. ~(i >= T) /\ i \in 0 .. T - 1
  OBVIOUS
<1>11. i \in has \/ i \in al
  BY <1>6, Zenon
<1>12. i + N \in i + 1 .. 2 * K /\ i + 1 \in i + 1 .. 2 * K
  BY <1>10
<1>13. Good(i + N) /\ Good(i + 1)
  BY <1>7, <1>12, Zenon
<1>14. CASE i \notin has
  <2>1. f[i] = f[i + N]
    BY <1>8, <1>10, <1>14, Zenon DEF Visit
  <2>2. i \in al /\ i + N \in al
    BY <1>10, <1>11, <1>14, Zenon DEF Aligned
  <2>3. m \notin i .. i + N - 1
    BY <1>9, <1>10, <1>14, <2>2, Zenon DEF Aligned
  <2>4. m \in i + N .. T - 1
    BY <2>3
  <2> QED BY <1>9, <1>13, <2>1, <2>2, <2>4, Zenon
<1>15. CASE i \in has
  <2>1. f[i] = {i} \cup f[i + 1]
    BY <1>8, <1>10, <1>15, Zenon DEF Visit
  <2>2. i + 1 \in has \/ i + 1 \in al
    BY <1>10, <1>15, Zenon DEF Aligned
  <2>3. m # i
    BY <1>9, <2>1, Zenon
  <2>4. m \in i + 1 .. T - 1
    BY <2>3
  <2> QED BY <1>9, <1>13, <2>1, <2>2, <2>4, Zenon
<1> QED BY <1>14, <1>15, Zenon

-----------------------------------------------------------------------------
(* Sizes, pages and tables *)

LEMMA Geometry ==
  /\ PGSIZE \in Nat \ {0} /\ NPTENTRIES \in Nat \ {0} /\ NPD \in Nat \ {0}
  /\ NUPAGES \in Nat \ {0} /\ NPTENTRIES \in 1 .. NUPAGES
<1>1. PGSIZE \in Nat \ {0} /\ NPTENTRIES \in Nat \ {0} /\ NPD \in Nat \ {0}
  BY MemoryAssumption, Zenon
<1>2. NPD * NPTENTRIES >= NPTENTRIES /\ NPD * NPTENTRIES \in Nat
  BY <1>1
<1> QED BY <1>1, <1>2 DEF NUPAGES

LEMMA Division ==
  ASSUME NEW m \in Nat \ {0}, NEW n \in Nat
  PROVE  n \div m \in Nat /\ m * (n \div m) <= n /\ n < m * (n \div m) + m
<1>1. n \div m \in Int
  BY SMT
<1>2. n = m * (n \div m) + (n % m) /\ n % m \in 0 .. m - 1
  BY SMT
<1>3. m * (n \div m) <= n /\ n < m * (n \div m) + m
  BY <1>1, <1>2
<1>4. n \div m >= 0
  <2>1. CASE n \div m <= -1
    <3>1. m * (n \div m) <= -m
      BY <1>1, <2>1
    <3> QED BY <1>1, <1>3, <3>1
  <2> QED BY <1>1, <2>1
<1> QED BY <1>1, <1>3, <1>4

LEMMA DivisionIs ==
  ASSUME NEW m \in Nat \ {0}, NEW n \in Nat, NEW d \in Int, m * d <= n, n < m * d + m
  PROVE  n \div m = d
<1>. DEFINE e == n \div m
<1>1. e \in Nat /\ m * e <= n /\ n < m * e + m
  BY Division, Zenon
<1>. HIDE DEF e
<1>2. m * (e - d) < m /\ m * (d - e) < m
  BY <1>1
<1>3. CASE e - d >= 1
  <2>1. m * (e - d) >= m
    BY <1>1, <1>3
  <2> QED BY <1>1, <1>2, <2>1
<1>4. CASE d - e >= 1
  <2>1. m * (d - e) >= m
    BY <1>1, <1>4
  <2> QED BY <1>1, <1>2, <2>1
<1>5. e = d
  BY <1>1, <1>3, <1>4
<1> QED BY <1>5 DEF e

(* The number of pages that a size needs. *)
LEMMA PagesAre ==
  ASSUME NEW n \in Nat
  PROVE  /\ Pages(n) \in Nat /\ PGROUNDUP(n) = PGSIZE * Pages(n)
         /\ n <= PGSIZE * Pages(n) /\ PGSIZE * Pages(n) < n + PGSIZE
<1>. DEFINE d == (n + PGSIZE - 1) \div PGSIZE
<1>1. PGSIZE \in Nat \ {0} /\ n + PGSIZE - 1 \in Nat
  BY Geometry
<1>2. d \in Nat /\ PGSIZE * d <= n + PGSIZE - 1 /\ n + PGSIZE - 1 < PGSIZE * d + PGSIZE
  BY <1>1, Division, Zenon
<1>. HIDE DEF d
<1>3. PGROUNDUP(n) = d * PGSIZE /\ d * PGSIZE = PGSIZE * d /\ PGSIZE * d \in Nat
  BY <1>1, <1>2 DEF PGROUNDUP, d
<1>4. Pages(n) = (PGSIZE * d) \div PGSIZE
  BY <1>3, Zenon DEF Pages
<1>5. PGSIZE * d <= PGSIZE * d /\ PGSIZE * d < PGSIZE * d + PGSIZE
  BY <1>1, <1>2
<1>6. Pages(n) = d
  BY <1>1, <1>2, <1>3, <1>4, <1>5, DivisionIs
<1> QED BY <1>1, <1>2, <1>3, <1>6

LEMMA Factor ==
  ASSUME NEW m \in Nat \ {0}, NEW c \in Int, NEW d \in Int, m * c < m * d + m
  PROVE  c <= d
<1>1. m * (c - d) < m
  OBVIOUS
<1>2. CASE c - d >= 1
  <2>1. m * (c - d) >= m
    BY <1>2
  <2> QED BY <1>1, <2>1
<1> QED BY <1>2

LEMMA PagesMonotone ==
  ASSUME NEW n \in Nat, NEW m \in Nat, n <= m
  PROVE  Pages(n) <= Pages(m)
<1>1. /\ Pages(n) \in Nat /\ PGSIZE * Pages(n) < n + PGSIZE
      /\ Pages(m) \in Nat /\ m <= PGSIZE * Pages(m)
  BY PagesAre, Zenon
<1>2. PGSIZE \in Nat \ {0}
  BY Geometry, Zenon
<1>3. PGSIZE * Pages(n) < PGSIZE * Pages(m) + PGSIZE
  BY <1>1, <1>2
<1> QED BY <1>1, <1>2, <1>3, Factor

LEMMA PagesOfMultiple ==
  ASSUME NEW d \in Nat
  PROVE  PGSIZE * d \in Nat /\ Pages(PGSIZE * d) = d
<1>1. PGSIZE \in Nat \ {0} /\ PGSIZE * d \in Nat
  BY Geometry
<1>2. /\ Pages(PGSIZE * d) \in Nat /\ PGSIZE * d <= PGSIZE * Pages(PGSIZE * d)
      /\ PGSIZE * Pages(PGSIZE * d) < PGSIZE * d + PGSIZE
  BY <1>1, PagesAre, Zenon
<1>3. Pages(PGSIZE * d) <= d
  BY <1>1, <1>2, Factor
<1>4. PGSIZE * d < PGSIZE * Pages(PGSIZE * d) + PGSIZE
  BY <1>1, <1>2
<1>5. d <= Pages(PGSIZE * d)
  BY <1>1, <1>2, <1>4, Factor
<1> QED BY <1>1, <1>2, <1>3, <1>5

LEMMA PagesBounds ==
  /\ Pages(0) = 0 /\ KERNBASE \in Nat /\ Pages(KERNBASE) = NUPAGES
  /\ \A n \in 0 .. KERNBASE : Pages(n) \in 0 .. NUPAGES
<1>1. PGSIZE \in Nat \ {0} /\ NUPAGES \in Nat
  BY Geometry
<1>2. PGSIZE * 0 = 0 /\ KERNBASE = PGSIZE * NUPAGES
  BY <1>1 DEF KERNBASE
<1>3. Pages(0) = 0
  <2>1. Pages(PGSIZE * 0) = 0
    BY PagesOfMultiple
  <2> QED BY <1>2, <2>1, Zenon
<1>4. KERNBASE \in Nat /\ Pages(KERNBASE) = NUPAGES
  BY <1>1, <1>2, PagesOfMultiple, Zenon
<1>5. ASSUME NEW n \in 0 .. KERNBASE PROVE Pages(n) \in 0 .. NUPAGES
  <2>1. n \in Nat /\ n <= KERNBASE
    BY <1>4
  <2>2. Pages(n) <= Pages(KERNBASE) /\ Pages(n) \in Nat
    BY <2>1, <1>4, PagesMonotone, PagesAre, Zenon
  <2> QED BY <1>1, <1>4, <2>2
<1> QED BY <1>3, <1>4, <1>5, Zenon

(* The next page, below the end of an image or above its start. *)
LEMMA NextPage ==
  ASSUME NEW n \in Nat, NEW x \in 0 .. KERNBASE
  PROVE  /\ x \in Nat /\ Pages(x) \in Nat
         /\ n < Pages(x) => n + 1 <= Pages(x) /\ n \in Vpn
         /\ Pages(x) <= n => Pages(x) <= n + 1
<1>1. KERNBASE \in Nat /\ NUPAGES \in Nat /\ Pages(x) \in 0 .. NUPAGES
  BY PagesBounds, Geometry, Zenon
<1> QED BY <1>1 DEF Vpn

LEMMA TableOf ==
  ASSUME NEW n \in Vpn
  PROVE  PDX(n) \in 0 .. NPD - 1
<1>1. NPTENTRIES \in Nat \ {0} /\ NPD \in Nat \ {0} /\ n \in Nat /\ n < NPD * NPTENTRIES
  BY Geometry DEF Vpn, NUPAGES
<1>2. PDX(n) \in Nat /\ NPTENTRIES * PDX(n) <= n
  BY <1>1, Division, Zenon DEF PDX
<1>3. NPTENTRIES * PDX(n) < NPTENTRIES * (NPD - 1) + NPTENTRIES
  BY <1>1, <1>2
<1>4. PDX(n) <= NPD - 1
  BY <1>1, <1>2, <1>3, Factor
<1> QED BY <1>1, <1>2, <1>4

(* Where tables start, and the pages that have one. *)
Starts == {n \in Nat : n % NPTENTRIES = 0}
WithTable(pg) == {n \in Vpn : HasTable(pg, n)}

LEMMA StartsAre ==
  ASSUME NEW n \in Starts
  PROVE  /\ n + NPTENTRIES \in Starts
         /\ \A m \in n .. n + NPTENTRIES - 1 : PDX(m) = PDX(n)
<1>1. NPTENTRIES \in Nat \ {0} /\ n \in Nat /\ n % NPTENTRIES = 0
  BY Geometry, Zenon DEF Starts
<1>2. PICK d \in Int : n = NPTENTRIES * d
  BY <1>1
<1>3. ASSUME NEW m \in n .. n + NPTENTRIES - 1 PROVE PDX(m) = d
  <2>1. m \in Nat /\ NPTENTRIES * d <= m /\ m < NPTENTRIES * d + NPTENTRIES
    BY <1>1, <1>2
  <2> QED BY <1>1, <2>1, DivisionIs, Zenon DEF PDX
<1>4. n \in n .. n + NPTENTRIES - 1
  BY <1>1
<1>5. (n + NPTENTRIES) % NPTENTRIES = 0
  BY <1>1
<1> QED BY <1>1, <1>3, <1>4, <1>5 DEF Starts

LEMMA Multiple ==
  ASSUME NEW m \in Nat \ {0}, NEW k \in Nat
  PROVE  (m * k) % m = 0
OBVIOUS

LEMMA NextTable ==
  ASSUME NEW n \in Nat
  PROVE  n + 1 \in Starts \/ PDX(n + 1) = PDX(n)
<1>1. NPTENTRIES \in Nat \ {0}
  BY Geometry, Zenon
<1>2. PDX(n) \in Nat /\ NPTENTRIES * PDX(n) <= n /\ n < NPTENTRIES * PDX(n) + NPTENTRIES
  BY <1>1, Division, Zenon DEF PDX
<1>3. CASE n + 1 < NPTENTRIES * PDX(n) + NPTENTRIES
  <2>1. n + 1 \in Nat /\ NPTENTRIES * PDX(n) <= n + 1 /\ PDX(n) \in Int
    BY <1>1, <1>2
  <2> QED BY <1>1, <1>2, <1>3, <2>1, DivisionIs, Zenon DEF PDX
<1>4. CASE ~(n + 1 < NPTENTRIES * PDX(n) + NPTENTRIES)
  <2>1. n + 1 = NPTENTRIES * (PDX(n) + 1)
    BY <1>1, <1>2, <1>4
  <2>2. (n + 1) % NPTENTRIES = 0
    <3>1. PDX(n) + 1 \in Nat
      BY <1>2
    <3> QED BY <1>1, <2>1, <3>1, Multiple, Zenon
  <2> QED BY <2>2 DEF Starts
<1> QED BY <1>3, <1>4, Zenon

LEMMA VisitedIs ==
  ASSUME Least, NEW pg, NEW newsz \in 0 .. KERNBASE, NEW oldsz \in 0 .. KERNBASE
  PROVE  \E f : /\ IsVisit(f, WithTable(pg), NPTENTRIES, Pages(oldsz), 0, 2 * NUPAGES)
                /\ Visited(pg, newsz, oldsz) = f[Pages(newsz)]
<1>. DEFINE T == Pages(oldsz)
            Body(f, n) == IF n >= T THEN {}
                          ELSE IF pg.tab[PDX(n)] = None THEN f[n + NPTENTRIES]
                          ELSE {n} \cup f[n + 1]
            Is(f) == f = [n \in 0 .. 2 * NUPAGES |-> Body(f, n)]
            V == CHOOSE f : Is(f)
<1>1. NUPAGES \in Nat \ {0} /\ NPTENTRIES \in 1 .. NUPAGES
  BY Geometry, Zenon
<1>2. T \in 0 .. NUPAGES
  BY PagesBounds, Zenon
<1>3. Visited(pg, newsz, oldsz) = V[Pages(newsz)]
  BY Zenon DEF Visited
<1>. HIDE DEF T
<1>4. ASSUME NEW f, NEW n \in 0 .. 2 * NUPAGES
      PROVE  Body(f, n) = Visit(f, WithTable(pg), NPTENTRIES, T, n)
  <2>1. CASE n >= T
    BY <2>1, Zenon DEF Visit
  <2>2. CASE ~(n >= T)
    <3>1. n \in Vpn
      BY <1>1, <1>2, <2>2 DEF Vpn
    <3>2. n \in WithTable(pg) <=> pg.tab[PDX(n)] # None
      BY <3>1, Zenon DEF WithTable, HasTable
    <3> QED BY <3>2, Zenon DEF Visit
  <2> QED BY <2>1, <2>2, Zenon
<1>. HIDE DEF Body
<1>5. ASSUME NEW f PROVE Is(f) <=> IsVisit(f, WithTable(pg), NPTENTRIES, T, 0, 2 * NUPAGES)
  <2>1. \A n \in 0 .. 2 * NUPAGES : Body(f, n) = Visit(f, WithTable(pg), NPTENTRIES, T, n)
    BY <1>4, Zenon
  <2>2. [n \in 0 .. 2 * NUPAGES |-> Body(f, n)]
          = [n \in 0 .. 2 * NUPAGES |-> Visit(f, WithTable(pg), NPTENTRIES, T, n)]
    BY <2>1, Zenon
  <2> QED BY <2>2, Zenon DEF IsVisit
<1>. HIDE DEF Is
<1>6. \E f : Is(f)
  BY <1>1, <1>2, <1>5, VisitExists, Zenon
<1>7. Is(V)
  BY <1>6, Zenon
<1> QED BY <1>3, <1>5, <1>7, Zenon DEF T

(* deallocuvm() visits pages of the range that have a table ...             *)
LEMMA VisitedSound ==
  ASSUME Least, NEW pg, NEW newsz \in 0 .. KERNBASE, NEW oldsz \in 0 .. KERNBASE,
         NEW m \in Visited(pg, newsz, oldsz)
  PROVE  m \in Vpn /\ HasTable(pg, m) /\ m \in Pages(newsz) .. Pages(oldsz) - 1
<1>1. PICK f : /\ IsVisit(f, WithTable(pg), NPTENTRIES, Pages(oldsz), 0, 2 * NUPAGES)
               /\ Visited(pg, newsz, oldsz) = f[Pages(newsz)]
  BY VisitedIs, Zenon
<1>2. NUPAGES \in Nat \ {0} /\ NPTENTRIES \in 1 .. NUPAGES
  BY Geometry, Zenon
<1>3. Pages(newsz) \in 0 .. NUPAGES /\ Pages(oldsz) \in 0 .. NUPAGES
  BY PagesBounds, Zenon
<1>4. Pages(newsz) \in 0 .. 2 * NUPAGES
  BY <1>2, <1>3
<1>5. m \in WithTable(pg) /\ m \in Pages(newsz) .. Pages(oldsz) - 1
  BY <1>1, <1>2, <1>3, <1>4, VisitSound, SMT
<1> QED BY <1>5, Zenon DEF WithTable

(* ... and all of them if it starts at a page with a table, or at the       *)
(* beginning of one.                                                        *)
LEMMA VisitedAll ==
  ASSUME Least, NEW pg, NEW newsz \in 0 .. KERNBASE, NEW oldsz \in 0 .. KERNBASE,
         Pages(newsz) \in WithTable(pg) \/ Pages(newsz) \in Starts,
         NEW m \in Vpn, HasTable(pg, m), m \in Pages(newsz) .. Pages(oldsz) - 1
  PROVE  m \in Visited(pg, newsz, oldsz)
<1>1. PICK f : /\ IsVisit(f, WithTable(pg), NPTENTRIES, Pages(oldsz), 0, 2 * NUPAGES)
               /\ Visited(pg, newsz, oldsz) = f[Pages(newsz)]
  BY VisitedIs, Zenon
<1>2. NUPAGES \in Nat \ {0} /\ NPTENTRIES \in 1 .. NUPAGES
  BY Geometry, Zenon
<1>3. Pages(newsz) \in 0 .. NUPAGES /\ Pages(oldsz) \in 0 .. NUPAGES
  BY PagesBounds, Zenon
<1>4. Pages(newsz) \in 0 .. 2 * NUPAGES
  BY <1>2, <1>3
<1>. DEFINE has == WithTable(pg)
<1>5. ASSUME NEW i \in 0 .. Pages(oldsz) - 1, i \in Starts PROVE i + NPTENTRIES \in Starts
  BY <1>5, StartsAre, Zenon
<1>6. ASSUME NEW i \in 0 .. Pages(oldsz) - 1 PROVE i \in Vpn /\ i \in Nat
  BY <1>2, <1>3 DEF Vpn
<1>7. ASSUME NEW i \in 0 .. Pages(oldsz) - 1, i \in Starts, i \notin has,
             NEW k \in i .. i + NPTENTRIES - 1
      PROVE  k \notin has
  <2>1. PDX(k) = PDX(i)
    BY <1>7, StartsAre, Zenon
  <2> QED BY <1>6, <1>7, <2>1, Zenon DEF WithTable, HasTable
<1>8. ASSUME NEW i \in 0 .. Pages(oldsz) - 1, i \in has
      PROVE  i + 1 \in has \/ i + 1 \in Starts \/ i + 1 = NUPAGES
  <2>1. CASE PDX(i + 1) = PDX(i) /\ i + 1 \in Vpn
    BY <1>8, <2>1, Zenon DEF WithTable, HasTable
  <2>2. CASE i + 1 \in Starts
    BY <2>2, Zenon
  <2>3. i + 1 \in Vpn \/ i + 1 = NUPAGES
    BY <1>2, <1>3 DEF Vpn
  <2> QED BY <1>6, <2>1, <2>2, <2>3, NextTable, Zenon
<1>9. NUPAGES \in Starts
  <2>1. NPTENTRIES \in Nat \ {0} /\ NPD \in Nat
    BY Geometry
  <2>2. (NPTENTRIES * NPD) % NPTENTRIES = 0
    BY <2>1
  <2> QED BY <1>2, <2>1, <2>2 DEF Starts, NUPAGES
<1>10. \A i \in 0 .. Pages(oldsz) - 1 : i \in has => i + 1 \in has \/ i + 1 \in Starts
  BY <1>8, <1>9, Zenon
<1>11. m \in has
  BY Zenon DEF WithTable
<1>12. \A k \in Pages(newsz) .. Pages(oldsz) - 1 : k \in has => k \in f[Pages(newsz)]
  <2>. HIDE DEF has
  <2>1. IsVisit(f, has, NPTENTRIES, Pages(oldsz), 0, 2 * NUPAGES)
    BY <1>1, Zenon DEF has
  <2>2. Pages(newsz) \in has \/ Pages(newsz) \in Starts
    BY Zenon DEF has
  <2>3. \A i \in 0 .. Pages(oldsz) - 1 : i \in Starts => i + NPTENTRIES \in Starts
    BY <1>5, Zenon
  <2>4. \A i \in 0 .. Pages(oldsz) - 1 :
           i \in Starts /\ i \notin has => \A k \in i .. i + NPTENTRIES - 1 : k \notin has
    BY <1>7, Zenon
  <2>5. Aligned(has, Starts, NPTENTRIES, Pages(oldsz))
    BY <1>10, <2>3, <2>4, Zenon DEF Aligned
  <2> QED BY <1>2, <1>3, <1>4, <2>1, <2>2, <2>5, VisitComplete, Zenon
<1> QED BY <1>1, <1>11, <1>12, Zenon

-----------------------------------------------------------------------------
(* The inductive invariant *)

PgdirType == [dir : Nat, kern : Nat, tab : [0 .. NPD - 1 -> Nat], pte : [Vpn -> Nat],
              guard : SUBSET Int, torn : SUBSET Int]
Resting == {"none", "user", "fault"}
Copying == {"setupkvm", "kmap", "copyuvm"}
Loading == {"segment", "loaduvm", "stack", "allocuvm", "args"}
SegType == [vaddr : Nat, memsz : Nat, filesz : Nat]
ProcType == [st : {"UNUSED", "EMBRYO", "RUNNABLE", "ZOMBIE"}, kstack : Nat, pg : PgdirType,
             sz : 0 .. KERNBASE, pc : Resting \cup {"allocproc"} \cup Copying \cup Loading,
             new : PgdirType, a : Nat, old : 0 .. KERNBASE, hi : 0 .. KERNBASE,
             seg : SegType, call : {"none", "sbrk", "fork", "exec", "stack"},
             child : Proc \cup {None}, parent : Proc \cup {None}]

TypeOK == npage \in Nat /\ proc \in [Proc -> ProcType]

(* Every page that is mapped has a page table. *)
Tabled(pg) == \A n \in Vpn : pg.pte[n] # None => HasTable(pg, n)

(* The pages below n are mapped, but for those that mappages() failed for; *)
(* if it never failed no others are.                                       *)
Covers(pg, n) ==
  /\ \A i \in Vpn : i < n /\ i \notin pg.torn => pg.pte[i] # None
  /\ pg.torn = {} => \A i \in Vpn : pg.pte[i] # None => i < n

(* Which slots are in use, and which calls reach which part of the code. *)
Life(r) ==
  /\ r.st = "UNUSED" => r = UnusedProc
  /\ r.st = "EMBRYO" => r = [UnusedProc EXCEPT !.st = "EMBRYO", !.kstack = r.kstack]
  /\ r.st \in {"RUNNABLE", "ZOMBIE"} => r.kstack # None
  /\ r.st = "RUNNABLE" <=> r.pc # "none"
  /\ r.pc \in Resting => r.child = None /\ r.call \in {"none", "fork"}
  /\ r.pc = "allocproc" => r.child # None /\ r.call = "fork"
  /\ r.pc \in Copying => /\ r.call \in {"fork", "exec"}
                         /\ r.child # None <=> r.call = "fork"
                         /\ r.pc = "copyuvm" => r.call = "fork"
  /\ r.pc \in Loading => /\ r.child = None
                         /\ r.pc = "allocuvm" => r.call \in {"sbrk", "exec", "stack"}
                         /\ r.pc = "args" => r.call = "stack"
                         /\ r.pc \in {"segment", "loaduvm", "stack"} => r.call = "exec"

(* What loaduvm() is to fill lies below the size. *)
Fits(seg, n) == WellFormed(seg) => seg.vaddr + seg.filesz <= n

(* How far the new address space is. *)
Progress(r) ==
  /\ r.pc \in Resting \cup {"allocproc", "setupkvm"} => r.new = NoPgdir
  /\ r.pc = "kmap" => r.new.dir # None /\ r.new = [NoPgdir EXCEPT !.dir = r.new.dir]
  /\ r.pc \in Resting \cup {"allocproc", "setupkvm", "kmap"} => r.a = 0 /\ r.hi = 0
  /\ r.pc = "copyuvm" => Covers(r.new, r.a) /\ r.new.torn = {} /\ r.a <= Pages(r.sz)
  /\ r.pc = "allocuvm" => /\ Covers(r.new, r.a) /\ Pages(r.old) <= r.a /\ r.a <= Pages(r.hi)
                          /\ r.call = "sbrk" => r.old = r.sz
                          /\ r.call = "stack" => 2 <= Pages(r.hi)
                          /\ r.call = "exec" => Fits(r.seg, r.hi)
  /\ r.pc = "loaduvm" => Fits(r.seg, r.hi)
  /\ r.pc \in {"segment", "loaduvm", "stack", "args"} => Covers(r.new, Pages(r.hi))
  /\ r.pc = "args" => 2 <= Pages(r.hi)

(* A process that can run in user mode has the pages of its size. *)
Space(r) ==
  /\ Tabled(r.pg) /\ Tabled(r.new)
  /\ r.st = "RUNNABLE" /\ r.pc # "fault" => Covers(r.pg, Pages(r.sz))

ProcOK(r) == Life(r) /\ Progress(r) /\ Space(r)

(* fork() has the slot of its child to itself. *)
Children ==
  /\ \A p \in Proc : proc[p].child # None =>
        /\ proc[proc[p].child].st = "EMBRYO"
        /\ proc[proc[p].child].kstack = None <=> proc[p].pc = "allocproc"
  /\ \A p, q \in Proc : proc[p].child = proc[q].child /\ proc[p].child # None => p = q

Procs == \A p \in Proc : ProcOK(proc[p])

IInv == TypeOK /\ Procs /\ Children /\ PagesOwned

-----------------------------------------------------------------------------
(* Page directories *)

LEMMA UserPagesAre ==
  ASSUME NEW pg \in PgdirType
  PROVE  \A m : m \in UserPages(pg) <=> m # None /\ \E n \in Vpn : pg.pte[n] = m
BY Zenon DEF UserPages, Present

LEMMA TablePagesAre ==
  ASSUME NEW pg \in PgdirType
  PROVE  \A m : m \in TablePages(pg) <=>
            m # None /\ (m = pg.dir \/ m = pg.kern \/ \E t \in 0 .. NPD - 1 : pg.tab[t] = m)
<1>1. DOMAIN pg.tab = 0 .. NPD - 1
  BY DEF PgdirType
<1> QED BY <1>1, Zenon DEF TablePages

LEMMA OncePgdirIs ==
  ASSUME NEW pg \in PgdirType
  PROVE  OncePgdir(pg) <=>
           /\ \A x, y \in Vpn : pg.pte[x] = pg.pte[y] /\ pg.pte[x] # None => x = y
           /\ \A x, y \in 0 .. NPD - 1 : pg.tab[x] = pg.tab[y] /\ pg.tab[x] # None => x = y
           /\ pg.dir = pg.kern => pg.dir = None
           /\ \A t \in 0 .. NPD - 1 : pg.tab[t] = pg.dir \/ pg.tab[t] = pg.kern => pg.tab[t] = None
           /\ \A m : ~(m \in UserPages(pg) /\ m \in TablePages(pg))
<1>1. DOMAIN pg.tab = 0 .. NPD - 1 /\ DOMAIN pg.pte = Vpn
  BY DEF PgdirType
<1>2. UserPages(pg) \cap TablePages(pg) = {} <=> \A m : ~(m \in UserPages(pg) /\ m \in TablePages(pg))
  BY Zenon
<1>3. OnceIn(pg.pte) <=> \A x, y \in Vpn : pg.pte[x] = pg.pte[y] /\ pg.pte[x] # None => x = y
  BY <1>1, Zenon DEF OnceIn
<1>4. OnceIn(pg.tab) <=> \A x, y \in 0 .. NPD - 1 : pg.tab[x] = pg.tab[y] /\ pg.tab[x] # None => x = y
  BY <1>1, Zenon DEF OnceIn
<1>5. ASSUME NEW t PROVE pg.tab[t] \in {pg.dir, pg.kern} <=> pg.tab[t] = pg.dir \/ pg.tab[t] = pg.kern
  BY Zenon
<1> QED BY <1>1, <1>2, <1>3, <1>4, <1>5, Zenon DEF OncePgdir

(* No page is page 0. *)
LEMMA NoPageNone ==
  ASSUME NEW pg \in PgdirType
  PROVE  None \notin PagesOf(pg)
BY UserPagesAre, TablePagesAre, Zenon DEF PagesOf

(* What speaks of the entries only. *)
LEMMA SameEntries ==
  ASSUME NEW pg \in PgdirType, NEW pg2 \in PgdirType, pg2.dir = pg.dir, pg2.kern = pg.kern,
         pg2.tab = pg.tab, pg2.pte = pg.pte
  PROVE  PagesOf(pg2) = PagesOf(pg) /\ (OncePgdir(pg2) <=> OncePgdir(pg)) /\ (Tabled(pg2) <=> Tabled(pg))
<1>1. Present(pg2) = Present(pg)
  BY Zenon DEF Present
<1>2. UserPages(pg2) = UserPages(pg) /\ TablePages(pg2) = TablePages(pg)
  BY <1>1, Zenon DEF UserPages, TablePages
<1>3. OncePgdir(pg2) <=> OncePgdir(pg)
  BY <1>2, Zenon DEF OncePgdir
<1>4. Tabled(pg2) <=> Tabled(pg)
  BY Zenon DEF Tabled, HasTable
<1> QED BY <1>2, <1>3, <1>4, Zenon DEF PagesOf

LEMMA NoPgdirIs ==
  /\ NoPgdir \in PgdirType /\ NoPgdir.dir = None /\ NoPgdir.kern = None /\ NoPgdir.torn = {}
  /\ \A t \in 0 .. NPD - 1 : NoPgdir.tab[t] = None
  /\ \A n \in Vpn : NoPgdir.pte[n] = None
<1>1. [t \in 0 .. NPD - 1 |-> None] \in [0 .. NPD - 1 -> Nat] /\ [n \in Vpn |-> None] \in [Vpn -> Nat]
  BY DEF None
<1>2. NoPgdir \in PgdirType
  BY <1>1 DEF NoPgdir, PgdirType, None
<1> QED BY <1>2 DEF NoPgdir

(* The page directory as setupkvm() builds it. *)
LEMMA Fresh ==
  ASSUME NEW pg \in PgdirType, \A t \in 0 .. NPD - 1 : pg.tab[t] = None,
         \A n \in Vpn : pg.pte[n] = None, pg.dir = pg.kern => pg.dir = None
  PROVE  /\ PagesOf(pg) = {pg.dir, pg.kern} \ {None}
         /\ OncePgdir(pg) /\ Tabled(pg) /\ Covers(pg, 0)
<1>1. UserPages(pg) = {}
  BY UserPagesAre, Zenon
<1>2. TablePages(pg) = {pg.dir, pg.kern} \ {None}
  <2>1. ASSUME NEW k PROVE k \in TablePages(pg) <=> k # None /\ (k = pg.dir \/ k = pg.kern)
    <3>1. k \in TablePages(pg) <=>
            k # None /\ (k = pg.dir \/ k = pg.kern \/ \E t \in 0 .. NPD - 1 : pg.tab[t] = k)
      BY TablePagesAre, Zenon
    <3> QED BY <3>1, Zenon
  <2>2. \A k : k \in {pg.dir, pg.kern} \ {None} <=> k # None /\ (k = pg.dir \/ k = pg.kern)
    BY Zenon
  <2> QED BY <2>1, <2>2, Zenon
<1>3. OncePgdir(pg)
  BY <1>1, OncePgdirIs, Zenon
<1>4. Tabled(pg)
  BY Zenon DEF Tabled
<1>5. \A i \in Vpn : ~(i < 0)
  BY Geometry DEF Vpn
<1>6. Covers(pg, 0)
  BY <1>5, Zenon DEF Covers
<1> QED BY <1>1, <1>2, <1>3, <1>4, <1>6, Zenon DEF PagesOf

LEMMA NoPgdirEmpty == PagesOf(NoPgdir) = {} /\ OncePgdir(NoPgdir) /\ Tabled(NoPgdir) /\ Covers(NoPgdir, 0)
BY NoPgdirIs, Fresh, Zenon

IsMapped(new, pg, n, m, t) ==
  /\ new \in PgdirType /\ new.dir = pg.dir /\ new.kern = pg.kern /\ new.torn = pg.torn
  /\ new.pte[n] = m
  /\ \A i \in Vpn : i # n => new.pte[i] = pg.pte[i]
  /\ pg.tab[PDX(n)] = None => new.tab[PDX(n)] = t
  /\ pg.tab[PDX(n)] # None => new.tab[PDX(n)] = pg.tab[PDX(n)]
  /\ \A i \in 0 .. NPD - 1 : i # PDX(n) => new.tab[i] = pg.tab[i]

LEMMA MappedFields ==
  ASSUME NEW pg \in PgdirType, NEW n \in Vpn, NEW m \in Nat, NEW t \in Nat
  PROVE  IsMapped(Mapped(pg, n, m, t), pg, n, m, t)
<1>1. PDX(n) \in 0 .. NPD - 1
  BY TableOf
<1> QED BY <1>1 DEF Mapped, PgdirType, IsMapped

(* mappages() of a page that was free, with a free page for the table if    *)
(* there is none.                                                           *)
LEMMA MappedIs ==
  ASSUME NEW pg \in PgdirType, OncePgdir(pg), Tabled(pg), NEW n \in Vpn, pg.pte[n] = None,
         NEW m \in Nat, m # None, m \notin PagesOf(pg), NEW t \in Nat,
         HasTable(pg, n) => t = None,
         ~HasTable(pg, n) => t # None /\ t # m /\ t \notin PagesOf(pg)
  PROVE  LET new == Mapped(pg, n, m, t) IN
         /\ PagesOf(new) = PagesOf(pg) \cup ({m, t} \ {None})
         /\ OncePgdir(new) /\ Tabled(new)
<1>. DEFINE new == Mapped(pg, n, m, t)
            d == PDX(n)
<1>1. d \in 0 .. NPD - 1
  BY TableOf, Zenon
<1>10. IsMapped(new, pg, n, m, t)
  BY MappedFields, Zenon
<1>. HIDE DEF new
<1>2. /\ new \in PgdirType /\ new.dir = pg.dir /\ new.kern = pg.kern
      /\ new.pte[n] = m /\ \A i \in Vpn : i # n => new.pte[i] = pg.pte[i]
      /\ pg.tab[d] = None => new.tab[d] = t
      /\ pg.tab[d] # None => new.tab[d] = pg.tab[d]
      /\ \A i \in 0 .. NPD - 1 : i # d => new.tab[i] = pg.tab[i]
  BY <1>10, Zenon DEF IsMapped
<1>3. \A k : k \in UserPages(new) <=> k \in UserPages(pg) \/ k = m
  <2>1. \A k : k \in UserPages(new) <=> k # None /\ \E i \in Vpn : new.pte[i] = k
    BY <1>2, UserPagesAre, Zenon
  <2>2. \A k : k \in UserPages(pg) <=> k # None /\ \E i \in Vpn : pg.pte[i] = k
    BY UserPagesAre, Zenon
  <2>3. ASSUME NEW k, k \in UserPages(new), k # m PROVE k \in UserPages(pg)
    <3>1. PICK i \in Vpn : new.pte[i] = k
      BY <2>1, <2>3, Zenon
    <3>2. pg.pte[i] = k /\ k # None
      BY <1>2, <2>1, <2>3, <3>1, Zenon
    <3> QED BY <2>2, <3>2, Zenon
  <2>4. ASSUME NEW k, k \in UserPages(pg) PROVE k \in UserPages(new)
    <3>1. PICK i \in Vpn : pg.pte[i] = k /\ k # None
      BY <2>2, <2>4, Zenon
    <3>2. new.pte[i] = k
      BY <1>2, <3>1, Zenon
    <3> QED BY <2>1, <3>1, <3>2, Zenon
  <2>5. m \in UserPages(new)
    BY <1>2, <2>1, Zenon
  <2> QED BY <2>3, <2>4, <2>5, Zenon
<1>11. \A k : k \in TablePages(new) <=>
            k # None /\ (k = new.dir \/ k = new.kern \/ \E i \in 0 .. NPD - 1 : new.tab[i] = k)
  BY <1>2, TablePagesAre, Zenon
<1>12. \A k : k \in TablePages(pg) <=>
            k # None /\ (k = pg.dir \/ k = pg.kern \/ \E i \in 0 .. NPD - 1 : pg.tab[i] = k)
  BY TablePagesAre, Zenon
<1>4. \A k : k \in TablePages(new) <=> k \in TablePages(pg) \/ (k = t /\ t # None)
  <2>1. CASE pg.tab[d] = None
    <3>1. new.tab[d] = t
      BY <1>2, <2>1, Zenon
    <3>2. ASSUME NEW k, k # None, k # t
          PROVE  (\E i \in 0 .. NPD - 1 : new.tab[i] = k) <=> \E i \in 0 .. NPD - 1 : pg.tab[i] = k
      BY <1>2, <2>1, <3>1, <3>2, Zenon
    <3>3. t # None => t \in TablePages(new)
      BY <1>1, <1>11, <3>1, Zenon
    <3>4. ASSUME NEW k, k # t PROVE k \in TablePages(new) <=> k \in TablePages(pg)
      BY <1>2, <1>11, <1>12, <3>2, <3>4, Zenon
    <3>5. t \notin TablePages(pg)
      BY <1>12, Zenon DEF PagesOf, HasTable
    <3>6. t \in TablePages(new) => t # None
      BY <1>11, Zenon
    <3> QED BY <3>3, <3>4, <3>5, <3>6, Zenon
  <2>2. CASE pg.tab[d] # None
    <3>1. t = None
      BY <2>2, Zenon DEF HasTable
    <3>2. \A i \in 0 .. NPD - 1 : new.tab[i] = pg.tab[i]
      BY <1>2, <2>2, Zenon
    <3>3. ASSUME NEW k
          PROVE  (\E i \in 0 .. NPD - 1 : new.tab[i] = k) <=> \E i \in 0 .. NPD - 1 : pg.tab[i] = k
      BY <3>2, Zenon
    <3>4. ASSUME NEW k PROVE k \in TablePages(new) <=> k \in TablePages(pg)
      BY <1>2, <1>11, <1>12, <3>3, Zenon
    <3> QED BY <3>1, <3>4, Zenon
  <2> QED BY <2>1, <2>2, Zenon
<1>5. PagesOf(new) = PagesOf(pg) \cup ({m, t} \ {None})
  <2>1. \A k : k \in PagesOf(new) <=> k \in PagesOf(pg) \/ k = m \/ (k = t /\ t # None)
    BY <1>3, <1>4, Zenon DEF PagesOf
  <2>2. \A k : k \in {m, t} \ {None} <=> k = m \/ (k = t /\ t # None)
    BY Zenon
  <2> QED BY <2>1, <2>2, Zenon
<1>6. Tabled(new)
  <2>1. ASSUME NEW i \in Vpn, new.pte[i] # None PROVE new.tab[PDX(i)] # None
    <3>1. PDX(i) \in 0 .. NPD - 1
      BY TableOf, Zenon
    <3>2. CASE PDX(i) = d
      <4>1. pg.tab[d] = None => t # None
        BY Zenon DEF HasTable
      <4> QED BY <1>2, <3>2, <4>1, Zenon
    <3>3. CASE PDX(i) # d
      <4>1. i # n
        BY <3>3, Zenon
      <4>2. pg.tab[PDX(i)] # None
        BY <1>2, <2>1, <4>1, Zenon DEF Tabled, HasTable
      <4> QED BY <1>2, <3>1, <3>3, <4>2, Zenon
    <3> QED BY <3>2, <3>3, Zenon
  <2> QED BY <2>1, Zenon DEF Tabled, HasTable
<1>7. OncePgdir(new)
  <2>1. /\ \A x, y \in Vpn : pg.pte[x] = pg.pte[y] /\ pg.pte[x] # None => x = y
        /\ \A x, y \in 0 .. NPD - 1 : pg.tab[x] = pg.tab[y] /\ pg.tab[x] # None => x = y
        /\ pg.dir = pg.kern => pg.dir = None
        /\ \A x \in 0 .. NPD - 1 : pg.tab[x] = pg.dir \/ pg.tab[x] = pg.kern => pg.tab[x] = None
        /\ \A k : ~(k \in UserPages(pg) /\ k \in TablePages(pg))
    BY OncePgdirIs, Zenon
  <2>2. m \notin UserPages(pg) /\ m \notin TablePages(pg)
    BY Zenon DEF PagesOf
  <2>3. t # None => t \notin UserPages(pg) /\ t \notin TablePages(pg) /\ t # m
    BY Zenon DEF PagesOf
  <2>4. \A x, y \in Vpn : new.pte[x] = new.pte[y] /\ new.pte[x] # None => x = y
    <3>1. \A x \in Vpn : pg.pte[x] # None => pg.pte[x] \in UserPages(pg)
      BY UserPagesAre, Zenon
    <3>2. ASSUME NEW x \in Vpn, x # n PROVE new.pte[x] # m
      <4>1. new.pte[x] = pg.pte[x]
        BY <1>2, <3>2, Zenon
      <4> QED BY <2>2, <3>1, <4>1, Zenon
    <3>3. \A x, y \in Vpn : pg.pte[x] = pg.pte[y] /\ pg.pte[x] # None => x = y
      BY <2>1, Zenon
    <3>4. new.pte[n] = m /\ \A x \in Vpn : x # n => new.pte[x] = pg.pte[x]
      BY <1>2, Zenon
    <3> QED BY <3>2, <3>3, <3>4, Zenon
  <2>5. \A x \in 0 .. NPD - 1 : t # None => pg.tab[x] # t /\ pg.dir # t /\ pg.kern # t
    BY <2>3, TablePagesAre, Zenon
  <2>6. CASE pg.tab[d] # None
    <3>1. t = None
      BY <2>6, Zenon DEF HasTable
    <3>2. \A i \in 0 .. NPD - 1 : new.tab[i] = pg.tab[i]
      BY <1>2, <2>6, Zenon
    <3>3. /\ \A x, y \in 0 .. NPD - 1 : new.tab[x] = new.tab[y] /\ new.tab[x] # None => x = y
          /\ \A x \in 0 .. NPD - 1 : new.tab[x] = new.dir \/ new.tab[x] = new.kern => new.tab[x] = None
      BY <1>2, <2>1, <3>2, Zenon
    <3>4. \A k : ~(k \in UserPages(new) /\ k \in TablePages(new))
      BY <1>3, <1>4, <2>1, <2>2, <3>1, Zenon
    <3> QED BY <1>2, <2>1, <2>4, <3>3, <3>4, OncePgdirIs, Zenon
  <2>7. CASE pg.tab[d] = None
    <3>1. t # None /\ new.tab[d] = t
      BY <1>2, <2>7, Zenon DEF HasTable
    <3>2. \A x, y \in 0 .. NPD - 1 : new.tab[x] = new.tab[y] /\ new.tab[x] # None => x = y
      BY <1>2, <2>1, <2>5, <3>1, Zenon
    <3>3. \A x \in 0 .. NPD - 1 : new.tab[x] = new.dir \/ new.tab[x] = new.kern => new.tab[x] = None
      BY <1>2, <2>1, <2>5, <3>1, Zenon
    <3>4. \A k : ~(k \in UserPages(new) /\ k \in TablePages(new))
      BY <1>3, <1>4, <2>1, <2>2, <2>3, Zenon
    <3> QED BY <1>2, <2>1, <2>4, <3>2, <3>3, <3>4, OncePgdirIs, Zenon
  <2> QED BY <2>6, <2>7, Zenon
<1> QED BY <1>5, <1>6, <1>7, Zenon DEF new

LEMMA MappedCovers ==
  ASSUME NEW pg \in PgdirType, NEW n \in Vpn, NEW m \in Nat, m # None, NEW t \in Nat, Covers(pg, n)
  PROVE  Covers(Mapped(pg, n, m, t), n + 1)
<1>. DEFINE new == Mapped(pg, n, m, t)
<1>10. IsMapped(new, pg, n, m, t)
  BY MappedFields, Zenon
<1>. HIDE DEF new
<1>1. /\ new.torn = pg.torn
      /\ new.pte[n] = m /\ \A i \in Vpn : i # n => new.pte[i] = pg.pte[i]
  BY <1>10, Zenon DEF IsMapped
<1>2. \A i \in Vpn : i < n + 1 <=> i < n \/ i = n
  BY Geometry DEF Vpn
<1>3. Covers(new, n + 1)
  BY <1>1, <1>2, Zenon DEF Covers
<1> QED BY <1>3, Zenon DEF new

(* mappages() fails: the page is counted and not there. *)
LEMMA TornIs ==
  ASSUME NEW pg \in PgdirType, NEW n \in Vpn, Covers(pg, n), pg.pte[n] = None
  PROVE  LET new == [pg EXCEPT !.torn = @ \cup {n}] IN
         /\ new \in PgdirType /\ PagesOf(new) = PagesOf(pg)
         /\ (OncePgdir(new) <=> OncePgdir(pg)) /\ (Tabled(new) <=> Tabled(pg))
         /\ Covers(new, n + 1)
<1>. DEFINE new == [pg EXCEPT !.torn = @ \cup {n}]
<1>1. n \in Int
  BY Geometry DEF Vpn
<1>2. /\ new \in PgdirType /\ new.dir = pg.dir /\ new.kern = pg.kern /\ new.tab = pg.tab
      /\ new.pte = pg.pte /\ new.torn = pg.torn \cup {n}
  BY <1>1 DEF PgdirType
<1>. HIDE DEF new
<1>3. \A i \in Vpn : i < n + 1 <=> i < n \/ i = n
  BY Geometry DEF Vpn
<1>4. Covers(new, n + 1)
  BY <1>2, <1>3, Zenon DEF Covers
<1>5. PagesOf(new) = PagesOf(pg) /\ (OncePgdir(new) <=> OncePgdir(pg)) /\ (Tabled(new) <=> Tabled(pg))
  BY <1>2, SameEntries, Zenon
<1> QED BY <1>2, <1>4, <1>5, Zenon DEF new

IsUnmapped(new, pg, V) ==
  /\ new \in PgdirType /\ new.dir = pg.dir /\ new.kern = pg.kern /\ new.tab = pg.tab
  /\ new.torn = pg.torn
  /\ \A n \in Vpn : n \in V => new.pte[n] = None
  /\ \A n \in Vpn : n \notin V => new.pte[n] = pg.pte[n]

LEMMA UnmappedFields ==
  ASSUME NEW pg \in PgdirType, NEW newsz, NEW oldsz
  PROVE  IsUnmapped(Unmapped(pg, newsz, oldsz), pg, Visited(pg, newsz, oldsz))
<1>. DEFINE V == Visited(pg, newsz, oldsz)
            pte == [n \in Vpn |-> IF n \in V THEN None ELSE pg.pte[n]]
            new == [pg EXCEPT !.pte = pte]
<1>1. new = Unmapped(pg, newsz, oldsz)
  BY DEF Unmapped, PgdirType
<1>. HIDE DEF V
<1>2. /\ pte \in [Vpn -> Nat]
      /\ \A n \in Vpn : n \in V => pte[n] = None
      /\ \A n \in Vpn : n \notin V => pte[n] = pg.pte[n]
  BY DEF PgdirType, None
<1>. HIDE DEF pte
<1>3. /\ new \in PgdirType /\ new.dir = pg.dir /\ new.kern = pg.kern /\ new.tab = pg.tab
      /\ new.torn = pg.torn /\ new.pte = pte
  BY <1>2 DEF PgdirType
<1>. HIDE DEF new
<1>4. IsUnmapped(new, pg, V)
  BY <1>2, <1>3, Zenon DEF IsUnmapped
<1> QED BY <1>1, <1>4, Zenon DEF V

(* deallocuvm() gives up what it unmaps, and that was mapped once.          *)
LEMMA UnmappedIs ==
  ASSUME Least, NEW pg \in PgdirType, OncePgdir(pg), Tabled(pg),
         NEW newsz \in 0 .. KERNBASE, NEW oldsz \in 0 .. KERNBASE
  PROVE  LET new == Unmapped(pg, newsz, oldsz) IN
         /\ new \in PgdirType /\ OncePgdir(new) /\ Tabled(new)
         /\ PagesOf(new) = PagesOf(pg) \ Deallocated(pg, newsz, oldsz)
         /\ Deallocated(pg, newsz, oldsz) \subseteq PagesOf(pg)
<1>. DEFINE new == Unmapped(pg, newsz, oldsz)
            V == Visited(pg, newsz, oldsz)
            D == Deallocated(pg, newsz, oldsz)
<1>20. IsUnmapped(new, pg, V)
  BY UnmappedFields, Zenon
<1>2. \A n \in V : n \in Vpn
  BY VisitedSound, Zenon
<1>3. \A m : m \in D <=> m # None /\ \E n \in V : pg.pte[n] = m
  BY Zenon DEF Deallocated
<1>. HIDE DEF new, V, D
<1>1. /\ new \in PgdirType /\ new.dir = pg.dir /\ new.kern = pg.kern /\ new.tab = pg.tab
      /\ \A n \in Vpn : n \in V => new.pte[n] = None
      /\ \A n \in Vpn : n \notin V => new.pte[n] = pg.pte[n]
  BY <1>20, Zenon DEF IsUnmapped
<1>4. /\ \A x, y \in Vpn : pg.pte[x] = pg.pte[y] /\ pg.pte[x] # None => x = y
      /\ \A x, y \in 0 .. NPD - 1 : pg.tab[x] = pg.tab[y] /\ pg.tab[x] # None => x = y
      /\ pg.dir = pg.kern => pg.dir = None
      /\ \A x \in 0 .. NPD - 1 : pg.tab[x] = pg.dir \/ pg.tab[x] = pg.kern => pg.tab[x] = None
      /\ \A k : ~(k \in UserPages(pg) /\ k \in TablePages(pg))
  BY OncePgdirIs, Zenon
<1>5. TablePages(new) = TablePages(pg)
  BY <1>1, SMT DEF TablePages
<1>6. \A m : m \in UserPages(pg) <=> m # None /\ \E n \in Vpn : pg.pte[n] = m
  BY UserPagesAre, Zenon
<1>7. \A m : m \in UserPages(new) <=> m # None /\ \E n \in Vpn : new.pte[n] = m
  BY <1>1, UserPagesAre, Zenon
<1>8. ASSUME NEW m, m \in D PROVE m \in UserPages(pg) /\ m \notin UserPages(new)
  <2>1. PICK n \in V : pg.pte[n] = m /\ m # None
    BY <1>3, <1>8, Zenon
  <2>2. ASSUME NEW i \in Vpn, new.pte[i] = m PROVE FALSE
    <3>1. i \notin V /\ pg.pte[i] = m
      BY <1>1, <2>1, <2>2, Zenon
    <3> QED BY <1>2, <1>4, <2>1, <3>1, Zenon
  <2> QED BY <1>2, <1>6, <1>7, <2>1, <2>2, Zenon
<1>9. ASSUME NEW m, m \in UserPages(pg), m \notin D PROVE m \in UserPages(new)
  <2>1. PICK n \in Vpn : pg.pte[n] = m /\ m # None
    BY <1>6, <1>9, Zenon
  <2>2. n \notin V
    BY <1>3, <1>9, <2>1, Zenon
  <2> QED BY <1>1, <1>7, <2>1, <2>2, Zenon
<1>10. ASSUME NEW m, m \in UserPages(new) PROVE m \in UserPages(pg)
  <2>1. PICK n \in Vpn : new.pte[n] = m /\ m # None
    BY <1>7, <1>10, Zenon
  <2>2. pg.pte[n] = m
    BY <1>1, <2>1, Zenon
  <2> QED BY <1>6, <2>1, <2>2, Zenon
<1>11. PagesOf(new) = PagesOf(pg) \ D
  <2>1. \A m : m \in PagesOf(new) <=> m \in PagesOf(pg) /\ m \notin D
    BY <1>4, <1>5, <1>8, <1>9, <1>10, Zenon DEF PagesOf
  <2> QED BY <2>1, Zenon
<1>12. D \subseteq PagesOf(pg)
  BY <1>8, Zenon DEF PagesOf
<1>13. Tabled(new)
  BY <1>1, Zenon DEF Tabled, HasTable
<1>14. \A x, y \in Vpn : new.pte[x] = new.pte[y] /\ new.pte[x] # None => x = y
  <2>1. \A x \in Vpn : new.pte[x] # None => new.pte[x] = pg.pte[x]
    BY <1>1, Zenon
  <2> QED BY <1>4, <2>1, Zenon
<1>15. \A k : ~(k \in UserPages(new) /\ k \in TablePages(new))
  BY <1>4, <1>5, <1>10, Zenon
<1>16. OncePgdir(new)
  <2>1. /\ \A x, y \in 0 .. NPD - 1 : new.tab[x] = new.tab[y] /\ new.tab[x] # None => x = y
        /\ new.dir = new.kern => new.dir = None
        /\ \A x \in 0 .. NPD - 1 : new.tab[x] = new.dir \/ new.tab[x] = new.kern => new.tab[x] = None
    BY <1>1, <1>4, Zenon
  <2> QED BY <1>1, <1>14, <1>15, <2>1, OncePgdirIs, Zenon
<1>17. new \in PgdirType
  BY <1>1, Zenon
<1> QED BY <1>11, <1>12, <1>13, <1>16, <1>17, Zenon DEF new, D

(* freevm() frees all pages of an address space. *)
LEMMA FreedIs ==
  ASSUME Least, NEW pg \in PgdirType, Tabled(pg)
  PROVE  Freed(pg) = PagesOf(pg)
<1>. DEFINE V == Visited(pg, 0, KERNBASE)
<1>1. KERNBASE \in Nat /\ Pages(0) = 0 /\ Pages(KERNBASE) = NUPAGES /\ NUPAGES \in Nat
  BY PagesBounds, Geometry
<1>2. 0 \in 0 .. KERNBASE /\ KERNBASE \in 0 .. KERNBASE
  BY <1>1
<1>3. 0 \in Starts
  BY Geometry DEF Starts
<1>4. \A n \in V : n \in Vpn
  BY <1>2, VisitedSound, Zenon
<1>5. ASSUME NEW n \in Vpn, pg.pte[n] # None PROVE n \in V
  <2>1. HasTable(pg, n)
    BY <1>5, Zenon DEF Tabled
  <2>2. n \in Pages(0) .. Pages(KERNBASE) - 1
    BY <1>1 DEF Vpn
  <2> QED BY <1>1, <1>2, <1>3, <2>1, <2>2, VisitedAll, Zenon
<1>6. \A m : m \in Deallocated(pg, 0, KERNBASE) <=> m # None /\ \E n \in V : pg.pte[n] = m
  BY Zenon DEF Deallocated
<1>. HIDE DEF V
<1>7. \A m : m \in Deallocated(pg, 0, KERNBASE) <=> m \in UserPages(pg)
  <2>1. \A m : m \in UserPages(pg) <=> m # None /\ \E n \in Vpn : pg.pte[n] = m
    BY UserPagesAre, Zenon
  <2> QED BY <1>4, <1>5, <1>6, <2>1, Zenon
<1>8. Deallocated(pg, 0, KERNBASE) = UserPages(pg)
  BY <1>7, Zenon
<1> QED BY <1>8, Zenon DEF Freed, PagesOf

LEMMA UnmappedCovers ==
  ASSUME Least, NEW pg \in PgdirType, Tabled(pg), NEW newsz \in 0 .. KERNBASE,
         NEW oldsz \in 0 .. KERNBASE, NEW n \in Pages(newsz) .. Pages(oldsz), Covers(pg, n)
  PROVE  Covers(Unmapped(pg, newsz, oldsz), Pages(newsz))
<1>. DEFINE new == Unmapped(pg, newsz, oldsz)
            V == Visited(pg, newsz, oldsz)
            lo == Pages(newsz)
<1>10. IsUnmapped(new, pg, V)
  BY UnmappedFields, Zenon
<1>2. lo \in 0 .. NUPAGES /\ Pages(oldsz) \in 0 .. NUPAGES /\ NUPAGES \in Nat
  BY PagesBounds, Geometry, Zenon
<1>3. \A i \in V : i \in lo .. Pages(oldsz) - 1
  BY VisitedSound, Zenon
<1>4. \A i \in Vpn : i < lo => i \notin V /\ i < n
  BY <1>2, <1>3, Geometry DEF Vpn
<1>5. ASSUME pg.torn = {}, NEW i \in Vpn, pg.pte[i] # None, i \notin V, ~(i < lo) PROVE FALSE
  <2>1. i < n
    BY <1>5, Zenon DEF Covers
  <2>2. lo \in Vpn /\ lo < n /\ i \in lo .. Pages(oldsz) - 1
    BY <1>2, <1>5, <2>1, Geometry DEF Vpn
  <2>3. pg.pte[lo] # None
    BY <1>5, <2>2, Zenon DEF Covers
  <2>4. lo \in WithTable(pg) /\ HasTable(pg, i)
    BY <1>5, <2>2, <2>3, Zenon DEF Tabled, WithTable
  <2>5. i \in V
    BY <2>2, <2>4, VisitedAll, Zenon
  <2> QED BY <1>5, <2>5, Zenon
<1>. HIDE DEF new, V, lo
<1>1. /\ new.torn = pg.torn
      /\ \A i \in Vpn : i \in V => new.pte[i] = None
      /\ \A i \in Vpn : i \notin V => new.pte[i] = pg.pte[i]
  BY <1>10, Zenon DEF IsUnmapped
<1>6. Covers(new, lo)
  BY <1>1, <1>4, <1>5, Zenon DEF Covers
<1> QED BY <1>6, Zenon DEF new, lo

-----------------------------------------------------------------------------
(* Pages change hands *)

(* A step moves pages between p, q, the free list and those lost. *)
LEMMA Conserved ==
  ASSUME PagesOwned, npage' = npage, NEW p \in Proc, NEW q \in Proc,
         \A r \in Proc : r # p /\ r # q => HeldBy(proc'[r]) = HeldBy(proc[r]) /\ HeldOnce(proc'[r]),
         HeldOnce(proc'[p]), HeldOnce(proc'[q]),
         p # q => \A m : ~(m \in HeldBy(proc'[p]) /\ m \in HeldBy(proc'[q])),
         \A m : m \in freelist' \/ m \in leaked' \/ m \in HeldBy(proc'[p]) \/ m \in HeldBy(proc'[q])
            <=> m \in freelist \/ m \in leaked \/ m \in HeldBy(proc[p]) \/ m \in HeldBy(proc[q]),
         \A m : ~(m \in freelist' /\ m \in leaked'),
         \A m : m \in freelist' \/ m \in leaked' => m \notin HeldBy(proc'[p]) /\ m \notin HeldBy(proc'[q])
  PROVE  PagesOwned'
<1>1. /\ \A m : m \in Page <=> m \in freelist \/ m \in leaked \/ \E r \in Proc : m \in HeldBy(proc[r])
      /\ \A r \in Proc : \A m : m \in freelist \/ m \in leaked => m \notin HeldBy(proc[r])
      /\ \A r, s \in Proc : r # s => \A m : ~(m \in HeldBy(proc[r]) /\ m \in HeldBy(proc[s]))
  <2>1. \A m : m \in UNION {HeldBy(proc[r]) : r \in Proc} <=> \E r \in Proc : m \in HeldBy(proc[r])
    BY Zenon
  <2>2. freelist \cup leaked \cup UNION {HeldBy(proc[r]) : r \in Proc} = Page
    BY Zenon DEF PagesOwned
  <2>3. ASSUME NEW m PROVE m \in Page <=> m \in freelist \/ m \in leaked \/ \E r \in Proc : m \in HeldBy(proc[r])
    BY <2>1, <2>2, Zenon
  <2>4. \A r \in Proc : \A m : m \in freelist \/ m \in leaked => m \notin HeldBy(proc[r])
    BY Zenon DEF PagesOwned
  <2>5. \A r, s \in Proc : r # s => \A m : ~(m \in HeldBy(proc[r]) /\ m \in HeldBy(proc[s]))
    BY Zenon DEF PagesOwned
  <2> QED BY <2>3, <2>4, <2>5, Zenon
<1>2. Page' = Page
  BY Zenon DEF Page
<1>3. ASSUME NEW r \in Proc, r # p, r # q, NEW m, m \in HeldBy(proc'[r])
      PROVE  /\ m \notin freelist' /\ m \notin leaked'
             /\ m \notin HeldBy(proc'[p]) /\ m \notin HeldBy(proc'[q])
  <2>1. m \in HeldBy(proc[r])
    BY <1>3, Zenon
  <2>2. ~(m \in freelist \/ m \in leaked \/ m \in HeldBy(proc[p]) \/ m \in HeldBy(proc[q]))
    BY <1>1, <1>3, <2>1, Zenon
  <2> QED BY <2>2, Zenon
<1>4. freelist' \cup leaked' \cup UNION {HeldBy(proc'[r]) : r \in Proc} = Page'
  <2>1. ASSUME NEW m PROVE m \in Page <=> m \in freelist' \/ m \in leaked' \/ \E r \in Proc : m \in HeldBy(proc'[r])
    <3>1. CASE \E r \in Proc : r # p /\ r # q /\ m \in HeldBy(proc[r])
      BY <1>1, <3>1, Zenon
    <3>2. CASE ~\E r \in Proc : r # p /\ r # q /\ m \in HeldBy(proc[r])
      <4>1. ~\E r \in Proc : r # p /\ r # q /\ m \in HeldBy(proc'[r])
        BY <3>2, Zenon
      <4>2. (\E r \in Proc : m \in HeldBy(proc[r])) <=> m \in HeldBy(proc[p]) \/ m \in HeldBy(proc[q])
        BY <3>2, Zenon
      <4>3. (\E r \in Proc : m \in HeldBy(proc'[r])) <=> m \in HeldBy(proc'[p]) \/ m \in HeldBy(proc'[q])
        BY <4>1, Zenon
      <4> QED BY <1>1, <4>2, <4>3, Zenon
    <3> QED BY <3>1, <3>2, Zenon
  <2>2. \A m : m \in UNION {HeldBy(proc'[r]) : r \in Proc} <=> \E r \in Proc : m \in HeldBy(proc'[r])
    BY Zenon
  <2> QED BY <1>2, <2>1, <2>2, Zenon
<1>5. freelist' \cap leaked' = {}
  BY Zenon
<1>6. \A r \in Proc : HeldOnce(proc'[r]) /\ HeldBy(proc'[r]) \cap (freelist' \cup leaked') = {}
  <2>1. ASSUME NEW r \in Proc PROVE HeldBy(proc'[r]) \cap (freelist' \cup leaked') = {}
    BY <1>3, Zenon
  <2>2. ASSUME NEW r \in Proc PROVE HeldOnce(proc'[r])
    BY Zenon
  <2> QED BY <2>1, <2>2, Zenon
<1>9. p # q => \A m : ~(m \in HeldBy(proc'[p]) /\ m \in HeldBy(proc'[q]))
  OBVIOUS
<1>7. ASSUME NEW r \in Proc, NEW s \in Proc, r # s, NEW m, m \in HeldBy(proc'[r]), m \in HeldBy(proc'[s])
      PROVE  FALSE
  <2>1. CASE r # p /\ r # q /\ s # p /\ s # q
    <3>1. m \in HeldBy(proc[r]) /\ m \in HeldBy(proc[s])
      BY <1>7, <2>1, Zenon
    <3> QED BY <1>1, <1>7, <3>1, Zenon
  <2>2. CASE r # p /\ r # q /\ (s = p \/ s = q)
    BY <1>3, <1>7, <2>2, Zenon
  <2>3. CASE s # p /\ s # q /\ (r = p \/ r = q)
    BY <1>3, <1>7, <2>3, Zenon
  <2>4. CASE (r = p \/ r = q) /\ (s = p \/ s = q)
    <3>1. CASE r = p /\ s = q
      BY <1>7, <1>9, <3>1
    <3>2. CASE r = q /\ s = p
      BY <1>7, <1>9, <3>2
    <3> QED BY <1>7, <2>4, <3>1, <3>2
  <2> QED BY <2>1, <2>2, <2>3, <2>4, Zenon
<1>8. \A r, s \in Proc : r # s => HeldBy(proc'[r]) \cap HeldBy(proc'[s]) = {}
  BY <1>7, Zenon
<1> QED BY <1>4, <1>5, <1>6, <1>8, Zenon DEF PagesOwned

LEMMA HeldFacts ==
  ASSUME PagesOwned, NEW p \in Proc
  PROVE  /\ HeldOnce(proc[p])
         /\ \A m : m \in freelist \/ m \in leaked => m \notin HeldBy(proc[p])
         /\ \A m : ~(m \in freelist /\ m \in leaked)
         /\ \A q \in Proc : p # q => \A m : ~(m \in HeldBy(proc[p]) /\ m \in HeldBy(proc[q]))
<1>1. freelist \cap leaked = {} /\ HeldBy(proc[p]) \cap (freelist \cup leaked) = {}
  BY Zenon DEF PagesOwned
<1>2. \A q \in Proc : p # q => HeldBy(proc[p]) \cap HeldBy(proc[q]) = {}
  BY Zenon DEF PagesOwned
<1>3. HeldOnce(proc[p])
  BY Zenon DEF PagesOwned
<1>4. \A m : m \in freelist \/ m \in leaked => m \notin HeldBy(proc[p])
  BY <1>1, Zenon
<1>5. \A m : ~(m \in freelist /\ m \in leaked)
  BY <1>1, Zenon
<1>6. \A q \in Proc : p # q => \A m : ~(m \in HeldBy(proc[p]) /\ m \in HeldBy(proc[q]))
  BY <1>2, Zenon
<1> QED BY <1>3, <1>4, <1>5, <1>6, Zenon

(* A step that leaves all pages where they are. *)
LEMMA Unmoved ==
  ASSUME PagesOwned, npage' = npage, freelist' = freelist, leaked' = leaked, Proc # {},
         \A r \in Proc : HeldBy(proc'[r]) = HeldBy(proc[r]) /\ HeldOnce(proc'[r])
  PROVE  PagesOwned'
<1>1. PICK p \in Proc : TRUE
  BY Zenon
<1>2. /\ \A m : m \in freelist \/ m \in leaked => m \notin HeldBy(proc[p])
      /\ \A m : ~(m \in freelist /\ m \in leaked)
  BY HeldFacts, Zenon
<1>3. HeldBy(proc'[p]) = HeldBy(proc[p])
  BY Zenon
<1> QED BY <1>2, <1>3, Conserved, Zenon

(* The others are as they were. *)
Only(p) == \A q \in Proc : q # p => proc'[q] = proc[q]

(* p takes the pages X from the free list. *)
LEMMA Taken ==
  ASSUME PagesOwned, npage' = npage, leaked' = leaked, NEW p \in Proc, Only(p), NEW X,
         \A m \in X : m \in freelist, \A m : m \in freelist' <=> m \in freelist /\ m \notin X,
         \A m : m \in HeldBy(proc'[p]) <=> m \in HeldBy(proc[p]) \/ m \in X, HeldOnce(proc'[p])
  PROVE  PagesOwned'
<1>1. /\ \A m : m \in freelist \/ m \in leaked => m \notin HeldBy(proc[p])
      /\ \A m : ~(m \in freelist /\ m \in leaked)
  BY HeldFacts, Zenon
<1>2. \A r \in Proc : r # p => HeldBy(proc'[r]) = HeldBy(proc[r]) /\ HeldOnce(proc'[r])
  BY HeldFacts, Zenon DEF Only
<1>3. \A m : ~(m \in freelist' /\ m \in leaked')
  BY <1>1, Zenon
<1>4. \A m : m \in freelist' \/ m \in leaked' => m \notin HeldBy(proc'[p])
  BY <1>1, Zenon
<1>5. \A m : m \in freelist' \/ m \in leaked' \/ m \in HeldBy(proc'[p])
            <=> m \in freelist \/ m \in leaked \/ m \in HeldBy(proc[p])
  BY Zenon
<1> QED BY <1>2, <1>3, <1>4, <1>5, Conserved, Zenon

(* p gives up the pages X. *)
LEMMA ReturnedBy ==
  ASSUME PagesOwned, npage' = npage, leaked' = leaked, NEW p \in Proc, Only(p), NEW X,
         HeldOnce(proc'[p]), \A m \in X : m \in HeldBy(proc[p]),
         \A m : m \in HeldBy(proc'[p]) <=> m \in HeldBy(proc[p]) /\ m \notin X,
         \A m : m \in freelist' <=> m \in freelist \/ m \in X
  PROVE  PagesOwned'
<1>1. /\ \A m : m \in freelist \/ m \in leaked => m \notin HeldBy(proc[p])
      /\ \A m : ~(m \in freelist /\ m \in leaked)
  BY HeldFacts, Zenon
<1>2. \A r \in Proc : r # p => HeldBy(proc'[r]) = HeldBy(proc[r]) /\ HeldOnce(proc'[r])
  BY HeldFacts, Zenon DEF Only
<1>3. \A m : ~(m \in freelist' /\ m \in leaked')
  BY <1>1, Zenon
<1>4. \A m : m \in freelist' \/ m \in leaked' => m \notin HeldBy(proc'[p])
  BY <1>1, Zenon
<1>5. \A m : m \in freelist' \/ m \in leaked' \/ m \in HeldBy(proc'[p])
            <=> m \in freelist \/ m \in leaked \/ m \in HeldBy(proc[p])
  BY Zenon
<1> QED BY <1>2, <1>3, <1>4, <1>5, Conserved, Zenon

(* p gives up the pages X; the pages L of these and of the free ones are    *)
(* lost.                                                                    *)
LEMMA LostBy ==
  ASSUME PagesOwned, npage' = npage, NEW p \in Proc, Only(p), NEW X, NEW L, HeldOnce(proc'[p]),
         \A m : m \in HeldBy(proc'[p]) <=> m \in HeldBy(proc[p]) /\ m \notin X,
         \A m \in X : m \in HeldBy(proc[p]), \A m \in L : m \in X \/ m \in freelist,
         \A m : m \in freelist' <=> (m \in freelist \/ m \in X) /\ m \notin L,
         \A m : m \in leaked' <=> m \in leaked \/ m \in L
  PROVE  PagesOwned'
<1>1. /\ \A m : m \in freelist \/ m \in leaked => m \notin HeldBy(proc[p])
      /\ \A m : ~(m \in freelist /\ m \in leaked)
  BY HeldFacts, Zenon
<1>2. \A r \in Proc : r # p => HeldBy(proc'[r]) = HeldBy(proc[r]) /\ HeldOnce(proc'[r])
  BY HeldFacts, Zenon DEF Only
<1>3. \A m : ~(m \in freelist' /\ m \in leaked')
  BY <1>1, Zenon
<1>4. \A m : m \in freelist' \/ m \in leaked' => m \notin HeldBy(proc'[p])
  BY <1>1, Zenon
<1>5. \A m : m \in freelist' \/ m \in leaked' \/ m \in HeldBy(proc'[p])
            <=> m \in freelist \/ m \in leaked \/ m \in HeldBy(proc[p])
  BY Zenon
<1> QED BY <1>2, <1>3, <1>4, <1>5, Conserved, Zenon

(* p and q give up the pages X.  The pages L of these and of the free ones  *)
(* are lost.                                                                *)
LEMMA Returned ==
  ASSUME PagesOwned, npage' = npage, NEW p \in Proc, NEW q \in Proc, NEW X, NEW L,
         \A r \in Proc : r # p /\ r # q => proc'[r] = proc[r],
         HeldOnce(proc'[p]), HeldOnce(proc'[q]),
         \A m : m \in HeldBy(proc'[p]) <=> m \in HeldBy(proc[p]) /\ m \notin X,
         \A m : m \in HeldBy(proc'[q]) <=> m \in HeldBy(proc[q]) /\ m \notin X,
         \A m \in X : m \in HeldBy(proc[p]) \/ m \in HeldBy(proc[q]),
         \A m \in L : m \in X \/ m \in freelist,
         \A m : m \in freelist' <=> (m \in freelist \/ m \in X) /\ m \notin L,
         \A m : m \in leaked' <=> m \in leaked \/ m \in L
  PROVE  PagesOwned'
<1>1. /\ \A m : m \in freelist \/ m \in leaked => m \notin HeldBy(proc[p]) /\ m \notin HeldBy(proc[q])
      /\ \A m : ~(m \in freelist /\ m \in leaked)
      /\ p # q => \A m : ~(m \in HeldBy(proc[p]) /\ m \in HeldBy(proc[q]))
  BY HeldFacts, Zenon
<1>2. \A r \in Proc : r # p /\ r # q => HeldBy(proc'[r]) = HeldBy(proc[r]) /\ HeldOnce(proc'[r])
  BY HeldFacts, Zenon
<1>3. \A m : ~(m \in freelist' /\ m \in leaked')
  BY <1>1, Zenon
<1>4. \A m : m \in freelist' \/ m \in leaked' => m \notin HeldBy(proc'[p]) /\ m \notin HeldBy(proc'[q])
  BY <1>1, Zenon
<1>5. \A m : m \in freelist' \/ m \in leaked' \/ m \in HeldBy(proc'[p]) \/ m \in HeldBy(proc'[q])
            <=> m \in freelist \/ m \in leaked \/ m \in HeldBy(proc[p]) \/ m \in HeldBy(proc[q])
  BY Zenon
<1>6. p # q => \A m : ~(m \in HeldBy(proc'[p]) /\ m \in HeldBy(proc'[q]))
  BY <1>1, Zenon
<1> QED BY <1>2, <1>3, <1>4, <1>5, <1>6, Conserved, Zenon

-----------------------------------------------------------------------------
(* A step of one process *)

(* Its part of the invariant. *)
LEMMA ProcFacts ==
  ASSUME IInv, NEW p \in Proc
  PROVE  /\ proc[p] \in ProcType /\ Life(proc[p]) /\ Progress(proc[p]) /\ Space(proc[p])
         /\ proc[p].pg \in PgdirType /\ proc[p].new \in PgdirType
         /\ proc[p].sz \in 0 .. KERNBASE /\ proc[p].old \in 0 .. KERNBASE /\ proc[p].hi \in 0 .. KERNBASE
         /\ proc[p].a \in Nat /\ proc[p].kstack \in Nat /\ proc[p].child \in Proc \cup {None}
<1>1. proc[p] \in ProcType
  BY Zenon DEF IInv, TypeOK
<1>2. Life(proc[p]) /\ Progress(proc[p]) /\ Space(proc[p])
  BY Zenon DEF IInv, Procs, ProcOK
<1>3. /\ proc[p].pg \in PgdirType /\ proc[p].new \in PgdirType
      /\ proc[p].sz \in 0 .. KERNBASE /\ proc[p].old \in 0 .. KERNBASE /\ proc[p].hi \in 0 .. KERNBASE
      /\ proc[p].a \in Nat /\ proc[p].kstack \in Nat /\ proc[p].child \in Proc \cup {None}
  BY <1>1 DEF ProcType
<1> QED BY <1>1, <1>2, <1>3, Zenon

(* What it may change without the others' noticing. *)
LEMMA OneStep ==
  ASSUME IInv, npage' = npage, NEW p \in Proc, Only(p), proc' \in [Proc -> ProcType],
         ProcOK(proc'[p]), proc[p].st # "EMBRYO", proc'[p].child = proc[p].child,
         proc[p].child # None => (proc'[p].pc = "allocproc" <=> proc[p].pc = "allocproc")
  PROVE  TypeOK' /\ Procs' /\ Children'
<1>1. TypeOK'
  BY Zenon DEF IInv, TypeOK
<1>2. Procs'
  BY Zenon DEF IInv, Procs, Only
<1>3. Children'
  <2>1. \A r \in Proc : /\ proc'[r].child = proc[r].child
                        /\ proc[r].child # None => (proc'[r].pc = "allocproc" <=> proc[r].pc = "allocproc")
    BY Zenon DEF Only
  <2>2. \A r \in Proc : proc[r].st = "EMBRYO" => proc'[r] = proc[r]
    BY Zenon DEF Only
  <2>3. \A r \in Proc : proc[r].child # None => proc[r].child \in Proc
    BY ProcFacts, Zenon
  <2>4. /\ \A r \in Proc : proc[r].child # None =>
              /\ proc[proc[r].child].st = "EMBRYO"
              /\ proc[proc[r].child].kstack = None <=> proc[r].pc = "allocproc"
        /\ \A r, s \in Proc : proc[r].child = proc[s].child /\ proc[r].child # None => r = s
    BY Zenon DEF IInv, Children
  <2>5. ASSUME NEW r \in Proc, proc'[r].child # None
        PROVE  /\ proc'[proc'[r].child].st = "EMBRYO"
               /\ proc'[proc'[r].child].kstack = None <=> proc'[r].pc = "allocproc"
    <3>1. proc'[r].child = proc[r].child /\ proc[r].child # None /\ proc[r].child \in Proc
      BY <2>1, <2>3, <2>5, Zenon
    <3>2. proc[proc[r].child].st = "EMBRYO" /\ proc'[proc[r].child] = proc[proc[r].child]
      BY <2>2, <2>4, <3>1, Zenon
    <3>3. proc[proc[r].child].kstack = None <=> proc[r].pc = "allocproc"
      BY <2>4, <3>1, Zenon
    <3>4. proc'[r].pc = "allocproc" <=> proc[r].pc = "allocproc"
      BY <2>1, <3>1, Zenon
    <3> QED BY <3>1, <3>2, <3>3, <3>4, Zenon
  <2>6. \A r, s \in Proc : proc'[r].child = proc'[s].child /\ proc'[r].child # None => r = s
    <3>1. \A r, s \in Proc : proc[r].child = proc[s].child /\ proc[r].child # None => r = s
      BY <2>4, Zenon
    <3>2. \A r \in Proc : proc'[r].child = proc[r].child
      BY <2>1, Zenon
    <3> QED BY <3>1, <3>2, Zenon
  <2> QED BY <2>5, <2>6, Zenon DEF Children
<1> QED BY <1>1, <1>2, <1>3, Zenon

LEMMA PcType ==
  ASSUME NEW r \in ProcType
  PROVE  r.st \in {"UNUSED", "EMBRYO", "RUNNABLE", "ZOMBIE"}
BY DEF ProcType

(* growproc(n), n > 0 *)
LEMMA GrowStep == ASSUME IInv, NEW p \in Proc, NEW n \in Sbrk, Grow(p, n) PROVE IInv'
<1>. DEFINE pr == proc[p]
            qr == proc'[p]
<1>1. n \in Int /\ n > 0 /\ pr.pc = "user" /\ pr.sz + n < KERNBASE /\ npage' = npage
      /\ freelist' = freelist /\ leaked' = leaked
  BY MemoryAssumption DEF Grow, Call, At
<1>2. /\ pr \in ProcType /\ Life(pr) /\ Progress(pr) /\ Space(pr) /\ pr.sz \in 0 .. KERNBASE
      /\ pr.pg \in PgdirType
  BY ProcFacts, Zenon
<1>3. Pages(pr.sz) \in 0 .. NUPAGES /\ KERNBASE \in Nat /\ NUPAGES \in Nat
  BY <1>2, PagesBounds, Geometry, Zenon
<1>4. Pages(pr.sz) \in Nat /\ pr.sz + n \in 0 .. KERNBASE /\ pr.sz <= pr.sz + n /\ pr.sz \in Nat
  BY <1>1, <1>2, <1>3
<1>5. /\ proc' \in [Proc -> ProcType] /\ Only(p)
      /\ qr.st = pr.st /\ qr.kstack = pr.kstack /\ qr.pg = pr.pg /\ qr.sz = pr.sz /\ qr.child = pr.child
      /\ qr.pc = "allocuvm" /\ qr.call = "sbrk" /\ qr.new = pr.pg /\ qr.a = Pages(pr.sz)
      /\ qr.old = pr.sz /\ qr.hi = pr.sz + n
  <2>. DEFINE ar == [pr EXCEPT !.pc = "allocuvm", !.call = "sbrk", !.new = pr.pg,
                               !.a = Pages(pr.sz), !.old = pr.sz, !.hi = pr.sz + n]
  <2>1. ar \in ProcType
    BY <1>2, <1>4 DEF ProcType, Loading
  <2>2. proc' = [proc EXCEPT ![p] = ar]
    BY DEF Grow
  <2>4. proc' \in [Proc -> ProcType] /\ Only(p)
    <3>. HIDE DEF ar
    <3> QED BY <2>1, <2>2 DEF IInv, TypeOK, Only
  <2>3. /\ qr.st = pr.st /\ qr.kstack = pr.kstack /\ qr.pg = pr.pg /\ qr.sz = pr.sz /\ qr.child = pr.child
        /\ qr.pc = "allocuvm" /\ qr.call = "sbrk" /\ qr.new = pr.pg /\ qr.a = Pages(pr.sz)
        /\ qr.old = pr.sz /\ qr.hi = pr.sz + n
    BY <1>2 DEF IInv, TypeOK, Grow, ProcType
  <2> QED BY <2>3, <2>4, Zenon
<1>6. Life(qr)
  BY <1>1, <1>2, <1>5, Zenon DEF Life, Resting, Copying, Loading
<1>7. Progress(qr)
  <2>1. Covers(pr.pg, Pages(pr.sz))
    BY <1>1, <1>2, Zenon DEF Life, Space
  <2>2. Pages(pr.sz) <= Pages(pr.sz) /\ Pages(pr.sz) <= Pages(pr.sz + n)
    BY <1>4, <1>1, PagesMonotone
  <2> QED BY <1>5, <2>1, <2>2, Zenon DEF Progress, Resting
<1>8. Space(qr)
  BY <1>1, <1>2, <1>5, Zenon DEF Space, Life
<1>9. TypeOK' /\ Procs' /\ Children'
  <2>1. pr.st # "EMBRYO" /\ pr.child = None
    BY <1>1, <1>2, Zenon DEF Life, Resting
  <2> QED BY <1>1, <1>5, <1>6, <1>7, <1>8, <2>1, OneStep, Zenon DEF ProcOK
<1>10. PagesOwned'
  <2>1. pr.call # "sbrk" /\ pr.new = NoPgdir
    BY <1>1, <1>2, Zenon DEF Life, Progress, Resting
  <2>2. HeldBy(qr) = HeldBy(pr) /\ HeldOnce(qr)
    <3>1. PagesOf(NoPgdir) = {} /\ HeldOnce(pr)
      BY NoPgdirEmpty, HeldFacts, Zenon DEF IInv
    <3>2. OwnPages(qr) = {} /\ OwnPages(pr) = PagesOf(pr.pg) /\ StackPage(qr) = StackPage(pr)
      BY <1>5, <2>1, Zenon DEF OwnPages, StackPage
    <3>3. HeldBy(qr) = HeldBy(pr)
      BY <1>5, <2>1, <3>1, <3>2, Zenon DEF HeldBy
    <3>4. HeldOnce(qr)
      BY <1>5, <2>1, <3>1, <3>2, Zenon DEF HeldOnce
    <3> QED BY <3>3, <3>4, Zenon
  <2>3. \A r \in Proc : HeldBy(proc'[r]) = HeldBy(proc[r]) /\ HeldOnce(proc'[r])
    BY <1>5, <2>2, HeldFacts, Zenon DEF Only, IInv
  <2> QED BY <1>1, <2>3, Unmoved, Zenon DEF IInv
<1> QED BY <1>9, <1>10, Zenon DEF IInv

LEMMA SameHeld ==
  ASSUME NEW pr, NEW qr, qr.pg = pr.pg, qr.new = pr.new, qr.kstack = pr.kstack,
         qr.call = "sbrk" <=> pr.call = "sbrk"
  PROVE  HeldBy(qr) = HeldBy(pr) /\ (HeldOnce(qr) <=> HeldOnce(pr))
<1>1. OwnPages(qr) = OwnPages(pr) /\ StackPage(qr) = StackPage(pr)
  BY Zenon DEF OwnPages, StackPage
<1> QED BY <1>1, Zenon DEF HeldBy, HeldOnce

(* A step that leaves the memory alone. *)
LEMMA QuietStep ==
  ASSUME IInv, NEW p \in Proc, Only(p), proc' \in [Proc -> ProcType], ProcOK(proc'[p]),
         proc[p].st # "EMBRYO", proc'[p].child = proc[p].child,
         proc[p].child # None => (proc'[p].pc = "allocproc" <=> proc[p].pc = "allocproc"),
         npage' = npage, freelist' = freelist, leaked' = leaked,
         proc'[p].pg = proc[p].pg, proc'[p].new = proc[p].new, proc'[p].kstack = proc[p].kstack,
         proc'[p].call = "sbrk" <=> proc[p].call = "sbrk"
  PROVE  IInv'
<1>1. TypeOK' /\ Procs' /\ Children'
  BY OneStep, Zenon
<1>2. HeldBy(proc'[p]) = HeldBy(proc[p]) /\ (HeldOnce(proc'[p]) <=> HeldOnce(proc[p]))
  BY SameHeld, Zenon
<1>3. \A r \in Proc : HeldBy(proc'[r]) = HeldBy(proc[r]) /\ HeldOnce(proc'[r])
  BY <1>2, HeldFacts, Zenon DEF Only, IInv
<1>4. PagesOwned'
  BY <1>3, Unmoved, Zenon DEF IInv
<1> QED BY <1>1, <1>4, Zenon DEF IInv

LEMMA ExecStep == ASSUME IInv, NEW p \in Proc, Exec(p) PROVE IInv'
<1>. DEFINE pr == proc[p]
            qr == proc'[p]
<1>1. pr.pc = "user" /\ npage' = npage /\ freelist' = freelist /\ leaked' = leaked
  BY DEF Exec, Call, At
<1>2. pr \in ProcType /\ Life(pr) /\ Progress(pr) /\ Space(pr)
  BY ProcFacts, Zenon
<1>3. /\ proc' \in [Proc -> ProcType] /\ Only(p)
      /\ qr.st = pr.st /\ qr.kstack = pr.kstack /\ qr.pg = pr.pg /\ qr.sz = pr.sz /\ qr.child = pr.child
      /\ qr.pc = "setupkvm" /\ qr.call = "exec" /\ qr.new = pr.new /\ qr.a = pr.a /\ qr.hi = pr.hi
  BY <1>2 DEF IInv, TypeOK, Exec, ProcType, Only, Copying
<1>4. Life(qr)
  BY <1>1, <1>2, <1>3, Zenon DEF Life, Resting, Copying, Loading
<1>5. Progress(qr)
  BY <1>1, <1>2, <1>3, Zenon DEF Progress, Resting
<1>6. Space(qr)
  BY <1>1, <1>2, <1>3, Zenon DEF Space, Life
<1>7. pr.st # "EMBRYO" /\ pr.child = None /\ pr.call # "sbrk"
  BY <1>1, <1>2, Zenon DEF Life, Resting
<1> QED BY <1>1, <1>3, <1>4, <1>5, <1>6, <1>7, QuietStep, Zenon DEF ProcOK

(* growproc(n), n < 0 *)
LEMMA ShrinkStep == ASSUME Least, IInv, NEW p \in Proc, NEW n \in Sbrk, Shrink(p, n) PROVE IInv'
<1>. DEFINE pr == proc[p]
            qr == proc'[p]
            newsz == pr.sz + n
            D == Deallocated(pr.pg, newsz, pr.sz)
            new == Unmapped(pr.pg, newsz, pr.sz)
<1>1. /\ n \in Int /\ n < 0 /\ pr.pc = "user" /\ newsz >= 0 /\ npage' = npage
      /\ freelist' = freelist \cup D /\ leaked' = leaked
  BY MemoryAssumption DEF Shrink, Call, At
<1>2. /\ pr \in ProcType /\ Life(pr) /\ Progress(pr) /\ Space(pr) /\ pr.sz \in 0 .. KERNBASE
      /\ pr.pg \in PgdirType /\ HeldOnce(pr)
  BY ProcFacts, HeldFacts, Zenon DEF IInv
<1>3. KERNBASE \in Nat /\ NUPAGES \in Nat
  BY PagesBounds, Geometry, Zenon
<1>4. newsz \in 0 .. KERNBASE /\ newsz \in Nat /\ pr.sz \in Nat /\ newsz <= pr.sz
  BY <1>1, <1>2, <1>3
<1>5. /\ new \in PgdirType /\ OncePgdir(new) /\ Tabled(new)
      /\ PagesOf(new) = PagesOf(pr.pg) \ D /\ D \subseteq PagesOf(pr.pg)
  BY <1>2, <1>4, UnmappedIs, Zenon DEF Space, HeldOnce
<1>6. Covers(new, Pages(newsz))
  <2>1. Pages(newsz) \in Nat /\ Pages(pr.sz) \in Nat /\ Pages(newsz) <= Pages(pr.sz)
    BY <1>4, PagesAre, PagesMonotone, Zenon
  <2>2. Pages(pr.sz) \in Pages(newsz) .. Pages(pr.sz)
    BY <2>1
  <2>3. Covers(pr.pg, Pages(pr.sz)) /\ Tabled(pr.pg)
    BY <1>1, <1>2, Zenon DEF Life, Space
  <2> QED BY <1>2, <1>4, <2>2, <2>3, UnmappedCovers, Zenon
<1>. HIDE DEF new, D
<1>7. /\ proc' = [proc EXCEPT ![p].pg = new, ![p].sz = IF newsz = 0 THEN @ ELSE newsz,
                              ![p].pc = IF newsz = 0 THEN "fault" ELSE @]
  BY Zenon DEF Shrink, new
<1>. HIDE DEF newsz
<1>8. /\ proc' \in [Proc -> ProcType] /\ Only(p)
      /\ qr.st = pr.st /\ qr.kstack = pr.kstack /\ qr.pg = new /\ qr.child = pr.child
      /\ qr.call = pr.call /\ qr.new = pr.new /\ qr.a = pr.a /\ qr.hi = pr.hi
      /\ qr.pc = (IF newsz = 0 THEN "fault" ELSE "user") /\ (newsz # 0 => qr.sz = newsz)
  BY <1>1, <1>2, <1>4, <1>5, <1>7 DEF IInv, TypeOK, ProcType, Only, Resting
<1>9. qr.pc \in {"user", "fault"} /\ (newsz = 0 => qr.pc = "fault")
  BY <1>8, Zenon
<1>10. Life(qr)
  BY <1>1, <1>2, <1>8, <1>9, Zenon DEF Life, Resting, Copying, Loading
<1>11. Progress(qr)
  BY <1>1, <1>2, <1>8, <1>9, Zenon DEF Progress, Resting
<1>12. Space(qr)
  BY <1>2, <1>5, <1>6, <1>8, <1>9, Zenon DEF Space
<1>13. pr.st # "EMBRYO" /\ pr.child = None /\ pr.call # "sbrk" /\ pr.new = NoPgdir
  BY <1>1, <1>2, Zenon DEF Life, Progress, Resting
<1>14. TypeOK' /\ Procs' /\ Children'
  BY <1>1, <1>8, <1>10, <1>11, <1>12, <1>13, OneStep, Zenon DEF ProcOK
<1>15. PagesOwned'
  <2>1. OwnPages(pr) = PagesOf(pr.pg) /\ OwnPages(qr) = PagesOf(new) /\ StackPage(qr) = StackPage(pr)
    BY <1>8, <1>13, Zenon DEF OwnPages, StackPage
  <2>2. PagesOf(pr.new) = {} /\ PagesOf(qr.new) = {} /\ OncePgdir(qr.new)
    BY <1>8, <1>13, NoPgdirEmpty, Zenon
  <2>3. \A m : m \in StackPage(pr) => m \notin PagesOf(pr.pg)
    BY <1>2, <2>1, Zenon DEF HeldOnce
  <2>4. \A m : m \in HeldBy(pr) <=> m \in PagesOf(pr.pg) \/ m \in StackPage(pr)
    BY <2>1, <2>2, Zenon DEF HeldBy
  <2>5. \A m : m \in HeldBy(qr) <=> m \in PagesOf(new) \/ m \in StackPage(pr)
    BY <2>1, <2>2, Zenon DEF HeldBy
  <2>6. \A m : m \in HeldBy(qr) <=> m \in HeldBy(pr) /\ m \notin D
    BY <1>5, <2>3, <2>4, <2>5, Zenon
  <2>7. HeldOnce(qr)
    BY <1>5, <1>8, <2>1, <2>2, <2>3, Zenon DEF HeldOnce
  <2>8. \A m \in D : m \in HeldBy(pr)
    BY <1>5, <2>4, Zenon
  <2>9. \A m : m \in freelist' <=> m \in freelist \/ m \in D
    BY <1>1, Zenon
  <2> QED BY <1>1, <1>8, <2>6, <2>7, <2>8, <2>9, ReturnedBy, Zenon DEF IInv
<1> QED BY <1>14, <1>15, Zenon DEF IInv

-----------------------------------------------------------------------------
(* The free list *)

LEMMA MinIn ==
  ASSUME Least, NEW S \in SUBSET Nat, S # {}
  PROVE  Min(S) \in S
<1>1. \E x \in S : \A y \in S : x <= y
  BY Zenon DEF Least
<1> QED BY <1>1, Zenon DEF Min

LEMMA FreePage ==
  ASSUME IInv, NEW m \in freelist
  PROVE  m \in Nat /\ m # None /\ \A p \in Proc : m \notin HeldBy(proc[p])
<1>1. m \in Page
  BY Zenon DEF IInv, PagesOwned
<1>2. m \in Nat /\ m # None
  BY <1>1 DEF IInv, TypeOK, Page, None
<1> QED BY <1>2, HeldFacts, Zenon DEF IInv

LEMMA Kalloc ==
  ASSUME Least, IInv, ~NoMemory
  PROVE  kalloc \in freelist
<1>1. freelist \in SUBSET Nat
  BY FreePage, Zenon
<1> QED BY <1>1, MinIn, Zenon DEF NoMemory, kalloc

-----------------------------------------------------------------------------
(* Slots without a process *)

LEMMA UnusedFields ==
  /\ UnusedProc \in ProcType /\ UnusedProc.st = "UNUSED" /\ UnusedProc.kstack = None
  /\ UnusedProc.pg = NoPgdir /\ UnusedProc.new = NoPgdir /\ UnusedProc.pc = "none"
  /\ UnusedProc.call = "none" /\ UnusedProc.child = None /\ UnusedProc.a = 0 /\ UnusedProc.hi = 0
<1>1. NoPgdir \in PgdirType /\ 0 \in 0 .. KERNBASE
  BY NoPgdirIs, PagesBounds
<1>2. UnusedProc \in ProcType
  BY <1>1 DEF UnusedProc, ProcType, SegType, NoSegment, None, Resting
<1> QED BY <1>2 DEF UnusedProc

LEMMA UnusedIs == ProcOK(UnusedProc) /\ HeldBy(UnusedProc) = {} /\ HeldOnce(UnusedProc)
<1>1. Life(UnusedProc) /\ Progress(UnusedProc) /\ Space(UnusedProc)
  BY UnusedFields, NoPgdirEmpty, Zenon DEF Life, Progress, Space, Resting, Copying, Loading
<1>2. OwnPages(UnusedProc) = {} /\ PagesOf(UnusedProc.new) = {} /\ StackPage(UnusedProc) = {}
  BY UnusedFields, NoPgdirEmpty, Zenon DEF OwnPages, StackPage
<1>3. HeldBy(UnusedProc) = {}
  BY <1>2, Zenon DEF HeldBy
<1>4. HeldOnce(UnusedProc)
  BY <1>2, UnusedFields, NoPgdirEmpty, Zenon DEF HeldOnce
<1> QED BY <1>1, <1>3, <1>4, Zenon DEF ProcOK

Embryo(k) == [UnusedProc EXCEPT !.st = "EMBRYO", !.kstack = k]

LEMMA EmbryoIs ==
  ASSUME NEW k \in Nat
  PROVE  /\ Embryo(k) \in ProcType /\ ProcOK(Embryo(k)) /\ HeldOnce(Embryo(k))
         /\ HeldBy(Embryo(k)) = {k} \ {None}
         /\ Embryo(k).st = "EMBRYO" /\ Embryo(k).kstack = k /\ Embryo(k).child = None
<1>. DEFINE r == Embryo(k)
<1>1. /\ r \in ProcType /\ r.st = "EMBRYO" /\ r.kstack = k /\ r.pg = NoPgdir /\ r.new = NoPgdir
      /\ r.pc = "none" /\ r.call = "none" /\ r.child = None /\ r.a = 0 /\ r.hi = 0
  BY UnusedFields DEF Embryo, ProcType
<1>2. r = [UnusedProc EXCEPT !.st = "EMBRYO", !.kstack = r.kstack]
  BY <1>1, Zenon DEF Embryo
<1>. HIDE DEF r
<1>3. Life(r)
  BY <1>1, <1>2, Zenon DEF Life, Resting, Copying, Loading
<1>4. Progress(r)
  BY <1>1, Zenon DEF Progress, Resting
<1>5. Space(r)
  BY <1>1, NoPgdirEmpty, Zenon DEF Space
<1>6. OwnPages(r) = {} /\ PagesOf(r.new) = {} /\ StackPage(r) = {k} \ {None}
  BY <1>1, NoPgdirEmpty, Zenon DEF OwnPages, StackPage
<1>7. HeldBy(r) = {k} \ {None}
  BY <1>6, Zenon DEF HeldBy
<1>8. HeldOnce(r)
  BY <1>1, <1>6, NoPgdirEmpty, Zenon DEF HeldOnce
<1> QED BY <1>1, <1>3, <1>4, <1>5, <1>7, <1>8, Zenon DEF ProcOK, r

(* A process that is not running has no child in the making, and the slot   *)
(* of one is an embryo.                                                     *)
LEMMA ChildFacts ==
  ASSUME IInv, NEW p \in Proc, proc[p].child # None
  PROVE  LET q == proc[p].child IN
         /\ q \in Proc /\ q # p /\ proc[q] = Embryo(proc[q].kstack) /\ proc[q].kstack \in Nat
         /\ proc[q].st = "EMBRYO" /\ proc[q].child = None
         /\ proc[q].kstack = None <=> proc[p].pc = "allocproc"
         /\ \A r \in Proc : r # p => proc[r].child # q
<1>. DEFINE q == proc[p].child
<1>1. q \in Proc /\ Life(proc[p])
  BY ProcFacts, Zenon
<1>2. proc[q].st = "EMBRYO" /\ (proc[q].kstack = None <=> proc[p].pc = "allocproc")
  BY Zenon DEF IInv, Children
<1>3. Life(proc[q]) /\ proc[q].kstack \in Nat
  BY <1>1, ProcFacts, Zenon
<1>4. proc[q] = Embryo(proc[q].kstack)
  BY <1>2, <1>3, Zenon DEF Life, Embryo
<1>5. proc[q].child = None
  BY <1>3, <1>4, EmbryoIs, Zenon
<1>6. q # p
  BY <1>5, Zenon
<1>7. \A r \in Proc : r # p => proc[r].child # q
  BY Zenon DEF IInv, Children
<1> QED BY <1>1, <1>2, <1>3, <1>4, <1>5, <1>6, <1>7, Zenon

(* A step that changes p and the slot q of its child. *)
LEMMA TwoStep ==
  ASSUME IInv, npage' = npage, NEW p \in Proc, NEW q \in Proc, p # q,
         \A r \in Proc : r # p /\ r # q => proc'[r] = proc[r],
         proc' \in [Proc -> ProcType], ProcOK(proc'[p]), ProcOK(proc'[q]),
         proc[p].st # "EMBRYO", \A r \in Proc : r # p => proc[r].child # q,
         proc'[q].child = None,
         proc'[p].child # None =>
            proc'[p].child = q /\ proc'[q].st = "EMBRYO"
            /\ (proc'[q].kstack = None <=> proc'[p].pc = "allocproc")
  PROVE  TypeOK' /\ Procs' /\ Children'
<1>1. TypeOK'
  BY Zenon DEF IInv, TypeOK
<1>2. Procs'
  BY Zenon DEF IInv, Procs
<1>3. ASSUME NEW r \in Proc, r # p, proc'[r].child # None
      PROVE  /\ r # q /\ proc'[r] = proc[r] /\ proc[r].child # q
             /\ proc'[proc'[r].child].st = "EMBRYO"
             /\ proc'[proc'[r].child].kstack = None <=> proc'[r].pc = "allocproc"
  <2>1. r # q /\ proc'[r] = proc[r]
    BY <1>3, Zenon
  <2>2. /\ proc[r].child \in Proc /\ proc[proc[r].child].st = "EMBRYO"
        /\ proc[proc[r].child].kstack = None <=> proc[r].pc = "allocproc"
    <3>1. proc[r].child # None
      BY <1>3, <2>1, Zenon
    <3> QED BY <3>1, ChildFacts
  <2>3. proc[r].child # q /\ proc[r].child # p
    BY <1>3, <2>2, Zenon
  <2>4. proc'[proc[r].child] = proc[proc[r].child]
    BY <2>2, <2>3, Zenon
  <2> QED BY <2>1, <2>2, <2>3, <2>4, Zenon
<1>4. ASSUME NEW r \in Proc, NEW s \in Proc, proc'[r].child = proc'[s].child, proc'[r].child # None
      PROVE  r = s
  <2>1. CASE r # p /\ s # p
    <3>1. proc'[s].child # None
      BY <1>4, Zenon
    <3>2. proc'[r] = proc[r] /\ proc'[s] = proc[s]
      BY <1>3, <1>4, <2>1, <3>1, Zenon
    <3>3. proc[r].child = proc[s].child /\ proc[r].child # None
      BY <1>4, <3>2, Zenon
    <3> QED BY <3>3, Zenon DEF IInv, Children
  <2>2. CASE r = p /\ s # p
    <3>1. proc'[s].child # q
      BY <1>3, <1>4, <2>2, Zenon
    <3> QED BY <1>4, <2>2, <3>1, Zenon
  <2>3. CASE r # p /\ s = p
    <3>1. proc'[r].child # q
      BY <1>3, <1>4, <2>3, Zenon
    <3> QED BY <1>4, <2>3, <3>1, Zenon
  <2> QED BY <2>1, <2>2, <2>3, Zenon
<1>5. Children'
  <2>1. ASSUME NEW r \in Proc, proc'[r].child # None
        PROVE  /\ proc'[proc'[r].child].st = "EMBRYO"
               /\ proc'[proc'[r].child].kstack = None <=> proc'[r].pc = "allocproc"
    BY <1>3, <2>1, Zenon
  <2> QED BY <1>4, <2>1, Zenon DEF Children
<1> QED BY <1>1, <1>2, <1>5, Zenon

(* allocproc(): the slot, then its kernel stack. *)
LEMMA EmbryoSteps ==
  /\ [UnusedProc EXCEPT !.st = "EMBRYO"] = Embryo(None)
  /\ \A k \in Nat : [Embryo(None) EXCEPT !.kstack = k] = Embryo(k)
<1>1. [UnusedProc EXCEPT !.st = "EMBRYO"] = Embryo(None)
  <2>. DEFINE r == [st |-> "EMBRYO", kstack |-> None, pg |-> NoPgdir, sz |-> 0,
                    pc |-> "none", new |-> NoPgdir, a |-> 0, old |-> 0, hi |-> 0,
                    seg |-> NoSegment, call |-> "none", child |-> None, parent |-> None]
  <2>1. [UnusedProc EXCEPT !.st = "EMBRYO"] = r
    BY DEF UnusedProc
  <2>2. Embryo(None) = r
    <3>1. Embryo(None) = [[UnusedProc EXCEPT !.st = "EMBRYO"] EXCEPT !.kstack = None]
      BY DEF Embryo
    <3>2. [r EXCEPT !.kstack = None] = r
      OBVIOUS
    <3> QED BY <2>1, <3>1, <3>2, Zenon
  <2> QED BY <2>1, <2>2, Zenon
<1>2. ASSUME NEW k \in Nat PROVE [Embryo(None) EXCEPT !.kstack = k] = Embryo(k)
  BY Zenon DEF UnusedProc, Embryo
<1> QED BY <1>1, <1>2, Zenon

LEMMA ForkStep == ASSUME IInv, NEW p \in Proc, Fork(p) PROVE IInv'
<1>. DEFINE pr == proc[p]
            qr == proc'[p]
<1>1. PICK q \in Proc :
        /\ proc[q].st = "UNUSED"
        /\ proc' = [proc EXCEPT ![q].st = "EMBRYO", ![p].pc = "allocproc",
                                ![p].call = "fork", ![p].child = q]
  BY Zenon DEF Fork
<1>2. pr.pc = "user" /\ npage' = npage /\ freelist' = freelist /\ leaked' = leaked
  BY DEF Fork, Call, At
<1>3. pr \in ProcType /\ Life(pr) /\ Progress(pr) /\ Space(pr) /\ pr.st = "RUNNABLE"
  BY <1>2, ProcFacts, Zenon DEF Life
<1>4. proc[q] = UnusedProc /\ p # q
  BY <1>1, <1>3, ProcFacts, Zenon DEF Life
<1>15. p # q /\ proc[q] \in ProcType
  BY <1>4, ProcFacts, Zenon
<1>5. /\ proc'[q] = [proc[q] EXCEPT !.st = "EMBRYO"] /\ proc' \in [Proc -> ProcType]
      /\ \A r \in Proc : r # p /\ r # q => proc'[r] = proc[r]
      /\ qr.st = pr.st /\ qr.kstack = pr.kstack /\ qr.pg = pr.pg /\ qr.sz = pr.sz /\ qr.child = q
      /\ qr.pc = "allocproc" /\ qr.call = "fork" /\ qr.new = pr.new /\ qr.a = pr.a /\ qr.hi = pr.hi
  <2>1. /\ [pr EXCEPT !.pc = "allocproc", !.call = "fork", !.child = q] \in ProcType
        /\ [proc[q] EXCEPT !.st = "EMBRYO"] \in ProcType
    <3>1. [pr EXCEPT !.pc = "allocproc", !.call = "fork", !.child = q] \in ProcType
      BY <1>3 DEF ProcType
    <3>2. [proc[q] EXCEPT !.st = "EMBRYO"] \in ProcType
      BY <1>15 DEF ProcType
    <3> QED BY <3>1, <3>2, Zenon
  <2>2. qr = [pr EXCEPT !.pc = "allocproc", !.call = "fork", !.child = q]
    BY <1>1, <1>15 DEF IInv, TypeOK
  <2>3. /\ proc'[q] = [proc[q] EXCEPT !.st = "EMBRYO"]
        /\ \A r \in Proc : r # p /\ r # q => proc'[r] = proc[r]
        /\ DOMAIN proc' = Proc
    BY <1>1, <1>15 DEF IInv, TypeOK
  <2>4. proc' \in [Proc -> ProcType]
    BY <1>1, <2>1, <2>2, <2>3 DEF IInv, TypeOK
  <2>5. /\ qr.st = pr.st /\ qr.kstack = pr.kstack /\ qr.pg = pr.pg /\ qr.sz = pr.sz /\ qr.child = q
        /\ qr.pc = "allocproc" /\ qr.call = "fork" /\ qr.new = pr.new /\ qr.a = pr.a /\ qr.hi = pr.hi
    BY <1>3, <2>2 DEF ProcType
  <2> QED BY <2>3, <2>4, <2>5, Zenon
<1>6. proc'[q] = Embryo(None)
  BY <1>4, <1>5, EmbryoSteps, Zenon
<1>7. q # None /\ None \in Nat
  BY MemoryAssumption DEF None
<1>8. Life(qr)
  BY <1>2, <1>3, <1>5, <1>7, Zenon DEF Life, Resting, Copying, Loading
<1>9. Progress(qr)
  BY <1>2, <1>3, <1>5, Zenon DEF Progress, Resting
<1>10. Space(qr)
  BY <1>2, <1>3, <1>5, Zenon DEF Space
<1>11. /\ ProcOK(proc'[q]) /\ proc'[q].child = None /\ proc'[q].st = "EMBRYO" /\ proc'[q].kstack = None
       /\ HeldOnce(proc'[q]) /\ HeldBy(proc'[q]) = {}
  <2>1. {None} \ {None} = {}
    BY Zenon
  <2> QED BY <1>6, <1>7, <2>1, EmbryoIs, Zenon
<1>12. \A r \in Proc : r # p => proc[r].child # q
  BY <1>1, <1>7, ChildFacts, Zenon
<1>13. TypeOK' /\ Procs' /\ Children'
  <2>1. ProcOK(qr)
    BY <1>8, <1>9, <1>10, Zenon DEF ProcOK
  <2>2. proc'[q].kstack = None <=> qr.pc = "allocproc"
    BY <1>5, <1>11, Zenon
  <2>3. qr.child = q /\ proc' \in [Proc -> ProcType] /\ \A r \in Proc : r # p /\ r # q => proc'[r] = proc[r]
    BY <1>5, Zenon
  <2>4. pr.st # "EMBRYO" /\ npage' = npage /\ p # q
    BY <1>2, <1>3, <1>4, Zenon
  <2>5. ProcOK(proc'[q]) /\ proc'[q].child = None /\ proc'[q].st = "EMBRYO"
    BY <1>11, Zenon
  <2> QED BY <1>12, <2>1, <2>2, <2>3, <2>4, <2>5, TwoStep, Zenon
<1>14. PagesOwned'
  <2>1. pr.call # "sbrk"
    BY <1>2, <1>3, Zenon DEF Life, Resting
  <2>2. HeldBy(qr) = HeldBy(pr) /\ HeldOnce(qr)
    BY <1>5, <2>1, SameHeld, HeldFacts, Zenon DEF IInv
  <2>3. HeldBy(proc'[q]) = HeldBy(proc[q]) /\ HeldOnce(proc'[q])
    BY <1>4, <1>11, UnusedIs, Zenon
  <2>4. \A r \in Proc : HeldBy(proc'[r]) = HeldBy(proc[r]) /\ HeldOnce(proc'[r])
    BY <1>5, <2>2, <2>3, HeldFacts, Zenon DEF IInv
  <2> QED BY <1>2, <2>4, Unmoved, Zenon DEF IInv
<1> QED BY <1>13, <1>14, Zenon DEF IInv

(* q takes the pages X from the free list in a step that changes p too. *)
LEMMA TakenFor ==
  ASSUME PagesOwned, npage' = npage, leaked' = leaked, NEW p \in Proc, NEW q \in Proc, p # q,
         \A r \in Proc : r # p /\ r # q => proc'[r] = proc[r], NEW m \in freelist,
         freelist' = freelist \ {m}, HeldBy(proc'[p]) = HeldBy(proc[p]), HeldOnce(proc'[p]),
         HeldBy(proc'[q]) = HeldBy(proc[q]) \cup {m}, HeldOnce(proc'[q])
  PROVE  PagesOwned'
<1>1. /\ \A k : k \in freelist \/ k \in leaked => k \notin HeldBy(proc[p]) /\ k \notin HeldBy(proc[q])
      /\ \A k : ~(k \in freelist /\ k \in leaked)
      /\ \A k : ~(k \in HeldBy(proc[p]) /\ k \in HeldBy(proc[q]))
  BY HeldFacts, Zenon
<1>2. \A r \in Proc : r # p /\ r # q => HeldBy(proc'[r]) = HeldBy(proc[r]) /\ HeldOnce(proc'[r])
  BY HeldFacts, Zenon
<1>3. /\ \A k : k \in freelist' <=> k \in freelist /\ k # m
      /\ \A k : k \in HeldBy(proc'[q]) <=> k \in HeldBy(proc[q]) \/ k = m
  BY Zenon
<1>4. \A k : ~(k \in freelist' /\ k \in leaked')
  BY <1>1, <1>3, Zenon
<1>5. \A k : k \in freelist' \/ k \in leaked' => k \notin HeldBy(proc'[p]) /\ k \notin HeldBy(proc'[q])
  BY <1>1, <1>3, Zenon
<1>6. \A k : k \in freelist' \/ k \in leaked' \/ k \in HeldBy(proc'[p]) \/ k \in HeldBy(proc'[q])
            <=> k \in freelist \/ k \in leaked \/ k \in HeldBy(proc[p]) \/ k \in HeldBy(proc[q])
  BY <1>3, Zenon
<1>7. \A k : ~(k \in HeldBy(proc'[p]) /\ k \in HeldBy(proc'[q]))
  BY <1>1, <1>3, Zenon
<1> QED BY <1>2, <1>4, <1>5, <1>6, <1>7, Conserved, Zenon

LEMMA AllocprocStep == ASSUME Least, IInv, NEW p \in Proc, Allocproc(p) PROVE IInv'
<1>. DEFINE pr == proc[p]
            qr == proc'[p]
<1>1. pr.pc = "allocproc" /\ npage' = npage /\ leaked' = leaked
  BY DEF Allocproc, At
<1>2. pr \in ProcType /\ Life(pr) /\ Progress(pr) /\ Space(pr) /\ pr.st = "RUNNABLE" /\ pr.child # None
      /\ pr.call = "fork"
  BY <1>1, ProcFacts, Zenon DEF Life
<1>3. PICK q \in Proc : q = pr.child
  BY <1>2, ChildFacts, Zenon
<1>4. /\ p # q /\ proc[q] = Embryo(proc[q].kstack) /\ proc[q].kstack = None /\ None \in Nat
      /\ \A r \in Proc : r # p => proc[r].child # q
  <2>1. p # q /\ proc[q] = Embryo(proc[q].kstack) /\ \A r \in Proc : r # p => proc[r].child # q
    BY <1>2, <1>3, ChildFacts, Zenon
  <2>2. proc[q].kstack = None
    BY <1>1, <1>2, <1>3, Zenon DEF IInv, Children
  <2> QED BY <2>1, <2>2 DEF None
<1>5. proc[q].kstack = None => HeldBy(proc[q]) = {}
  <2>1. {None} \ {None} = {}
    BY Zenon
  <2> QED BY <1>4, <2>1, EmbryoIs, Zenon
<1>6. CASE NoMemory
  <2>1. /\ proc' = [proc EXCEPT ![q] = UnusedProc, ![p].pc = "user", ![p].child = None]
        /\ freelist' = freelist
    BY <1>3, <1>6, Zenon DEF Allocproc
  <2>2. /\ proc'[q] = UnusedProc /\ proc' \in [Proc -> ProcType]
        /\ \A r \in Proc : r # p /\ r # q => proc'[r] = proc[r]
        /\ qr.st = pr.st /\ qr.kstack = pr.kstack /\ qr.pg = pr.pg /\ qr.sz = pr.sz /\ qr.child = None
        /\ qr.pc = "user" /\ qr.call = pr.call /\ qr.new = pr.new /\ qr.a = pr.a /\ qr.hi = pr.hi
    BY <2>1, <1>2, <1>4, UnusedFields DEF IInv, TypeOK, ProcType, Resting
  <2>3. Life(qr)
    BY <1>2, <2>2, Zenon DEF Life, Resting, Copying, Loading
  <2>4. Progress(qr)
    BY <1>1, <1>2, <2>2, Zenon DEF Progress, Resting
  <2>5. Space(qr)
    BY <1>1, <1>2, <2>2, Zenon DEF Space
  <2>6. ProcOK(proc'[q]) /\ proc'[q].child = None /\ HeldOnce(proc'[q]) /\ HeldBy(proc'[q]) = {}
    BY <2>2, UnusedIs, UnusedFields, Zenon
  <2>7. TypeOK' /\ Procs' /\ Children'
    <3>1. ProcOK(qr)
      BY <2>3, <2>4, <2>5, Zenon DEF ProcOK
    <3>2. qr.child = None /\ pr.st # "EMBRYO" /\ proc' \in [Proc -> ProcType]
          /\ \A r \in Proc : r # p /\ r # q => proc'[r] = proc[r]
      BY <1>2, <2>2, Zenon
    <3>3. ProcOK(proc'[q]) /\ proc'[q].child = None /\ npage' = npage
      BY <1>1, <2>6, Zenon
    <3>4. p # q /\ \A r \in Proc : r # p => proc[r].child # q
      BY <1>4, Zenon
    <3> QED BY <3>1, <3>2, <3>3, <3>4, TwoStep, Zenon
  <2>8. HeldBy(qr) = HeldBy(pr) /\ HeldOnce(qr)
    <3>1. qr.pg = pr.pg /\ qr.new = pr.new /\ qr.kstack = pr.kstack /\ qr.call = pr.call
      BY <2>2, Zenon
    <3>2. HeldOnce(pr)
      BY HeldFacts, Zenon DEF IInv
    <3> QED BY <3>1, <3>2, SameHeld, Zenon
  <2>9. \A r \in Proc : HeldBy(proc'[r]) = HeldBy(proc[r]) /\ HeldOnce(proc'[r])
    BY <1>4, <1>5, <2>2, <2>6, <2>8, HeldFacts, Zenon DEF IInv
  <2>10. PagesOwned'
    BY <1>1, <2>1, <2>9, Unmoved, Zenon DEF IInv
  <2> QED BY <2>7, <2>10, Zenon DEF IInv
<1>7. CASE ~NoMemory
  <2>1. /\ proc' = [proc EXCEPT ![q].kstack = kalloc, ![p].pc = "setupkvm"]
        /\ freelist' = freelist \ {kalloc}
    BY <1>3, <1>7, Zenon DEF Allocproc
  <2>2. PICK k \in freelist : k = kalloc
    BY <1>7, Kalloc, Zenon
  <2>3. k \in Nat /\ k # None
    BY FreePage, Zenon
  <2>4. /\ proc'[q] = [proc[q] EXCEPT !.kstack = k] /\ proc' \in [Proc -> ProcType]
        /\ \A r \in Proc : r # p /\ r # q => proc'[r] = proc[r]
        /\ qr.st = pr.st /\ qr.kstack = pr.kstack /\ qr.pg = pr.pg /\ qr.sz = pr.sz /\ qr.child = q
        /\ qr.pc = "setupkvm" /\ qr.call = pr.call /\ qr.new = pr.new /\ qr.a = pr.a /\ qr.hi = pr.hi
    <3>. DEFINE ar == [pr EXCEPT !.pc = "setupkvm"]
                br == [proc[q] EXCEPT !.kstack = k]
    <3>1. proc' = [proc EXCEPT ![q] = br, ![p] = ar]
      BY <1>4, <2>1, <2>2 DEF IInv, TypeOK
    <3>2. ar \in ProcType /\ br \in ProcType
      BY <1>2, <2>3 DEF IInv, TypeOK, ProcType, Copying
    <3>3. /\ ar.st = pr.st /\ ar.kstack = pr.kstack /\ ar.pg = pr.pg /\ ar.sz = pr.sz /\ ar.child = pr.child
          /\ ar.pc = "setupkvm" /\ ar.call = pr.call /\ ar.new = pr.new /\ ar.a = pr.a /\ ar.hi = pr.hi
      BY <1>2 DEF ProcType
    <3>. HIDE DEF ar, br
    <3>4. /\ proc' \in [Proc -> ProcType] /\ qr = ar /\ proc'[q] = br
          /\ \A r \in Proc : r # p /\ r # q => proc'[r] = proc[r]
      BY <1>4, <3>1, <3>2 DEF IInv, TypeOK
    <3> QED BY <1>3, <3>3, <3>4, Zenon DEF br
  <2>5. proc'[q] = Embryo(k)
    <3>1. proc'[q] = [Embryo(None) EXCEPT !.kstack = k]
      BY <1>4, <2>4, Zenon
    <3> QED BY <2>3, <3>1, EmbryoSteps, Zenon
  <2>6. Life(qr)
    <3>1. qr.pc = "setupkvm" /\ qr.call = "fork" /\ qr.st = "RUNNABLE" /\ qr.child # None
      BY <1>2, <1>3, <2>4, Zenon
    <3>2. qr.kstack # None
      BY <1>2, <2>4, Zenon DEF Life
    <3> QED BY <3>1, <3>2, Zenon DEF Life, Resting, Copying, Loading
  <2>7. Progress(qr)
    BY <1>1, <1>2, <2>4, Zenon DEF Progress, Resting
  <2>8. Space(qr)
    BY <1>1, <1>2, <2>4, Zenon DEF Space
  <2>9. /\ ProcOK(proc'[q]) /\ proc'[q].child = None /\ HeldOnce(proc'[q]) /\ HeldBy(proc'[q]) = {k}
        /\ proc'[q].st = "EMBRYO" /\ proc'[q].kstack # None
    <3>1. {k} \ {None} = {k}
      BY <2>3, Zenon
    <3> QED BY <2>3, <2>5, <3>1, EmbryoIs, Zenon
  <2>10. TypeOK' /\ Procs' /\ Children'
    <3>1. ProcOK(qr)
      BY <2>6, <2>7, <2>8, Zenon DEF ProcOK
    <3>2. proc'[q].kstack = None <=> qr.pc = "allocproc"
      BY <2>4, <2>9, Zenon
    <3>3. qr.child = q /\ pr.st # "EMBRYO" /\ proc' \in [Proc -> ProcType]
          /\ \A r \in Proc : r # p /\ r # q => proc'[r] = proc[r]
      BY <1>2, <2>4, Zenon
    <3>4. ProcOK(proc'[q]) /\ proc'[q].child = None /\ proc'[q].st = "EMBRYO" /\ npage' = npage
      BY <1>1, <2>9, Zenon
    <3>5. p # q /\ \A r \in Proc : r # p => proc[r].child # q
      BY <1>4, Zenon
    <3> QED BY <3>1, <3>2, <3>3, <3>4, <3>5, TwoStep, Zenon
  <2>11. HeldBy(qr) = HeldBy(pr) /\ HeldOnce(qr)
    <3>1. qr.pg = pr.pg /\ qr.new = pr.new /\ qr.kstack = pr.kstack /\ qr.call = pr.call
      BY <2>4, Zenon
    <3>2. HeldOnce(pr)
      BY HeldFacts, Zenon DEF IInv
    <3> QED BY <3>1, <3>2, SameHeld, Zenon
  <2>12. HeldBy(proc'[q]) = HeldBy(proc[q]) \cup {k}
    BY <1>4, <1>5, <2>9, Zenon
  <2>13. PagesOwned'
    BY <1>1, <1>4, <2>1, <2>2, <2>4, <2>9, <2>11, <2>12, TakenFor, Zenon DEF IInv
  <2> QED BY <2>10, <2>13, Zenon DEF IInv
<1> QED BY <1>6, <1>7, Zenon

-----------------------------------------------------------------------------
(* Back in user mode *)

IsBack(g, f, p) ==
  /\ g \in [Proc -> ProcType]
  /\ g[p].st = f[p].st /\ g[p].kstack = f[p].kstack /\ g[p].pg = f[p].pg /\ g[p].sz = f[p].sz
  /\ g[p].pc = "user" /\ g[p].call = "none" /\ g[p].new = NoPgdir /\ g[p].child = None
  /\ g[p].a = 0 /\ g[p].hi = 0
  /\ \A r \in Proc : r # p /\ r # f[p].child => g[r] = f[r]
  /\ \A r \in Proc : r # p /\ r = f[p].child => g[r] = UnusedProc

LEMMA BackIs ==
  ASSUME NEW f \in [Proc -> ProcType], NEW p \in Proc
  PROVE  IsBack(Back(f, p), f, p)
<1>. DEFINE me == [f[p] EXCEPT !.pc = "user", !.call = "none", !.new = NoPgdir, !.child = None,
                               !.a = 0, !.old = 0, !.hi = 0, !.seg = NoSegment]
<1>1. f[p] \in ProcType /\ NoPgdir \in PgdirType /\ 0 \in 0 .. KERNBASE /\ NoSegment \in SegType
  BY NoPgdirIs, PagesBounds DEF NoSegment, SegType
<1>2. /\ me \in ProcType
      /\ me.st = f[p].st /\ me.kstack = f[p].kstack /\ me.pg = f[p].pg /\ me.sz = f[p].sz
      /\ me.pc = "user" /\ me.call = "none" /\ me.new = NoPgdir /\ me.child = None
      /\ me.a = 0 /\ me.hi = 0
  BY <1>1 DEF ProcType, Resting
<1>3. Back(f, p) = [r \in Proc |-> IF r = p THEN me ELSE IF r = f[p].child THEN UnusedProc ELSE f[r]]
  BY DEF Back
<1>. HIDE DEF me
<1>4. Back(f, p) \in [Proc -> ProcType]
  BY <1>2, <1>3, UnusedFields
<1>5. Back(f, p)[p] = me
  BY <1>3
<1>6. /\ \A r \in Proc : r # p /\ r # f[p].child => Back(f, p)[r] = f[r]
      /\ \A r \in Proc : r # p /\ r = f[p].child => Back(f, p)[r] = UnusedProc
  BY <1>3
<1> QED BY <1>2, <1>4, <1>5, <1>6, Zenon DEF IsBack

LEMMA UserIs ==
  ASSUME NEW r, r.st = "RUNNABLE", r.kstack # None, r.pc = "user", r.call = "none",
         r.new = NoPgdir, r.child = None, r.a = 0, r.hi = 0, Tabled(r.pg),
         Covers(r.pg, Pages(r.sz)), OncePgdir(r.pg), r.kstack \notin PagesOf(r.pg)
  PROVE  /\ ProcOK(r) /\ HeldOnce(r)
         /\ \A m : m \in HeldBy(r) <=> m \in PagesOf(r.pg) \/ m = r.kstack
<1>1. Life(r)
  BY Zenon DEF Life, Resting, Copying, Loading
<1>2. Progress(r)
  BY Zenon DEF Progress, Resting
<1>3. Space(r)
  BY NoPgdirEmpty, Zenon DEF Space
<1>4. OwnPages(r) = PagesOf(r.pg) /\ PagesOf(r.new) = {} /\ OncePgdir(r.new) /\ StackPage(r) = {r.kstack}
  BY NoPgdirEmpty, Zenon DEF OwnPages, StackPage
<1>5. HeldOnce(r)
  BY <1>4, Zenon DEF HeldOnce
<1>6. \A m : m \in HeldBy(r) <=> m \in PagesOf(r.pg) \/ m = r.kstack
  BY <1>4, Zenon DEF HeldBy
<1> QED BY <1>1, <1>2, <1>3, <1>5, <1>6, Zenon DEF ProcOK

(* The pages of a process that is not in sbrk(). *)
LEMMA OwnFacts ==
  ASSUME PagesOwned, NEW p \in Proc, proc[p].call # "sbrk", proc[p].kstack # None
  PROVE  LET pr == proc[p] IN
         /\ OncePgdir(pr.pg) /\ OncePgdir(pr.new)
         /\ \A m : m \in HeldBy(pr) <=> m \in PagesOf(pr.pg) \/ m \in PagesOf(pr.new) \/ m = pr.kstack
         /\ \A m : ~(m \in PagesOf(pr.pg) /\ m \in PagesOf(pr.new))
         /\ pr.kstack \notin PagesOf(pr.pg) /\ pr.kstack \notin PagesOf(pr.new)
<1>. DEFINE pr == proc[p]
<1>1. OwnPages(pr) = PagesOf(pr.pg) /\ StackPage(pr) = {pr.kstack} /\ HeldOnce(pr)
  BY HeldFacts, Zenon DEF OwnPages, StackPage
<1>2. \A m : m \in HeldBy(pr) <=> m \in PagesOf(pr.pg) \/ m \in PagesOf(pr.new) \/ m = pr.kstack
  BY <1>1, Zenon DEF HeldBy
<1>3. \A m : ~(m \in PagesOf(pr.pg) /\ m \in PagesOf(pr.new))
  BY <1>1, Zenon DEF HeldOnce
<1>4. pr.kstack \notin PagesOf(pr.pg) /\ pr.kstack \notin PagesOf(pr.new)
  BY <1>1, Zenon DEF HeldOnce
<1> QED BY <1>1, <1>2, <1>3, <1>4, Zenon DEF HeldOnce

(* fork() and exec() fail.  The pages lost are free ones or of the new      *)
(* address space.                                                           *)
LEMMA BadStep ==
  ASSUME Least, IInv, NEW p \in Proc, proc[p].pc \in Copying \cup Loading, proc[p].call # "sbrk",
         NEW lost, \A m \in lost : m \in PagesOf(proc[p].new) \/ m \in freelist, Bad(p, lost)
  PROVE  IInv'
<1>. DEFINE pr == proc[p]
            qr == proc'[p]
<1>1. /\ Life(pr) /\ Space(pr) /\ pr.new \in PgdirType /\ pr.pc # "none" /\ pr.pc # "fault"
      /\ pr.pc # "allocproc"
  BY ProcFacts, Zenon DEF Copying, Loading
<1>2. /\ pr.st = "RUNNABLE" /\ pr.kstack # None /\ Tabled(pr.pg) /\ Tabled(pr.new)
      /\ Covers(pr.pg, Pages(pr.sz))
  BY <1>1, Zenon DEF Life, Space
<1>3. Freed(pr.new) = PagesOf(pr.new)
  BY <1>1, <1>2, FreedIs, Zenon
<1>4. IsBack(proc', proc, p)
  BY BackIs, Zenon DEF Bad, IInv, TypeOK
<1>5. /\ OncePgdir(pr.pg) /\ OncePgdir(pr.new)
      /\ \A m : m \in HeldBy(pr) <=> m \in PagesOf(pr.pg) \/ m \in PagesOf(pr.new) \/ m = pr.kstack
      /\ \A m : ~(m \in PagesOf(pr.pg) /\ m \in PagesOf(pr.new))
      /\ pr.kstack \notin PagesOf(pr.pg) /\ pr.kstack \notin PagesOf(pr.new)
  BY <1>2, OwnFacts, Zenon DEF IInv
<1>6. /\ proc' \in [Proc -> ProcType] /\ qr.child = None
      /\ \A r \in Proc : r # p /\ r # pr.child => proc'[r] = proc[r]
      /\ \A r \in Proc : r # p /\ r = pr.child => proc'[r] = UnusedProc
  BY <1>4, Zenon DEF IsBack
<1>7. /\ ProcOK(qr) /\ HeldOnce(qr)
      /\ \A m : m \in HeldBy(qr) <=> m \in PagesOf(pr.pg) \/ m = pr.kstack
  <2>1. qr.pg = pr.pg /\ qr.kstack = pr.kstack /\ qr.sz = pr.sz /\ qr.st = pr.st
    BY <1>4, Zenon DEF IsBack
  <2>2. /\ qr.pc = "user" /\ qr.call = "none" /\ qr.new = NoPgdir /\ qr.child = None
        /\ qr.a = 0 /\ qr.hi = 0
    BY <1>4, Zenon DEF IsBack
  <2>3. /\ ProcOK(qr) /\ HeldOnce(qr)
        /\ \A m : m \in HeldBy(qr) <=> m \in PagesOf(qr.pg) \/ m = qr.kstack
    BY <1>2, <1>5, <2>1, <2>2, UserIs, Zenon
  <2> QED BY <2>1, <2>3, Zenon
<1>8. \A m : m \in HeldBy(qr) <=> m \in HeldBy(pr) /\ m \notin PagesOf(pr.new)
  BY <1>5, <1>7, Zenon
<1>9. npage' = npage /\ leaked' = leaked \cup lost
  BY DEF Bad
<1>10. CASE pr.child = None
  <2>1. Only(p)
    BY <1>6, <1>10, MemoryAssumption, Zenon DEF Only
  <2>2. TypeOK' /\ Procs' /\ Children'
    BY <1>2, <1>6, <1>7, <1>9, <1>10, <2>1, OneStep, Zenon
  <2>3. freelist' = (freelist \cup PagesOf(pr.new) \cup {}) \ lost
    BY <1>3, <1>10, Zenon DEF Bad
  <2>4. \A m : m \in freelist' <=> (m \in freelist \/ m \in PagesOf(pr.new)) /\ m \notin lost
    BY <2>3, Zenon
  <2>5. \A m : m \in leaked' <=> m \in leaked \/ m \in lost
    BY <1>9, Zenon
  <2>6. \A m \in PagesOf(pr.new) : m \in HeldBy(pr)
    BY <1>5, Zenon
  <2>7. PagesOwned'
    BY <1>7, <1>8, <1>9, <2>1, <2>4, <2>5, <2>6, LostBy, Zenon DEF IInv
  <2> QED BY <2>2, <2>7, Zenon DEF IInv
<1>11. CASE pr.child # None
  <2>1. PICK q \in Proc : q = pr.child
    BY <1>11, ChildFacts, Zenon
  <2>. DEFINE k == proc[q].kstack
              X == PagesOf(pr.new) \cup {k}
  <2>2. /\ p # q /\ proc[q] = Embryo(k) /\ k \in Nat /\ k # None
        /\ \A r \in Proc : r # p => proc[r].child # q
    BY <1>1, <1>11, <2>1, ChildFacts, Zenon
  <2>3. proc'[q] = UnusedProc
    BY <1>6, <2>1, <2>2, Zenon
  <2>4. HeldBy(proc'[q]) = {} /\ HeldOnce(proc'[q]) /\ ProcOK(proc'[q]) /\ proc'[q].child = None
    BY <2>3, UnusedIs, UnusedFields, Zenon
  <2>5. TypeOK' /\ Procs' /\ Children'
    <3>1. pr.st # "EMBRYO" /\ qr.child = None /\ proc' \in [Proc -> ProcType] /\ ProcOK(qr) /\ p # q
      BY <1>2, <1>6, <1>7, <2>2, Zenon
    <3>2. \A r \in Proc : r # p /\ r # q => proc'[r] = proc[r]
      BY <1>6, <2>1, Zenon
    <3>3. \A r \in Proc : r # p => proc[r].child # q
      BY <2>2, Zenon
    <3>4. npage' = npage /\ ProcOK(proc'[q]) /\ proc'[q].child = None
      BY <1>9, <2>4, Zenon
    <3>5. proc'[p].child # None =>
             proc'[p].child = q /\ proc'[q].st = "EMBRYO"
             /\ (proc'[q].kstack = None <=> proc'[p].pc = "allocproc")
      BY <3>1, Zenon
    <3> QED BY <3>1, <3>2, <3>3, <3>4, <3>5, TwoStep, Zenon
  <2>6. HeldBy(proc[q]) = {k}
    <3>1. {k} \ {None} = {k}
      BY <2>2, Zenon
    <3> QED BY <2>2, <3>1, EmbryoIs, Zenon
  <2>7. freelist' = (freelist \cup PagesOf(pr.new) \cup {k}) \ lost
    BY <1>3, <1>11, <2>1, Zenon DEF Bad
  <2>8. k \notin HeldBy(pr)
    BY <2>2, <2>6, HeldFacts, Zenon DEF IInv
  <2>. HIDE DEF k
  <2>9. \A m : m \in X <=> m \in PagesOf(pr.new) \/ m = k
    BY Zenon
  <2>. HIDE DEF X
  <2>10. \A m : m \in freelist' <=> (m \in freelist \/ m \in X) /\ m \notin lost
    BY <2>7, <2>9, Zenon
  <2>11. \A m : m \in leaked' <=> m \in leaked \/ m \in lost
    BY <1>9, Zenon
  <2>12. \A m : m \in HeldBy(qr) <=> m \in HeldBy(pr) /\ m \notin X
    BY <1>8, <2>8, <2>9, Zenon
  <2>13. \A m : m \in HeldBy(proc'[q]) <=> m \in HeldBy(proc[q]) /\ m \notin X
    BY <2>4, <2>6, <2>9, Zenon
  <2>14. \A m \in X : m \in HeldBy(pr) \/ m \in HeldBy(proc[q])
    BY <1>5, <2>6, <2>9, Zenon
  <2>15. \A m \in lost : m \in X \/ m \in freelist
    BY <2>9, Zenon
  <2>16. \A r \in Proc : r # p /\ r # q => proc'[r] = proc[r]
    BY <1>6, <2>1, Zenon
  <2>17. PagesOwned'
    BY <1>7, <1>9, <2>4, <2>10, <2>11, <2>12, <2>13, <2>14, <2>15, <2>16, Returned, Zenon DEF IInv
  <2> QED BY <2>5, <2>17, Zenon DEF IInv
<1> QED BY <1>10, <1>11, Zenon

-----------------------------------------------------------------------------
(* Building an address space *)

(* p adds the free pages X to the new address space. *)
LEMMA TakeStep ==
  ASSUME IInv, NEW p \in Proc, Only(p), proc' \in [Proc -> ProcType], ProcOK(proc'[p]),
         proc[p].st # "EMBRYO", proc'[p].child = proc[p].child,
         proc[p].child # None => (proc'[p].pc = "allocproc" <=> proc[p].pc = "allocproc"),
         npage' = npage, leaked' = leaked, NEW X, \A m \in X : m \in freelist,
         \A m : m \in freelist' <=> m \in freelist /\ m \notin X,
         proc'[p].pg = proc[p].pg, proc'[p].kstack = proc[p].kstack, proc'[p].call = proc[p].call,
         OncePgdir(proc'[p].new),
         \A m : m \in PagesOf(proc'[p].new) <=> m \in PagesOf(proc[p].new) \/ m \in X
  PROVE  IInv'
<1>. DEFINE pr == proc[p]
            qr == proc'[p]
<1>1. TypeOK' /\ Procs' /\ Children'
  BY OneStep, Zenon
<1>2. OwnPages(qr) = OwnPages(pr) /\ StackPage(qr) = StackPage(pr)
  BY Zenon DEF OwnPages, StackPage
<1>3. \A m : m \in HeldBy(qr) <=> m \in HeldBy(pr) \/ m \in X
  BY <1>2, Zenon DEF HeldBy
<1>4. HeldOnce(pr) /\ \A m : m \in X => m \notin HeldBy(pr)
  BY HeldFacts, Zenon DEF IInv
<1>5. HeldOnce(qr)
  <2>1. \A m : m \in OwnPages(pr) \/ m \in StackPage(pr) => m \in HeldBy(pr)
    BY Zenon DEF HeldBy
  <2>2. /\ \A m : ~(m \in OwnPages(pr) /\ m \in PagesOf(pr.new))
        /\ \A m : ~(m \in StackPage(pr) /\ (m \in OwnPages(pr) \/ m \in PagesOf(pr.new)))
    BY <1>4, Zenon DEF HeldOnce
  <2>3. /\ \A m : ~(m \in OwnPages(pr) /\ m \in PagesOf(qr.new))
        /\ \A m : ~(m \in StackPage(pr) /\ (m \in OwnPages(pr) \/ m \in PagesOf(qr.new)))
    BY <1>4, <2>1, <2>2, Zenon
  <2>4. /\ OwnPages(qr) \cap PagesOf(qr.new) = {}
        /\ StackPage(qr) \cap (OwnPages(qr) \cup PagesOf(qr.new)) = {}
    BY <1>2, <2>3, Zenon
  <2> QED BY <1>4, <2>4, Zenon DEF HeldOnce
<1>6. PagesOwned'
  BY <1>3, <1>5, Taken, Zenon DEF IInv
<1> QED BY <1>1, <1>6, Zenon DEF IInv

LEMMA SetupkvmStep == ASSUME Least, IInv, NEW p \in Proc, Setupkvm(p) PROVE IInv'
<1>. DEFINE pr == proc[p]
            qr == proc'[p]
<1>1. pr.pc = "setupkvm"
  BY DEF Setupkvm, At
<1>2. pr \in ProcType /\ Life(pr) /\ Progress(pr) /\ Space(pr) /\ pr.new = NoPgdir /\ pr.call # "sbrk"
      /\ pr.st # "EMBRYO" /\ pr.a = 0 /\ pr.hi = 0
  BY <1>1, ProcFacts, Zenon DEF Life, Progress, Copying
<1>3. CASE NoMemory
  <2>1. Bad(p, {})
    BY <1>3, Zenon DEF Setupkvm
  <2>2. pr.pc \in Copying \cup Loading
    BY <1>1, Zenon DEF Copying
  <2> QED BY <1>2, <2>1, <2>2, BadStep, Zenon
<1>4. CASE ~NoMemory
  <2>1. PICK k \in freelist : k = kalloc
    BY <1>4, Kalloc, Zenon
  <2>2. k \in Nat /\ k # None
    BY FreePage, Zenon
  <2>3. /\ proc' = [proc EXCEPT ![p].new.dir = k, ![p].pc = "kmap"]
        /\ freelist' = freelist \ {k} /\ npage' = npage /\ leaked' = leaked
    BY <1>4, <2>1, Zenon DEF Setupkvm
  <2>. DEFINE new == [NoPgdir EXCEPT !.dir = k]
  <2>4. /\ new \in PgdirType /\ new.dir = k /\ new.kern = None /\ new.torn = {}
        /\ \A t \in 0 .. NPD - 1 : new.tab[t] = None
        /\ \A n \in Vpn : new.pte[n] = None
    BY <2>2, NoPgdirIs DEF PgdirType
  <2>5. new = [NoPgdir EXCEPT !.dir = new.dir]
    BY <2>4, Zenon
  <2>. HIDE DEF new
  <2>6. /\ proc' \in [Proc -> ProcType] /\ Only(p)
        /\ qr.st = pr.st /\ qr.kstack = pr.kstack /\ qr.pg = pr.pg /\ qr.sz = pr.sz /\ qr.child = pr.child
        /\ qr.pc = "kmap" /\ qr.call = pr.call /\ qr.new = new /\ qr.a = pr.a /\ qr.hi = pr.hi
    <3>. DEFINE ar == [pr EXCEPT !.new = new, !.pc = "kmap"]
    <3>1. proc' = [proc EXCEPT ![p] = ar]
      BY <1>2, <2>3 DEF new, IInv, TypeOK
    <3>2. ar \in ProcType
      BY <1>2, <2>4 DEF ProcType, Copying
    <3>3. /\ ar.st = pr.st /\ ar.kstack = pr.kstack /\ ar.pg = pr.pg /\ ar.sz = pr.sz /\ ar.child = pr.child
          /\ ar.pc = "kmap" /\ ar.call = pr.call /\ ar.new = new /\ ar.a = pr.a /\ ar.hi = pr.hi
      BY <1>2 DEF ProcType
    <3>. HIDE DEF ar
    <3>4. proc' \in [Proc -> ProcType] /\ Only(p) /\ qr = ar
      BY <3>1, <3>2 DEF IInv, TypeOK, Only
    <3> QED BY <3>3, <3>4, Zenon
  <2>7. Life(qr)
    BY <1>1, <1>2, <2>6, Zenon DEF Life, Resting, Copying, Loading
  <2>8. Progress(qr)
    BY <1>2, <2>2, <2>4, <2>5, <2>6, Zenon DEF Progress, Resting
  <2>9. PagesOf(new) = {new.dir, new.kern} \ {None} /\ OncePgdir(new) /\ Tabled(new)
    BY <2>2, <2>4, Fresh, Zenon
  <2>10. Space(qr)
    BY <1>1, <1>2, <2>6, <2>9, Zenon DEF Space
  <2>11. \A m : m \in PagesOf(qr.new) <=> m \in PagesOf(pr.new) \/ m \in {k}
    BY <1>2, <2>2, <2>4, <2>6, <2>9, NoPgdirEmpty, Zenon
  <2>12. \A m : m \in freelist' <=> m \in freelist /\ m \notin {k}
    BY <2>3, Zenon
  <2>13. \A m \in {k} : m \in freelist
    BY Zenon
  <2>14. ProcOK(qr) /\ OncePgdir(qr.new) /\ qr.pc # "allocproc" /\ pr.pc # "allocproc"
    BY <1>1, <2>6, <2>7, <2>8, <2>9, <2>10, Zenon DEF ProcOK
  <2> QED BY <1>2, <2>3, <2>6, <2>11, <2>12, <2>13, <2>14, TakeStep, Zenon
<1> QED BY <1>3, <1>4, Zenon

LEMMA KmapStep == ASSUME Least, IInv, NEW p \in Proc, Kmap(p) PROVE IInv'
<1>. DEFINE pr == proc[p]
            qr == proc'[p]
            d == pr.new.dir
<1>1. pr.pc = "kmap"
  BY DEF Kmap, At
<1>2. pr \in ProcType /\ Life(pr) /\ Progress(pr) /\ Space(pr) /\ pr.call # "sbrk"
      /\ pr.st = "RUNNABLE" /\ pr.a = 0 /\ pr.hi = 0 /\ pr.call \in {"fork", "exec"} /\ pr.kstack # None
  BY <1>1, ProcFacts, Zenon DEF Life, Progress, Copying
<1>3. pr.new = [NoPgdir EXCEPT !.dir = d] /\ d # None /\ d \in Nat /\ pr.new \in PgdirType
  BY <1>1, <1>2, ProcFacts DEF Progress, PgdirType
<1>4. /\ pr.new.kern = None /\ pr.new.torn = {}
      /\ \A t \in 0 .. NPD - 1 : pr.new.tab[t] = None
      /\ \A n \in Vpn : pr.new.pte[n] = None
  BY <1>3, NoPgdirIs DEF PgdirType
<1>5. PagesOf(pr.new) = {d}
  <2>1. PagesOf(pr.new) = {d, None} \ {None}
    BY <1>3, <1>4, Fresh, Zenon
  <2> QED BY <1>3, <2>1, Zenon
<1>6. CASE NoMemory
  <2>1. Bad(p, {d})
    BY <1>6, Zenon DEF Kmap
  <2>2. pr.pc \in Copying \cup Loading
    BY <1>1, Zenon DEF Copying
  <2>3. \A m \in {d} : m \in PagesOf(pr.new) \/ m \in freelist
    BY <1>5, Zenon
  <2>. HIDE DEF d
  <2> QED BY <1>2, <2>1, <2>2, <2>3, BadStep, Zenon
<1>7. CASE ~NoMemory
  <2>1. PICK k \in freelist : k = kalloc
    BY <1>7, Kalloc, Zenon
  <2>2. k \in Nat /\ k # None /\ k \notin HeldBy(pr)
    BY FreePage, Zenon
  <2>. DEFINE pc == IF pr.call = "fork" THEN "copyuvm" ELSE "segment"
              new == [pr.new EXCEPT !.kern = k]
  <2>3. /\ proc' = [proc EXCEPT ![p].new.kern = k, ![p].pc = pc]
        /\ freelist' = freelist \ {k} /\ npage' = npage /\ leaked' = leaked
    BY <1>7, <2>1, Zenon DEF Kmap
  <2>4. /\ new \in PgdirType /\ new.dir = d /\ new.kern = k /\ new.torn = {}
        /\ \A t \in 0 .. NPD - 1 : new.tab[t] = None
        /\ \A n \in Vpn : new.pte[n] = None
    BY <1>3, <1>4, <2>2 DEF PgdirType
  <2>5. pc \in {"copyuvm", "segment"} /\ (pc = "copyuvm" <=> pr.call = "fork")
    BY Zenon
  <2>. HIDE DEF new, pc
  <2>6. /\ proc' \in [Proc -> ProcType] /\ Only(p)
        /\ qr.st = pr.st /\ qr.kstack = pr.kstack /\ qr.pg = pr.pg /\ qr.sz = pr.sz /\ qr.child = pr.child
        /\ qr.pc = pc /\ qr.call = pr.call /\ qr.new = new /\ qr.a = pr.a /\ qr.hi = pr.hi
    <3>. DEFINE ar == [pr EXCEPT !.new = new, !.pc = pc]
    <3>1. proc' = [proc EXCEPT ![p] = ar]
      BY <1>2, <2>3 DEF new, IInv, TypeOK
    <3>2. pc \in Resting \cup {"allocproc"} \cup Copying \cup Loading
      BY <2>5 DEF Copying, Loading
    <3>3. ar \in ProcType
      BY <1>2, <2>4, <3>2 DEF ProcType
    <3>4. /\ ar.st = pr.st /\ ar.kstack = pr.kstack /\ ar.pg = pr.pg /\ ar.sz = pr.sz /\ ar.child = pr.child
          /\ ar.pc = pc /\ ar.call = pr.call /\ ar.new = new /\ ar.a = pr.a /\ ar.hi = pr.hi
      BY <1>2 DEF ProcType
    <3>. HIDE DEF ar
    <3>5. proc' \in [Proc -> ProcType] /\ Only(p) /\ qr = ar
      BY <3>1, <3>3 DEF IInv, TypeOK, Only
    <3> QED BY <3>4, <3>5, Zenon
  <2>7. Life(qr)
    BY <1>1, <1>2, <2>5, <2>6, Zenon DEF Life, Resting, Copying, Loading
  <2>8. d # k
    BY <1>2, <1>5, <2>2, OwnFacts, Zenon DEF IInv
  <2>9. PagesOf(new) = {d, k} \ {None} /\ OncePgdir(new) /\ Tabled(new) /\ Covers(new, 0)
    BY <2>4, <2>8, Fresh, Zenon
  <2>10. Progress(qr)
    <3>1. Pages(0) = 0 /\ 0 <= Pages(pr.sz)
      <4>1. Pages(pr.sz) \in 0 .. NUPAGES /\ NUPAGES \in Nat
        BY ProcFacts, PagesBounds, Geometry, Zenon
      <4>2. Pages(0) = 0
        BY PagesBounds, Zenon
      <4>3. 0 <= Pages(pr.sz)
        BY <4>1
      <4> QED BY <4>2, <4>3, Zenon
    <3>2. qr.new = new /\ qr.a = 0 /\ qr.hi = 0 /\ qr.sz = pr.sz
      BY <1>2, <2>6, Zenon
    <3>4. /\ qr.new.torn = {} /\ Covers(qr.new, qr.a) /\ Covers(qr.new, Pages(qr.hi))
          /\ qr.a <= Pages(qr.sz)
      BY <2>4, <2>9, <3>1, <3>2, Zenon
    <3>3. qr.pc = "copyuvm" \/ qr.pc = "segment"
      BY <2>5, <2>6, Zenon
    <3> QED BY <3>3, <3>4, Zenon DEF Progress, Resting
  <2>11. Space(qr)
    BY <1>1, <1>2, <2>6, <2>9, Zenon DEF Space
  <2>12. \A m : m \in PagesOf(qr.new) <=> m \in PagesOf(pr.new) \/ m \in {k}
    BY <1>3, <1>5, <2>2, <2>6, <2>9, Zenon
  <2>13. \A m : m \in freelist' <=> m \in freelist /\ m \notin {k}
    BY <2>3, Zenon
  <2>14. \A m \in {k} : m \in freelist
    BY Zenon
  <2>15. ProcOK(qr) /\ OncePgdir(qr.new) /\ qr.pc # "allocproc" /\ pr.pc # "allocproc" /\ pr.st # "EMBRYO"
    BY <1>1, <1>2, <2>5, <2>6, <2>7, <2>9, <2>10, <2>11, Zenon DEF ProcOK
  <2> QED BY <2>3, <2>6, <2>12, <2>13, <2>14, <2>15, TakeStep, Zenon
<1> QED BY <1>6, <1>7, Zenon

(* mappages() of the next page, in allocuvm() and in copyuvm() *)
LEMMA MapPageStep ==
  ASSUME Least, IInv, NEW p \in Proc, ~NoMemory, proc[p].pc \in {"allocuvm", "copyuvm"},
         proc[p].a \in Vpn, proc[p].new.pte[proc[p].a] = None,
         proc[p].pc = "allocuvm" => proc[p].a < Pages(proc[p].hi),
         proc[p].pc = "copyuvm" => proc[p].a < Pages(proc[p].sz), MapPage(p, proc[p].a)
  PROVE  IInv'
<1>. DEFINE pr == proc[p]
            qr == proc'[p]
            n == pr.a
            t == IF HasTable(pr.new, n) THEN None ELSE Min(freelist \ {kalloc})
            new == Mapped(pr.new, n, kalloc, t)
<1>1. /\ pr \in ProcType /\ Life(pr) /\ Progress(pr) /\ Space(pr) /\ pr.st = "RUNNABLE"
      /\ pr.new \in PgdirType /\ pr.a \in Nat /\ pr.sz \in 0 .. KERNBASE /\ pr.hi \in 0 .. KERNBASE
      /\ pr.old \in 0 .. KERNBASE
  BY ProcFacts, Zenon DEF Life
<1>2. PICK m \in freelist : m = kalloc
  BY Kalloc, Zenon
<1>3. /\ HasTable(pr.new, n) \/ freelist # {m}
      /\ proc' = [proc EXCEPT ![p].new = Mapped(@, n, m, t), ![p].a = @ + 1]
      /\ freelist' = freelist \ {m, t} /\ npage' = npage /\ leaked' = leaked
  BY <1>2, Zenon DEF MapPage
<1>4. m \in Nat /\ m # None /\ m \notin HeldBy(pr)
  BY FreePage, Zenon
<1>5. /\ t \in Nat /\ (HasTable(pr.new, n) => t = None)
      /\ ~HasTable(pr.new, n) => t # None /\ t # m /\ t \notin HeldBy(pr) /\ t \in freelist
  <2>1. CASE HasTable(pr.new, n)
    BY <2>1 DEF None
  <2>2. CASE ~HasTable(pr.new, n)
    <3>1. freelist \ {m} \in SUBSET Nat /\ freelist \ {m} # {}
      BY <1>3, <2>2, FreePage, Zenon
    <3>2. Min(freelist \ {m}) \in freelist \ {m}
      BY <3>1, MinIn, Zenon
    <3>3. t \in freelist \ {m}
      BY <1>2, <2>2, <3>2, Zenon
    <3>4. t \in freelist /\ t # m
      BY <3>3, Zenon
    <3>. HIDE DEF t
    <3> QED BY <2>2, <3>4, FreePage, Zenon
  <2> QED BY <2>1, <2>2, Zenon
<1>6. new = Mapped(pr.new, n, m, t)
  BY <1>2, Zenon
<1>. HIDE DEF t, new
<1>7. \A k : k \in PagesOf(pr.new) => k \in HeldBy(pr)
  BY Zenon DEF HeldBy
<1>8. OncePgdir(pr.new) /\ Tabled(pr.new) /\ Covers(pr.new, n)
  BY <1>1, HeldFacts, Zenon DEF IInv, HeldOnce, Space, Progress
<1>9. /\ PagesOf(new) = PagesOf(pr.new) \cup ({m, t} \ {None})
      /\ OncePgdir(new) /\ Tabled(new)
  <2>1. m \notin PagesOf(pr.new) /\ (~HasTable(pr.new, n) => t # None /\ t # m /\ t \notin PagesOf(pr.new))
    BY <1>4, <1>5, <1>7, Zenon
  <2>2. /\ PagesOf(Mapped(pr.new, n, m, t)) = PagesOf(pr.new) \cup ({m, t} \ {None})
        /\ OncePgdir(Mapped(pr.new, n, m, t)) /\ Tabled(Mapped(pr.new, n, m, t))
    BY <1>1, <1>4, <1>5, <1>8, <2>1, MappedIs, Zenon
  <2> QED BY <1>6, <2>2, Zenon
<1>10. new \in PgdirType /\ new.torn = pr.new.torn
  <2>1. IsMapped(Mapped(pr.new, n, m, t), pr.new, n, m, t)
    BY <1>1, <1>4, <1>5, MappedFields, Zenon
  <2> QED BY <1>6, <2>1, Zenon DEF IsMapped
<1>11. Covers(new, n + 1)
  BY <1>1, <1>4, <1>5, <1>6, <1>8, MappedCovers, Zenon
<1>12. proc' = [proc EXCEPT ![p].new = new, ![p].a = n + 1]
  <2>1. proc' = [proc EXCEPT ![p].new = Mapped(@, n, m, t), ![p].a = @ + 1]
    BY <1>3, Zenon
  <2>2. proc' = [proc EXCEPT ![p].new = Mapped(pr.new, n, m, t), ![p].a = n + 1]
    BY <2>1
  <2> QED BY <1>6, <2>2, Zenon
<1>13. /\ proc' \in [Proc -> ProcType] /\ Only(p)
       /\ qr.st = pr.st /\ qr.kstack = pr.kstack /\ qr.pg = pr.pg /\ qr.sz = pr.sz /\ qr.child = pr.child
       /\ qr.pc = pr.pc /\ qr.call = pr.call /\ qr.new = new /\ qr.a = n + 1 /\ qr.hi = pr.hi
       /\ qr.old = pr.old /\ qr.seg = pr.seg
  BY <1>1, <1>10, <1>12 DEF IInv, TypeOK, ProcType, Only
<1>14. Life(qr)
  BY <1>1, <1>13, Zenon DEF Life, Resting, Copying, Loading
<1>15. Progress(qr)
  <2>2. CASE pr.pc = "allocuvm"
    <3>1. Pages(pr.old) <= n + 1 /\ n + 1 <= Pages(pr.hi)
      <4>1. Pages(pr.old) <= n /\ n < Pages(pr.hi)
        BY <1>1, <2>2, Zenon DEF Progress
      <4> QED BY <1>1, <4>1, NextPage, Zenon
    <3> QED BY <1>1, <1>11, <1>13, <2>2, <3>1, Zenon DEF Progress, Resting
  <2>3. CASE pr.pc = "copyuvm"
    <3>1. n + 1 <= Pages(pr.sz)
      BY <1>1, <2>3, NextPage, Zenon
    <3>2. pr.new.torn = {}
      BY <1>1, <2>3, Zenon DEF Progress
    <3> QED BY <1>10, <1>11, <1>13, <2>3, <3>1, <3>2, Zenon DEF Progress, Resting
  <2> QED BY <2>2, <2>3, Zenon
<1>16. Space(qr)
  BY <1>1, <1>9, <1>13, Zenon DEF Space
<1>17. \A k : k \in PagesOf(qr.new) <=> k \in PagesOf(pr.new) \/ k \in {m, t} \ {None}
  BY <1>9, <1>13, Zenon
<1>18. \A k \in {m, t} \ {None} : k \in freelist
  BY <1>5, Zenon
<1>19. \A k : k \in freelist' <=> k \in freelist /\ k \notin {m, t} \ {None}
  <2>1. None \notin freelist
    BY FreePage, Zenon
  <2> QED BY <1>3, <2>1, Zenon
<1>20. ProcOK(qr) /\ OncePgdir(qr.new) /\ qr.pc # "allocproc" /\ pr.pc # "allocproc" /\ pr.st # "EMBRYO"
  BY <1>1, <1>9, <1>13, <1>14, <1>15, <1>16, Zenon DEF ProcOK
<1> QED BY <1>3, <1>13, <1>17, <1>18, <1>19, <1>20, TakeStep, Zenon

(* allocuvm(): a page, or a page lost for want of a page table *)
LEMMA AllocuvmStep == ASSUME Least, IInv, NEW p \in Proc, Allocuvm(p) PROVE IInv'
<1>. DEFINE pr == proc[p]
            qr == proc'[p]
            n == pr.a
<1>1. pr.pc = "allocuvm" /\ n < Pages(pr.hi) /\ ~NoMemory /\ pr.new.pte[n] = None
  BY DEF Allocuvm, At, Remap
<1>2. /\ pr \in ProcType /\ Life(pr) /\ Progress(pr) /\ Space(pr) /\ pr.st = "RUNNABLE"
      /\ pr.new \in PgdirType /\ n \in Nat /\ pr.hi \in 0 .. KERNBASE /\ pr.old \in 0 .. KERNBASE
  BY <1>1, ProcFacts, Zenon DEF Life
<1>4. n \in Vpn
  BY <1>1, <1>2, NextPage, Zenon
<1>5. CASE MapPage(p, n)
  BY <1>1, <1>4, <1>5, MapPageStep, Zenon
<1>6. CASE /\ TableMissing(p, n)
           /\ proc' = [proc EXCEPT ![p].new.torn = @ \cup {n}, ![p].a = @ + 1]
           /\ leaked' = leaked \cup {kalloc}
           /\ freelist' = {}
           /\ UNCHANGED <<npage, calls, panicked>>
  <2>1. npage' = npage /\ freelist = {kalloc}
    BY <1>6 DEF TableMissing
  <2>. DEFINE new == [pr.new EXCEPT !.torn = @ \cup {n}]
  <2>2. OncePgdir(pr.new) /\ Tabled(pr.new) /\ Covers(pr.new, n)
    BY <1>1, <1>2, HeldFacts, Zenon DEF IInv, HeldOnce, Space, Progress
  <2>3. new \in PgdirType /\ PagesOf(new) = PagesOf(pr.new) /\ OncePgdir(new) /\ Tabled(new) /\ Covers(new, n + 1)
    BY <1>1, <1>2, <1>4, <2>2, TornIs, Zenon
  <2>. HIDE DEF new
  <2>4. proc' = [proc EXCEPT ![p].new = new, ![p].a = n + 1]
    BY <1>2, <1>6 DEF IInv, TypeOK, new
  <2>5. /\ proc' \in [Proc -> ProcType] /\ Only(p)
        /\ qr.st = pr.st /\ qr.kstack = pr.kstack /\ qr.pg = pr.pg /\ qr.sz = pr.sz /\ qr.child = pr.child
        /\ qr.pc = pr.pc /\ qr.call = pr.call /\ qr.new = new /\ qr.a = n + 1 /\ qr.hi = pr.hi
        /\ qr.old = pr.old /\ qr.seg = pr.seg
    BY <1>2, <2>3, <2>4 DEF IInv, TypeOK, ProcType, Only
  <2>6. Life(qr)
    BY <1>1, <1>2, <2>5, Zenon DEF Life, Resting, Copying, Loading
  <2>7. Progress(qr)
    <3>1. Pages(pr.old) <= n + 1 /\ n + 1 <= Pages(pr.hi)
      <4>1. Pages(pr.old) <= n
        BY <1>1, <1>2, Zenon DEF Progress
      <4> QED BY <1>1, <1>2, <4>1, NextPage, Zenon
    <3> QED BY <1>1, <1>2, <2>3, <2>5, <3>1, Zenon DEF Progress, Resting
  <2>8. Space(qr)
    BY <1>1, <1>2, <2>3, <2>5, Zenon DEF Space
  <2>9. TypeOK' /\ Procs' /\ Children'
    BY <1>1, <1>2, <2>1, <2>5, <2>6, <2>7, <2>8, OneStep, Zenon DEF ProcOK
  <2>10. HeldBy(qr) = HeldBy(pr) /\ HeldOnce(qr)
    <3>1. OwnPages(qr) = OwnPages(pr) /\ StackPage(qr) = StackPage(pr) /\ HeldOnce(pr)
      BY <2>5, HeldFacts, Zenon DEF OwnPages, StackPage, IInv
    <3>2. PagesOf(qr.new) = PagesOf(pr.new) /\ OncePgdir(qr.new) /\ qr.pg = pr.pg
      BY <2>3, <2>5, Zenon
    <3> QED BY <3>1, <3>2, Zenon DEF HeldBy, HeldOnce
  <2>11. \A m : m \in freelist' <=> (m \in freelist \/ m \in {}) /\ m \notin {kalloc}
    BY <1>6, <2>1, Zenon
  <2>12. \A m : m \in leaked' <=> m \in leaked \/ m \in {kalloc}
    BY <1>6, Zenon
  <2>13. \A m \in {kalloc} : m \in {} \/ m \in freelist
    BY <2>1, Zenon
  <2>14. \A m : m \in HeldBy(qr) <=> m \in HeldBy(pr) /\ m \notin {}
    BY <2>10, Zenon
  <2>15. \A m \in {} : m \in HeldBy(pr)
    BY Zenon
  <2>16. PagesOwned'
    BY <2>1, <2>5, <2>10, <2>11, <2>12, <2>13, <2>14, <2>15, LostBy, Zenon DEF IInv
  <2> QED BY <2>9, <2>16, Zenon DEF IInv
<1> QED BY <1>5, <1>6, Zenon DEF Allocuvm

-----------------------------------------------------------------------------
(* The ends of sbrk() and exec() *)

(* p returns to user mode as f has it, and gives up the pages X. *)
LEMMA BackStep ==
  ASSUME IInv, NEW p \in Proc, proc[p].child = None, proc[p].st = "RUNNABLE", proc[p].kstack # None,
         NEW f \in [Proc -> ProcType], \A r \in Proc : r # p => f[r] = proc[r], f[p].child = None,
         f[p].st = "RUNNABLE", f[p].kstack = proc[p].kstack, proc' = Back(f, p),
         Tabled(f[p].pg), Covers(f[p].pg, Pages(f[p].sz)), OncePgdir(f[p].pg),
         proc[p].kstack \notin PagesOf(f[p].pg), npage' = npage, leaked' = leaked,
         NEW X, \A m \in X : m \in HeldBy(proc[p]),
         \A m : m \in PagesOf(f[p].pg) \/ m = proc[p].kstack <=> m \in HeldBy(proc[p]) /\ m \notin X,
         \A m : m \in freelist' <=> m \in freelist \/ m \in X
  PROVE  IInv'
<1>. DEFINE pr == proc[p]
            qr == proc'[p]
<1>1. IsBack(proc', f, p)
  BY BackIs, Zenon
<1>2. /\ proc' \in [Proc -> ProcType] /\ qr.pc = "user" /\ qr.child = None
      /\ qr.pg = f[p].pg /\ qr.kstack = f[p].kstack /\ qr.sz = f[p].sz /\ qr.st = f[p].st
      /\ qr.call = "none" /\ qr.new = NoPgdir /\ qr.a = 0 /\ qr.hi = 0
  BY <1>1, Zenon DEF IsBack
<1>3. Only(p)
  <2>1. \A r \in Proc : r # p /\ r # f[p].child => proc'[r] = f[r]
    BY <1>1, Zenon DEF IsBack
  <2>2. \A r \in Proc : r # None
    BY MemoryAssumption, Zenon
  <2> QED BY <2>1, <2>2, Zenon DEF Only
<1>4. /\ ProcOK(qr) /\ HeldOnce(qr)
      /\ \A m : m \in HeldBy(qr) <=> m \in PagesOf(qr.pg) \/ m = qr.kstack
  BY <1>2, UserIs, Zenon
<1>5. \A m : m \in HeldBy(qr) <=> m \in HeldBy(pr) /\ m \notin X
  BY <1>2, <1>4, Zenon
<1>6. TypeOK' /\ Procs' /\ Children'
  BY <1>2, <1>3, <1>4, OneStep, Zenon
<1>7. PagesOwned'
  BY <1>3, <1>4, <1>5, ReturnedBy, Zenon DEF IInv
<1> QED BY <1>6, <1>7, Zenon DEF IInv

LEMMA SbrkFacts ==
  ASSUME PagesOwned, NEW p \in Proc, proc[p].call = "sbrk", proc[p].kstack # None
  PROVE  LET pr == proc[p] IN
         /\ OncePgdir(pr.new) /\ pr.kstack \notin PagesOf(pr.new)
         /\ \A m : m \in HeldBy(pr) <=> m \in PagesOf(pr.new) \/ m = pr.kstack
<1>. DEFINE pr == proc[p]
<1>1. OwnPages(pr) = {} /\ StackPage(pr) = {pr.kstack} /\ HeldOnce(pr)
  BY HeldFacts, Zenon DEF OwnPages, StackPage
<1>2. \A m : m \in HeldBy(pr) <=> m \in PagesOf(pr.new) \/ m = pr.kstack
  BY <1>1, Zenon DEF HeldBy
<1>3. pr.kstack \notin PagesOf(pr.new)
  BY <1>1, Zenon DEF HeldOnce
<1> QED BY <1>1, <1>2, <1>3, Zenon DEF HeldOnce

(* Out of memory in allocuvm() *)
LEMMA AllocuvmFailsStep == ASSUME Least, IInv, NEW p \in Proc, AllocuvmFails(p) PROVE IInv'
<1>. DEFINE pr == proc[p]
<1>1. pr.pc = "allocuvm"
  BY DEF AllocuvmFails, At
<1>2. /\ pr \in ProcType /\ Life(pr) /\ Progress(pr) /\ Space(pr) /\ pr.st = "RUNNABLE"
      /\ pr.kstack # None /\ pr.child = None /\ pr.pc \in Copying \cup Loading
      /\ pr.new \in PgdirType /\ pr.a \in Nat /\ pr.hi \in 0 .. KERNBASE /\ pr.old \in 0 .. KERNBASE
  BY <1>1, ProcFacts, Zenon DEF Life, Loading
<1>3. CASE pr.call # "sbrk" /\ Bad(p, {})
  <2>1. \A m \in {} : m \in PagesOf(pr.new) \/ m \in freelist
    BY Zenon
  <2> QED BY <1>2, <1>3, <2>1, BadStep, Zenon
<1>4. CASE /\ pr.call = "sbrk"
           /\ freelist' = freelist \cup Deallocated(pr.new, pr.old, pr.hi)
           /\ proc' = Back([proc EXCEPT ![p].pg = Unmapped(pr.new, pr.old, pr.hi)], p)
           /\ UNCHANGED <<npage, calls, leaked, panicked>>
  <2>. DEFINE new == Unmapped(pr.new, pr.old, pr.hi)
              D == Deallocated(pr.new, pr.old, pr.hi)
              f == [proc EXCEPT ![p].pg = new]
  <2>1. /\ OncePgdir(pr.new) /\ pr.kstack \notin PagesOf(pr.new)
        /\ \A m : m \in HeldBy(pr) <=> m \in PagesOf(pr.new) \/ m = pr.kstack
    BY <1>2, <1>4, SbrkFacts, Zenon DEF IInv
  <2>2. /\ new \in PgdirType /\ OncePgdir(new) /\ Tabled(new)
        /\ PagesOf(new) = PagesOf(pr.new) \ D /\ D \subseteq PagesOf(pr.new)
    BY <1>2, <2>1, UnmappedIs, Zenon DEF Space
  <2>3. Covers(new, Pages(pr.old)) /\ pr.old = pr.sz
    <3>1. /\ Covers(pr.new, pr.a) /\ Pages(pr.old) <= pr.a /\ pr.a <= Pages(pr.hi)
          /\ pr.old = pr.sz /\ Tabled(pr.new)
      BY <1>1, <1>2, <1>4, Zenon DEF Progress, Space
    <3>2. Pages(pr.old) \in 0 .. NUPAGES /\ Pages(pr.hi) \in 0 .. NUPAGES /\ NUPAGES \in Nat
      BY <1>2, PagesBounds, Geometry, Zenon
    <3>3. pr.a \in Pages(pr.old) .. Pages(pr.hi)
      BY <1>2, <3>1, <3>2
    <3> QED BY <1>2, <3>1, <3>3, UnmappedCovers, Zenon
  <2>4. npage' = npage /\ leaked' = leaked /\ freelist' = freelist \cup D /\ proc' = Back(f, p)
    BY <1>4, Zenon
  <2>. HIDE DEF new, D
  <2>5. /\ f \in [Proc -> ProcType] /\ \A r \in Proc : r # p => f[r] = proc[r]
        /\ f[p].pg = new /\ f[p].st = pr.st /\ f[p].kstack = pr.kstack /\ f[p].child = pr.child
        /\ f[p].sz = pr.sz
    BY <1>2, <2>2 DEF IInv, TypeOK, ProcType
  <2>. HIDE DEF f
  <2>6. /\ \A m : m \in PagesOf(f[p].pg) \/ m = pr.kstack <=> m \in HeldBy(pr) /\ m \notin D
        /\ \A m \in D : m \in HeldBy(pr)
        /\ pr.kstack \notin PagesOf(f[p].pg)
    BY <2>1, <2>2, <2>5, Zenon
  <2>7. Covers(f[p].pg, Pages(f[p].sz)) /\ Tabled(f[p].pg) /\ OncePgdir(f[p].pg)
    BY <2>2, <2>3, <2>5, Zenon
  <2>8. \A m : m \in freelist' <=> m \in freelist \/ m \in D
    BY <2>4, Zenon
  <2>9. f[p].st = "RUNNABLE" /\ f[p].child = None
    BY <1>2, <2>5, Zenon
  <2> QED BY <1>2, <2>4, <2>5, <2>6, <2>7, <2>8, <2>9, BackStep, Zenon
<1> QED BY <1>3, <1>4, Zenon DEF AllocuvmFails

LEMMA AllocuvmEndsStep == ASSUME Least, IInv, NEW p \in Proc, AllocuvmEnds(p) PROVE IInv'
<1>. DEFINE pr == proc[p]
            qr == proc'[p]
<1>1. /\ pr.pc = "allocuvm" /\ pr.a >= Pages(pr.hi) /\ npage' = npage /\ freelist' = freelist
      /\ leaked' = leaked
  BY DEF AllocuvmEnds, At
<1>2. /\ pr \in ProcType /\ Life(pr) /\ Progress(pr) /\ Space(pr) /\ pr.st = "RUNNABLE"
      /\ pr.kstack # None /\ pr.child = None /\ pr.call \in {"sbrk", "exec", "stack"}
      /\ pr.new \in PgdirType /\ pr.a \in Nat /\ pr.hi \in 0 .. KERNBASE
  BY <1>1, ProcFacts, Zenon DEF Life, Loading
<1>3. Pages(pr.hi) \in 0 .. NUPAGES /\ NUPAGES \in Nat
  BY <1>2, PagesBounds, Geometry, Zenon
<1>4. pr.a = Pages(pr.hi)
  <2>1. pr.a <= Pages(pr.hi)
    BY <1>1, <1>2, Zenon DEF Progress
  <2> QED BY <1>1, <1>2, <1>3, <2>1
<1>5. /\ Covers(pr.new, Pages(pr.hi)) /\ Tabled(pr.new)
      /\ (pr.call = "stack" => 2 <= Pages(pr.hi)) /\ (pr.call = "exec" => Fits(pr.seg, pr.hi))
  <2>1. /\ Covers(pr.new, pr.a)
        /\ (pr.call = "stack" => 2 <= Pages(pr.hi)) /\ (pr.call = "exec" => Fits(pr.seg, pr.hi))
    BY <1>1, <1>2, Zenon DEF Progress
  <2>2. Tabled(pr.new)
    BY <1>2, Zenon DEF Space
  <2> QED BY <1>4, <2>1, <2>2, Zenon
<1>6. CASE pr.call = "sbrk"
  <2>. DEFINE X == {}
              f == [proc EXCEPT ![p].pg = pr.new, ![p].sz = pr.hi]
  <2>1. proc' = Back(f, p)
    BY <1>6 DEF AllocuvmEnds
  <2>2. /\ f \in [Proc -> ProcType] /\ \A r \in Proc : r # p => f[r] = proc[r]
        /\ f[p].pg = pr.new /\ f[p].st = pr.st /\ f[p].kstack = pr.kstack /\ f[p].child = pr.child
        /\ f[p].sz = pr.hi
    <3>. DEFINE ar == [pr EXCEPT !.pg = pr.new, !.sz = pr.hi]
    <3>1. f = [proc EXCEPT ![p] = ar]
      OBVIOUS
    <3>2. ar \in ProcType
      BY <1>2 DEF ProcType
    <3>3. /\ ar.pg = pr.new /\ ar.st = pr.st /\ ar.kstack = pr.kstack /\ ar.child = pr.child
          /\ ar.sz = pr.hi
      BY <1>2 DEF ProcType
    <3>. HIDE DEF f, ar
    <3>4. f \in [Proc -> ProcType] /\ f[p] = ar /\ \A r \in Proc : r # p => f[r] = proc[r]
      BY <3>1, <3>2 DEF IInv, TypeOK
    <3> QED BY <3>3, <3>4, Zenon
  <2>. HIDE DEF f
  <2>3. /\ OncePgdir(pr.new) /\ pr.kstack \notin PagesOf(pr.new)
        /\ \A m : m \in HeldBy(pr) <=> m \in PagesOf(pr.new) \/ m = pr.kstack
    BY <1>2, <1>6, SbrkFacts, Zenon DEF IInv
  <2>4. /\ \A m : m \in PagesOf(f[p].pg) \/ m = pr.kstack <=> m \in HeldBy(pr) /\ m \notin X
        /\ \A m \in X : m \in HeldBy(pr)
        /\ pr.kstack \notin PagesOf(f[p].pg)
    BY <2>2, <2>3, Zenon
  <2>5. Covers(f[p].pg, Pages(f[p].sz)) /\ Tabled(f[p].pg) /\ OncePgdir(f[p].pg)
    BY <1>5, <2>2, <2>3, Zenon
  <2>6. \A m : m \in freelist' <=> m \in freelist \/ m \in X
    BY <1>1, Zenon
  <2>7. f[p].st = "RUNNABLE" /\ f[p].child = None
    BY <1>2, <2>2, Zenon
  <2>8. npage' = npage /\ leaked' = leaked /\ f[p].kstack = pr.kstack
    BY <1>1, <2>2, Zenon
  <2>9. f \in [Proc -> ProcType] /\ \A r \in Proc : r # p => f[r] = proc[r]
    BY <2>2, Zenon
  <2>. HIDE DEF X
  <2> QED BY <1>2, <2>1, <2>4, <2>5, <2>6, <2>7, <2>8, <2>9, BackStep, Zenon
<1>7. ASSUME NEW pc \in {"loaduvm", "args"}, pc = "loaduvm" <=> pr.call = "exec",
             pr.call \in {"exec", "stack"}, proc' = [proc EXCEPT ![p].pc = pc]
      PROVE  IInv'
  <2>1. pc \in Resting \cup {"allocproc"} \cup Copying \cup Loading
    BY DEF Loading
  <2>2. /\ proc' \in [Proc -> ProcType] /\ Only(p)
        /\ qr.st = pr.st /\ qr.kstack = pr.kstack /\ qr.pg = pr.pg /\ qr.sz = pr.sz /\ qr.child = pr.child
        /\ qr.pc = pc /\ qr.call = pr.call /\ qr.new = pr.new /\ qr.a = pr.a /\ qr.hi = pr.hi
        /\ qr.seg = pr.seg
    BY <1>2, <1>7, <2>1 DEF IInv, TypeOK, ProcType, Only
  <2>3. Life(qr)
    BY <1>1, <1>2, <1>7, <2>2, Zenon DEF Life, Resting, Copying, Loading
  <2>4. Progress(qr)
    BY <1>5, <1>7, <2>2, Zenon DEF Progress, Resting
  <2>5. Space(qr)
    BY <1>1, <1>2, <2>2, Zenon DEF Space
  <2> QED BY <1>1, <1>2, <2>2, <2>3, <2>4, <2>5, QuietStep, Zenon DEF ProcOK
<1>8. CASE pr.call = "exec"
  BY <1>7, <1>8 DEF AllocuvmEnds
<1>9. CASE pr.call = "stack"
  BY <1>7, <1>9 DEF AllocuvmEnds
<1> QED BY <1>2, <1>6, <1>8, <1>9, Zenon

-----------------------------------------------------------------------------
(* exec() *)

LEMMA BadOnly ==
  ASSUME Least, IInv, NEW p \in Proc, proc[p].pc \in Copying \cup Loading, proc[p].call # "sbrk", Bad(p, {})
  PROVE  IInv'
<1>1. \A m \in {} : m \in PagesOf(proc[p].new) \/ m \in freelist
  BY Zenon
<1> QED BY <1>1, BadStep, Zenon

(* exec() starts to allocate. *)
LEMMA AllocatingStep ==
  ASSUME Least, IInv, NEW p \in Proc, proc[p].pc \in {"segment", "stack"}, NEW call \in {"exec", "stack"},
         NEW seg \in SegType, NEW lo \in Nat, NEW newsz \in Nat, Pages(lo) = Pages(proc[p].hi),
         lo <= newsz \/ lo <= KERNBASE, call = "stack" => 2 <= Pages(newsz),
         call = "exec" => Fits(seg, newsz), Allocating(p, call, seg, lo, newsz)
  PROVE  IInv'
<1>. DEFINE pr == proc[p]
            qr == proc'[p]
            hi == IF newsz < lo THEN lo ELSE newsz
<1>1. /\ pr \in ProcType /\ Life(pr) /\ Progress(pr) /\ Space(pr) /\ pr.st = "RUNNABLE"
      /\ pr.child = None /\ pr.call = "exec" /\ pr.pc \in Copying \cup Loading /\ pr.new \in PgdirType
  BY ProcFacts, Zenon DEF Life, Loading
<1>2. CASE Bad(p, {})
  BY <1>1, <1>2, BadOnly, Zenon
<1>3. ASSUME newsz < KERNBASE, UNCHANGED <<npage, freelist, calls, leaked, panicked>>,
             proc' = [proc EXCEPT ![p].pc = "allocuvm", ![p].call = call, ![p].seg = seg,
                                  ![p].old = lo, ![p].hi = hi, ![p].a = Pages(lo)]
      PROVE  IInv'
  <2>1. /\ lo \in 0 .. KERNBASE /\ hi \in 0 .. KERNBASE /\ Pages(lo) \in Nat
        /\ Pages(lo) <= Pages(lo) /\ Pages(lo) <= Pages(hi)
        /\ (call = "stack" => 2 <= Pages(hi)) /\ (call = "exec" => Fits(seg, hi))
    <3>1. KERNBASE \in Nat /\ hi \in Nat /\ lo <= hi /\ newsz <= hi
      BY PagesBounds
    <3>2. lo \in 0 .. KERNBASE /\ hi \in 0 .. KERNBASE
      BY <1>3, <3>1
    <3>. HIDE DEF hi
    <3>3. /\ Pages(lo) \in Nat /\ Pages(lo) <= Pages(hi) /\ Pages(newsz) \in Nat /\ Pages(hi) \in Nat
          /\ Pages(newsz) <= Pages(hi)
      BY <3>1, PagesAre, PagesMonotone, Zenon
    <3>4. Pages(lo) <= Pages(lo) /\ (call = "stack" => 2 <= Pages(hi))
      BY <3>3
    <3>5. ASSUME call = "exec" PROVE Fits(seg, hi)
      <4>1. Fits(seg, newsz)
        BY <3>5, Zenon
      <4> QED BY <3>1, <4>1 DEF Fits, SegType
    <3> QED BY <3>2, <3>3, <3>4, <3>5, Zenon
  <2>. HIDE DEF hi
  <2>2. /\ proc' \in [Proc -> ProcType] /\ Only(p)
        /\ qr.st = pr.st /\ qr.kstack = pr.kstack /\ qr.pg = pr.pg /\ qr.sz = pr.sz /\ qr.child = pr.child
        /\ qr.pc = "allocuvm" /\ qr.call = call /\ qr.new = pr.new /\ qr.a = Pages(lo) /\ qr.hi = hi
        /\ qr.old = lo /\ qr.seg = seg
    <3>. DEFINE ar == [pr EXCEPT !.pc = "allocuvm", !.call = call, !.seg = seg, !.old = lo, !.hi = hi,
                                 !.a = Pages(lo)]
    <3>1. proc' = [proc EXCEPT ![p] = ar]
      BY <1>3
    <3>2. ar \in ProcType
      BY <1>1, <2>1 DEF ProcType, Loading
    <3>3. /\ ar.st = pr.st /\ ar.kstack = pr.kstack /\ ar.pg = pr.pg /\ ar.sz = pr.sz /\ ar.child = pr.child
          /\ ar.pc = "allocuvm" /\ ar.call = call /\ ar.new = pr.new /\ ar.a = Pages(lo) /\ ar.hi = hi
          /\ ar.old = lo /\ ar.seg = seg
      BY <1>1 DEF ProcType
    <3>. HIDE DEF ar
    <3>4. proc' \in [Proc -> ProcType] /\ Only(p) /\ qr = ar
      BY <3>1, <3>2 DEF IInv, TypeOK, Only
    <3> QED BY <3>3, <3>4, Zenon
  <2>3. Life(qr)
    BY <1>1, <2>2, Zenon DEF Life, Resting, Copying, Loading
  <2>4. Covers(pr.new, Pages(lo))
    BY <1>1, Zenon DEF Progress
  <2>5. Progress(qr)
    BY <2>1, <2>2, <2>4, Zenon DEF Progress, Resting
  <2>6. Space(qr)
    BY <1>1, <2>2, Zenon DEF Space
  <2>7. qr.call # "sbrk" /\ pr.call # "sbrk" /\ pr.st # "EMBRYO"
    BY <1>1, <2>2, Zenon
  <2>8. npage' = npage /\ freelist' = freelist /\ leaked' = leaked
    BY <1>3, Zenon
  <2> QED BY <1>1, <2>2, <2>3, <2>5, <2>6, <2>7, <2>8, QuietStep, Zenon DEF ProcOK
<1> QED BY <1>2, <1>3, Zenon DEF Allocating

(* On to the next header, or to the stack. *)
LEMMA HeaderStep ==
  ASSUME Least, IInv, NEW p \in Proc, proc[p].pc \in {"segment", "loaduvm"},
         NEW pc \in {"segment", "stack"}, Goto(p, pc), UNCHANGED <<npage, freelist, calls, leaked, panicked>>
  PROVE  IInv'
<1>. DEFINE pr == proc[p]
            qr == proc'[p]
<1>1. /\ pr \in ProcType /\ Life(pr) /\ Progress(pr) /\ Space(pr) /\ pr.st = "RUNNABLE"
      /\ pr.child = None /\ pr.call = "exec"
  BY ProcFacts, Zenon DEF Life, Loading
<1>2. pc \in Resting \cup {"allocproc"} \cup Copying \cup Loading
  BY DEF Loading
<1>3. /\ proc' \in [Proc -> ProcType] /\ Only(p)
      /\ qr.st = pr.st /\ qr.kstack = pr.kstack /\ qr.pg = pr.pg /\ qr.sz = pr.sz /\ qr.child = pr.child
      /\ qr.pc = pc /\ qr.call = pr.call /\ qr.new = pr.new /\ qr.a = pr.a /\ qr.hi = pr.hi
  BY <1>1, <1>2 DEF IInv, TypeOK, ProcType, Only, Goto
<1>4. Life(qr)
  BY <1>1, <1>3, Zenon DEF Life, Resting, Copying, Loading
<1>5. Progress(qr)
  BY <1>1, <1>3, Zenon DEF Progress, Resting
<1>6. Space(qr)
  BY <1>1, <1>3, Zenon DEF Space
<1>7. npage' = npage /\ freelist' = freelist /\ leaked' = leaked
  BY Zenon
<1> QED BY <1>1, <1>3, <1>4, <1>5, <1>6, <1>7, QuietStep, Zenon DEF ProcOK

LEMMA SegmentStep == ASSUME Least, IInv, NEW p \in Proc, Segment(p) PROVE IInv'
<1>. DEFINE pr == proc[p]
<1>1. pr.pc = "segment"
  BY DEF Segment, At
<1>2. pr.call # "sbrk" /\ pr.pc \in Copying \cup Loading /\ pr.hi \in 0 .. KERNBASE
  BY <1>1, ProcFacts, Zenon DEF Life, Loading
<1>3. CASE Bad(p, {})
  BY <1>2, <1>3, BadOnly, Zenon
<1>4. ASSUME NEW h \in Headers, h.memsz >= h.filesz,
             Allocating(p, "exec", h, pr.hi, Wrapped(h.vaddr + h.memsz))
      PROVE  IInv'
  <2>. DEFINE newsz == Wrapped(h.vaddr + h.memsz)
  <2>1. /\ h \in SegType /\ h.vaddr \in 0 .. WORD - 1 /\ h.memsz \in 0 .. WORD - 1
        /\ h.filesz \in 0 .. WORD - 1 /\ WORD \in Nat
    BY MemoryAssumption DEF SegType
  <2>2. newsz \in Nat /\ Fits(h, newsz)
    BY <1>4, <2>1 DEF Wrapped, Fits, WellFormed
  <2>3. pr.hi \in Nat /\ pr.hi <= KERNBASE
    BY <1>2, PagesBounds
  <2>4. "exec" \in {"exec", "stack"} /\ "exec" # "stack"
    OBVIOUS
  <2>. HIDE DEF newsz
  <2>5. Allocating(p, "exec", h, pr.hi, newsz)
    BY <1>4, Zenon DEF newsz
  <2> QED BY <1>1, <2>1, <2>2, <2>3, <2>4, <2>5, AllocatingStep, Zenon
<1>5. ASSUME Goto(p, "stack"), UNCHANGED <<npage, freelist, calls, leaked, panicked>> PROVE IInv'
  BY <1>1, <1>5, HeaderStep, Zenon
<1> QED BY <1>3, <1>4, <1>5, Zenon DEF Segment

LEMMA StackStep == ASSUME Least, IInv, NEW p \in Proc, Stack(p) PROVE IInv'
<1>. DEFINE pr == proc[p]
            lo == PGROUNDUP(pr.hi)
            d == Pages(pr.hi)
<1>1. pr.pc = "stack" /\ Allocating(p, "stack", NoSegment, lo, lo + 2 * PGSIZE)
  BY DEF Stack, At
<1>2. pr.hi \in Nat /\ PGSIZE \in Nat \ {0}
  <2>1. pr.hi \in 0 .. KERNBASE /\ KERNBASE \in Nat
    BY ProcFacts, PagesBounds, Zenon
  <2> QED BY <2>1, Geometry
<1>3. d \in Nat /\ lo = PGSIZE * d
  BY <1>2, PagesAre, Zenon
<1>. HIDE DEF lo, d
<1>4. d + 2 \in Nat /\ lo + 2 * PGSIZE = PGSIZE * (d + 2) /\ lo \in Nat /\ lo <= lo + 2 * PGSIZE
      /\ lo + 2 * PGSIZE \in Nat /\ 2 <= d + 2
  BY <1>2, <1>3
<1>5. Pages(lo) = d /\ Pages(lo + 2 * PGSIZE) = d + 2
  BY <1>3, <1>4, PagesOfMultiple, Zenon
<1>6. NoSegment \in SegType
  BY DEF NoSegment, SegType
<1>7. Pages(lo) = Pages(pr.hi) /\ 2 <= Pages(lo + 2 * PGSIZE)
  BY <1>4, <1>5, Zenon DEF d
<1>8. "stack" \in {"exec", "stack"} /\ "stack" # "exec"
  OBVIOUS
<1> QED BY <1>1, <1>4, <1>6, <1>7, <1>8, AllocatingStep, Zenon

LEMMA LoaduvmStep == ASSUME Least, IInv, NEW p \in Proc, Loaduvm(p) PROVE IInv'
<1>1. proc[p].pc = "loaduvm"
  BY DEF Loaduvm, At
<1>2. CASE Bad(p, {})
  <2>1. proc[p].call # "sbrk" /\ proc[p].pc \in Copying \cup Loading
    BY <1>1, ProcFacts, Zenon DEF Life, Loading
  <2> QED BY <1>2, <2>1, BadOnly, Zenon
<1>3. ASSUME Goto(p, "segment"), UNCHANGED <<npage, freelist, calls, leaked, panicked>> PROVE IInv'
  BY <1>1, <1>3, HeaderStep, Zenon
<1> QED BY <1>2, <1>3, Zenon DEF Loaduvm

(* exec() commits to the new image. *)
LEMMA ArgsStep == ASSUME Least, IInv, NEW p \in Proc, Args(p) PROVE IInv'
<1>. DEFINE pr == proc[p]
            n == Pages(pr.hi) - 2
            image == Clearpteu(pr.new, Pages(pr.hi) - 1 - 1)
            f == [proc EXCEPT ![p].sz = pr.hi, ![p].pg = image]
<1>1. pr.pc = "args"
  BY DEF Args, At
<1>2. /\ pr \in ProcType /\ Life(pr) /\ Progress(pr) /\ Space(pr) /\ pr.st = "RUNNABLE"
      /\ pr.kstack # None /\ pr.child = None /\ pr.call # "sbrk" /\ pr.pc \in Copying \cup Loading
      /\ pr.new \in PgdirType /\ pr.pg \in PgdirType /\ pr.hi \in 0 .. KERNBASE
  BY <1>1, ProcFacts, Zenon DEF Life, Loading
<1>3. CASE Bad(p, {})
  BY <1>2, <1>3, BadOnly, Zenon
<1>4. CASE /\ freelist' = freelist \cup Freed(pr.pg) /\ proc' = Back(f, p)
           /\ UNCHANGED <<npage, calls, leaked, panicked>>
  <2>1. Pages(pr.hi) - 1 - 1 \in Int
    <3>1. Pages(pr.hi) \in 0 .. NUPAGES /\ NUPAGES \in Nat
      BY <1>2, PagesBounds, Geometry, Zenon
    <3> QED BY <3>1
  <2>2. /\ image \in PgdirType /\ image.dir = pr.new.dir /\ image.kern = pr.new.kern
        /\ image.tab = pr.new.tab /\ image.pte = pr.new.pte /\ image.torn = pr.new.torn
    BY <1>2, <2>1 DEF Clearpteu, PgdirType
  <2>. HIDE DEF image
  <2>3. /\ f \in [Proc -> ProcType] /\ \A r \in Proc : r # p => f[r] = proc[r]
        /\ f[p].pg = image /\ f[p].st = pr.st /\ f[p].kstack = pr.kstack /\ f[p].child = pr.child
        /\ f[p].sz = pr.hi
    <3>. DEFINE ar == [pr EXCEPT !.pg = image, !.sz = pr.hi]
    <3>1. f = [proc EXCEPT ![p] = ar]
      BY DEF IInv, TypeOK
    <3>2. ar \in ProcType
      BY <1>2, <2>2 DEF ProcType
    <3>3. ar.pg = image /\ ar.st = pr.st /\ ar.kstack = pr.kstack /\ ar.child = pr.child /\ ar.sz = pr.hi
      BY <1>2 DEF ProcType
    <3>. HIDE DEF ar, f
    <3>4. f \in [Proc -> ProcType] /\ (\A r \in Proc : r # p => f[r] = proc[r]) /\ f[p] = ar
      BY <3>1, <3>2 DEF IInv, TypeOK
    <3> QED BY <3>3, <3>4, Zenon
  <2>4. proc' = Back(f, p) /\ npage' = npage /\ leaked' = leaked
    BY <1>4, Zenon
  <2>. HIDE DEF f
  <2>5. /\ OncePgdir(pr.pg) /\ OncePgdir(pr.new)
        /\ \A m : m \in HeldBy(pr) <=> m \in PagesOf(pr.pg) \/ m \in PagesOf(pr.new) \/ m = pr.kstack
        /\ \A m : ~(m \in PagesOf(pr.pg) /\ m \in PagesOf(pr.new))
        /\ pr.kstack \notin PagesOf(pr.pg) /\ pr.kstack \notin PagesOf(pr.new)
    BY <1>2, OwnFacts, Zenon DEF IInv
  <2>6. Covers(pr.new, Pages(pr.hi)) /\ Tabled(pr.new) /\ Tabled(pr.pg)
    BY <1>1, <1>2, Zenon DEF Progress, Space
  <2>7. PagesOf(image) = PagesOf(pr.new) /\ OncePgdir(image) /\ Tabled(image)
    BY <1>2, <2>2, <2>5, <2>6, SameEntries, Zenon
  <2>8. Covers(image, Pages(pr.hi))
    BY <2>2, <2>6, Zenon DEF Covers
  <2>9. Freed(pr.pg) = PagesOf(pr.pg)
    BY <1>2, <2>6, FreedIs, Zenon
  <2>10. /\ \A m : m \in PagesOf(f[p].pg) \/ m = pr.kstack <=> m \in HeldBy(pr) /\ m \notin PagesOf(pr.pg)
         /\ \A m \in PagesOf(pr.pg) : m \in HeldBy(pr)
         /\ pr.kstack \notin PagesOf(f[p].pg)
    BY <2>3, <2>5, <2>7, Zenon
  <2>11. Covers(f[p].pg, Pages(f[p].sz)) /\ Tabled(f[p].pg) /\ OncePgdir(f[p].pg)
    BY <2>3, <2>7, <2>8, Zenon
  <2>12. \A m : m \in freelist' <=> m \in freelist \/ m \in PagesOf(pr.pg)
    BY <1>4, <2>9, Zenon
  <2>13. f[p].st = "RUNNABLE" /\ f[p].child = None /\ f[p].kstack = pr.kstack
    BY <1>2, <2>3, Zenon
  <2> QED BY <1>2, <2>3, <2>4, <2>10, <2>11, <2>12, <2>13, BackStep, Zenon
<1> QED BY <1>3, <1>4, Zenon DEF Args

-----------------------------------------------------------------------------
(* fork() *)

LEMMA CopyuvmStep == ASSUME Least, IInv, NEW p \in Proc, Copyuvm(p) PROVE IInv'
<1>. DEFINE pr == proc[p]
            n == pr.a
<1>1. pr.pc = "copyuvm" /\ n < Pages(pr.sz)
  BY DEF Copyuvm, At
<1>2. /\ Progress(pr) /\ pr.call # "sbrk" /\ pr.pc \in Copying \cup Loading /\ n \in Nat
      /\ pr.sz \in 0 .. KERNBASE
  BY <1>1, ProcFacts, Zenon DEF Life, Copying
<1>3. CASE Bad(p, {})
  BY <1>2, <1>3, BadOnly, Zenon
<1>4. CASE TableMissing(p, n) /\ Bad(p, {kalloc})
  <2>1. \A m \in {kalloc} : m \in PagesOf(pr.new) \/ m \in freelist
    BY <1>4, Zenon DEF TableMissing
  <2> QED BY <1>2, <1>4, <2>1, BadStep, Zenon
<1>5. CASE ~NoMemory /\ MapPage(p, n)
  <2>1. n \in Vpn
    <3>1. Pages(pr.sz) \in 0 .. NUPAGES /\ NUPAGES \in Nat
      BY <1>2, PagesBounds, Geometry, Zenon
    <3> QED BY <1>1, <1>2, <3>1 DEF Vpn
  <2>2. pr.new.pte[n] = None
    <3>1. ~(n < n)
      BY <1>2
    <3>2. Covers(pr.new, n) /\ pr.new.torn = {}
      BY <1>1, <1>2, Zenon DEF Progress
    <3> QED BY <2>1, <3>1, <3>2, Zenon DEF Covers
  <2>3. pr.pc # "allocuvm"
    BY <1>1, Zenon
  <2> QED BY <1>1, <1>5, <2>1, <2>2, <2>3, MapPageStep, Zenon
<1> QED BY <1>3, <1>4, <1>5, Zenon DEF Copyuvm

(* fork() hands the copy to the child. *)
LEMMA ForkEndsStep == ASSUME Least, IInv, NEW p \in Proc, ForkEnds(p) PROVE IInv'
<1>. DEFINE pr == proc[p]
            q == pr.child
            qr == proc'[p]
            cr == proc'[q]
<1>1. /\ pr.pc = "copyuvm" /\ pr.a >= Pages(pr.sz) /\ npage' = npage /\ freelist' = freelist
      /\ leaked' = leaked
  BY DEF ForkEnds, At
<1>2. /\ pr \in ProcType /\ Life(pr) /\ Progress(pr) /\ Space(pr) /\ pr.st = "RUNNABLE"
      /\ pr.kstack # None /\ pr.child # None /\ pr.call # "sbrk"
      /\ pr.new \in PgdirType /\ pr.sz \in 0 .. KERNBASE /\ pr.a \in Nat
  BY <1>1, ProcFacts, Zenon DEF Life, Copying
<1>3. /\ q \in Proc /\ q # p /\ proc[q] = Embryo(proc[q].kstack) /\ proc[q].kstack \in Nat
      /\ proc[q].kstack # None /\ \A r \in Proc : r # p => proc[r].child # q
  BY <1>1, <1>2, ChildFacts, Zenon
<1>. DEFINE k == proc[q].kstack
            child == [UnusedProc EXCEPT !.st = "RUNNABLE", !.kstack = k, !.pg = pr.new,
                                        !.sz = pr.sz, !.pc = "user", !.parent = p]
<1>4. IsBack(Back(proc, p), proc, p)
  BY BackIs, Zenon DEF IInv, TypeOK
<1>5. proc' = [Back(proc, p) EXCEPT ![q] = child]
  BY DEF ForkEnds
<1>6. /\ child \in ProcType /\ child.st = "RUNNABLE" /\ child.kstack = k /\ child.pg = pr.new
      /\ child.sz = pr.sz /\ child.pc = "user" /\ child.call = "none" /\ child.new = NoPgdir
      /\ child.child = None /\ child.a = 0 /\ child.hi = 0
  BY <1>2, <1>3, UnusedFields DEF ProcType, Resting
<1>. HIDE DEF child, k
<1>7. /\ proc' \in [Proc -> ProcType] /\ cr = child
      /\ \A r \in Proc : r # q => proc'[r] = Back(proc, p)[r]
  <2>1. Back(proc, p) \in [Proc -> ProcType]
    BY <1>4, Zenon DEF IsBack
  <2> QED BY <1>3, <1>5, <1>6, <2>1
<1>8. \A r \in Proc : r # p /\ r # q => proc'[r] = proc[r]
  BY <1>4, <1>7, Zenon DEF IsBack
<1>9. /\ OncePgdir(pr.pg) /\ OncePgdir(pr.new)
      /\ \A m : m \in HeldBy(pr) <=> m \in PagesOf(pr.pg) \/ m \in PagesOf(pr.new) \/ m = pr.kstack
      /\ \A m : ~(m \in PagesOf(pr.pg) /\ m \in PagesOf(pr.new))
      /\ pr.kstack \notin PagesOf(pr.pg) /\ pr.kstack \notin PagesOf(pr.new)
  BY <1>2, OwnFacts, Zenon DEF IInv
<1>10. Covers(pr.pg, Pages(pr.sz)) /\ Tabled(pr.pg) /\ Tabled(pr.new)
  BY <1>1, <1>2, Zenon DEF Space
<1>11. Covers(pr.new, Pages(pr.sz))
  <2>1. Covers(pr.new, pr.a) /\ pr.a <= Pages(pr.sz)
    BY <1>1, <1>2, Zenon DEF Progress
  <2>2. Pages(pr.sz) \in 0 .. NUPAGES /\ NUPAGES \in Nat
    BY <1>2, PagesBounds, Geometry, Zenon
  <2>3. pr.a = Pages(pr.sz)
    BY <1>1, <1>2, <2>1, <2>2
  <2> QED BY <2>1, <2>3, Zenon
<1>12. HeldBy(proc[q]) = {k} /\ k # None
  <2>1. {k} \ {None} = {k}
    BY <1>3, Zenon DEF k
  <2> QED BY <1>3, <2>1, EmbryoIs, Zenon DEF k
<1>13. k \notin HeldBy(pr)
  BY <1>3, <1>12, HeldFacts, Zenon DEF IInv
<1>14. /\ ProcOK(qr) /\ HeldOnce(qr) /\ qr.child = None
       /\ \A m : m \in HeldBy(qr) <=> m \in PagesOf(pr.pg) \/ m = pr.kstack
  <2>1. qr = Back(proc, p)[p]
    BY <1>3, <1>7, Zenon
  <2>2. /\ qr.pg = pr.pg /\ qr.kstack = pr.kstack /\ qr.sz = pr.sz /\ qr.st = pr.st
        /\ qr.pc = "user" /\ qr.call = "none" /\ qr.new = NoPgdir /\ qr.child = None
        /\ qr.a = 0 /\ qr.hi = 0
    BY <1>4, <2>1, Zenon DEF IsBack
  <2>3. /\ ProcOK(qr) /\ HeldOnce(qr)
        /\ \A m : m \in HeldBy(qr) <=> m \in PagesOf(qr.pg) \/ m = qr.kstack
    BY <1>2, <1>9, <1>10, <2>2, UserIs, Zenon
  <2> QED BY <2>2, <2>3, Zenon
<1>15. /\ ProcOK(cr) /\ HeldOnce(cr) /\ cr.child = None
       /\ \A m : m \in HeldBy(cr) <=> m \in PagesOf(pr.new) \/ m = k
  <2>1. k \notin PagesOf(pr.new)
    BY <1>9, <1>13, Zenon
  <2>2. /\ ProcOK(child) /\ HeldOnce(child)
        /\ \A m : m \in HeldBy(child) <=> m \in PagesOf(child.pg) \/ m = child.kstack
    BY <1>6, <1>9, <1>10, <1>11, <1>12, <2>1, UserIs, Zenon
  <2> QED BY <1>6, <1>7, <2>2, Zenon
<1>16. TypeOK' /\ Procs' /\ Children'
  <2>1. pr.st # "EMBRYO" /\ p # q /\ q \in Proc /\ proc' \in [Proc -> ProcType]
    BY <1>2, <1>3, <1>7, Zenon
  <2>2. \A r \in Proc : r # p => proc[r].child # q
    BY <1>3, Zenon
  <2>3. ProcOK(qr) /\ ProcOK(cr) /\ qr.child = None /\ cr.child = None
    BY <1>14, <1>15, Zenon
  <2> QED BY <1>1, <1>8, <2>1, <2>2, <2>3, TwoStep
<1>17. PagesOwned'
  <2>1. /\ \A m : m \in freelist \/ m \in leaked => m \notin HeldBy(pr) /\ m \notin HeldBy(proc[q])
        /\ \A m : ~(m \in freelist /\ m \in leaked)
    BY <1>3, HeldFacts, Zenon DEF IInv
  <2>2. \A r \in Proc : r # p /\ r # q => HeldBy(proc'[r]) = HeldBy(proc[r]) /\ HeldOnce(proc'[r])
    BY <1>8, HeldFacts, Zenon DEF IInv
  <2>3. \A m : m \in HeldBy(qr) \/ m \in HeldBy(cr) <=> m \in HeldBy(pr) \/ m \in HeldBy(proc[q])
    BY <1>9, <1>12, <1>14, <1>15, Zenon
  <2>4. \A m : ~(m \in HeldBy(qr) /\ m \in HeldBy(cr))
    BY <1>9, <1>13, <1>14, <1>15, Zenon
  <2>5. HeldOnce(qr) /\ HeldOnce(cr) /\ q \in Proc
    BY <1>3, <1>14, <1>15, Zenon
  <2>. HIDE DEF q
  <2>6. \A m : m \in freelist' \/ m \in leaked' \/ m \in HeldBy(qr) \/ m \in HeldBy(cr)
            <=> m \in freelist \/ m \in leaked \/ m \in HeldBy(pr) \/ m \in HeldBy(proc[q])
    BY <1>1, <2>3, Zenon
  <2>7. \A m : ~(m \in freelist' /\ m \in leaked')
    BY <1>1, <2>1, Zenon
  <2>8. \A m : m \in freelist' \/ m \in leaked' => m \notin HeldBy(qr) /\ m \notin HeldBy(cr)
    BY <1>1, <2>1, <2>3, Zenon
  <2> QED BY <1>1, <2>2, <2>4, <2>5, <2>6, <2>7, <2>8, Conserved, Zenon DEF IInv
<1> QED BY <1>16, <1>17, Zenon DEF IInv

-----------------------------------------------------------------------------
(* exit() and wait() *)

LEMMA Adopted ==
  ASSUME NEW r \in ProcType, ProcOK(r), r.parent # None, NEW x \in Proc
  PROVE  LET s == [r EXCEPT !.parent = x] IN
         /\ s \in ProcType /\ ProcOK(s) /\ HeldBy(s) = HeldBy(r) /\ (HeldOnce(s) <=> HeldOnce(r))
         /\ s.st = r.st /\ s.kstack = r.kstack /\ s.child = r.child /\ s.pc = r.pc
         /\ r.st # "EMBRYO"
<1>. DEFINE s == [r EXCEPT !.parent = x]
<1>1. r.st # "UNUSED"
  <2>1. UnusedProc.parent = None
    BY DEF UnusedProc
  <2> QED BY <2>1, Zenon DEF ProcOK, Life
<1>2. r.st # "EMBRYO"
  <2>1. \A k \in Nat : Embryo(k).parent = None
    BY DEF UnusedProc, Embryo
  <2>2. r.kstack \in Nat
    BY DEF ProcType
  <2> QED BY <2>1, <2>2, Zenon DEF ProcOK, Life, Embryo
<1>3. /\ s \in ProcType /\ s.st = r.st /\ s.kstack = r.kstack /\ s.pg = r.pg /\ s.sz = r.sz
      /\ s.child = r.child /\ s.pc = r.pc /\ s.call = r.call /\ s.new = r.new /\ s.a = r.a
      /\ s.hi = r.hi /\ s.old = r.old /\ s.seg = r.seg
  BY DEF ProcType
<1>. HIDE DEF s
<1>4. Life(s)
  BY <1>1, <1>2, <1>3, Zenon DEF ProcOK, Life
<1>5. Progress(s)
  BY <1>3, Zenon DEF ProcOK, Progress
<1>6. Space(s)
  BY <1>3, Zenon DEF ProcOK, Space
<1>7. HeldBy(s) = HeldBy(r) /\ (HeldOnce(s) <=> HeldOnce(r))
  BY <1>3, SameHeld, Zenon
<1> QED BY <1>2, <1>3, <1>4, <1>5, <1>6, <1>7, Zenon DEF ProcOK, s

LEMMA ExitStep == ASSUME IInv, NEW p \in Proc, Exit(p) PROVE IInv'
<1>. DEFINE pr == proc[p]
            zr == [pr EXCEPT !.st = "ZOMBIE", !.pc = "none"]
<1>1. pr.pc \in {"user", "fault"} /\ npage' = npage /\ freelist' = freelist /\ leaked' = leaked
  BY DEF Exit
<1>2. /\ pr \in ProcType /\ Life(pr) /\ Progress(pr) /\ Space(pr) /\ pr.st = "RUNNABLE"
      /\ pr.kstack # None /\ pr.child = None
  BY <1>1, ProcFacts, Zenon DEF Life, Resting
<1>3. /\ zr \in ProcType /\ zr.st = "ZOMBIE" /\ zr.kstack = pr.kstack /\ zr.pg = pr.pg /\ zr.sz = pr.sz
      /\ zr.child = pr.child /\ zr.pc = "none" /\ zr.call = pr.call /\ zr.new = pr.new /\ zr.a = pr.a
      /\ zr.hi = pr.hi
  BY <1>2 DEF ProcType, Resting
<1>4. proc' = [q \in Proc |-> IF q = p THEN zr
                              ELSE IF proc[q].parent = p THEN [proc[q] EXCEPT !.parent = Initproc]
                              ELSE proc[q]]
  BY DEF Exit
<1>. HIDE DEF zr
<1>5. ProcOK(zr)
  <2>1. Life(zr)
    BY <1>1, <1>2, <1>3, Zenon DEF Life, Resting, Copying, Loading
  <2>2. Progress(zr)
    BY <1>1, <1>2, <1>3, Zenon DEF Progress, Resting
  <2>3. Space(zr)
    BY <1>2, <1>3, Zenon DEF Space
  <2> QED BY <2>1, <2>2, <2>3, Zenon DEF ProcOK
<1>6. HeldBy(zr) = HeldBy(pr) /\ HeldOnce(zr)
  BY <1>3, SameHeld, HeldFacts, Zenon DEF IInv
<1>7. ASSUME NEW q \in Proc
      PROVE  /\ proc'[q] \in ProcType /\ ProcOK(proc'[q])
             /\ HeldBy(proc'[q]) = HeldBy(proc[q]) /\ HeldOnce(proc'[q])
             /\ proc'[q].child = proc[q].child
             /\ proc[q].child # None => proc'[q].pc = proc[q].pc
             /\ proc[q].st = "EMBRYO" => proc'[q] = proc[q]
  <2>1. CASE q = p
    <3>1. proc'[q] = zr
      BY <1>4, <2>1
    <3> QED BY <1>2, <1>3, <1>5, <1>6, <2>1, <3>1, Zenon
  <2>2. CASE q # p /\ proc[q].parent = p
    <3>1. proc'[q] = [proc[q] EXCEPT !.parent = Initproc]
      BY <1>4, <2>2
    <3>2. proc[q] \in ProcType /\ ProcOK(proc[q]) /\ HeldOnce(proc[q]) /\ proc[q].parent # None
          /\ Initproc \in Proc
      BY <2>2, ProcFacts, HeldFacts, MemoryAssumption, Zenon DEF ProcOK, IInv
    <3>3. LET s == [proc[q] EXCEPT !.parent = Initproc] IN
          /\ s \in ProcType /\ ProcOK(s) /\ HeldBy(s) = HeldBy(proc[q]) /\ (HeldOnce(s) <=> HeldOnce(proc[q]))
          /\ s.child = proc[q].child /\ s.pc = proc[q].pc /\ proc[q].st # "EMBRYO"
      BY <3>2, Adopted
    <3> QED BY <3>1, <3>2, <3>3, Zenon
  <2>3. CASE q # p /\ proc[q].parent # p
    <3>1. proc'[q] = proc[q]
      BY <1>4, <2>3
    <3> QED BY <3>1, ProcFacts, HeldFacts, Zenon DEF ProcOK, IInv
  <2> QED BY <2>1, <2>2, <2>3, Zenon
<1>8. TypeOK'
  <2>1. proc' \in [Proc -> ProcType]
    BY <1>4, <1>7
  <2> QED BY <1>1, <2>1, Zenon DEF IInv, TypeOK
<1>9. Procs'
  BY <1>7, Zenon DEF Procs
<1>10. PagesOwned'
  BY <1>1, <1>7, Unmoved, Zenon DEF IInv
<1>11. Children'
  <2>1. ASSUME NEW r \in Proc, proc'[r].child # None
        PROVE  /\ proc'[proc'[r].child].st = "EMBRYO"
               /\ proc'[proc'[r].child].kstack = None <=> proc'[r].pc = "allocproc"
    <3>1. proc'[r].child = proc[r].child /\ proc[r].child # None /\ proc'[r].pc = proc[r].pc
      BY <1>7, <2>1, Zenon
    <3>2. /\ proc[r].child \in Proc /\ proc[proc[r].child].st = "EMBRYO"
          /\ proc[proc[r].child].kstack = None <=> proc[r].pc = "allocproc"
      BY <3>1, ChildFacts, Zenon
    <3>3. proc'[proc[r].child] = proc[proc[r].child]
      BY <1>7, <3>2, Zenon
    <3> QED BY <3>1, <3>2, <3>3, Zenon
  <2>2. \A r, s \in Proc : proc'[r].child = proc'[s].child /\ proc'[r].child # None => r = s
    <3>1. \A r \in Proc : proc'[r].child = proc[r].child
      BY <1>7, Zenon
    <3>2. \A r, s \in Proc : proc[r].child = proc[s].child /\ proc[r].child # None => r = s
      BY Zenon DEF IInv, Children
    <3> QED BY <3>1, <3>2, Zenon
  <2> QED BY <2>1, <2>2, Zenon DEF Children
<1> QED BY <1>8, <1>9, <1>10, <1>11, Zenon DEF IInv

LEMMA WaitStep == ASSUME Least, IInv, NEW p \in Proc, Wait(p) PROVE IInv'
<1>1. PICK q \in Proc :
         /\ proc[q].st = "ZOMBIE"
         /\ freelist' = freelist \cup Freed(proc[q].pg) \cup {proc[q].kstack}
         /\ proc' = [proc EXCEPT ![q] = UnusedProc]
  BY Zenon DEF Wait
<1>. DEFINE zr == proc[q]
<1>2. npage' = npage /\ leaked' = leaked
  BY DEF Wait
<1>3. /\ Life(zr) /\ Progress(zr) /\ Space(zr) /\ zr.pc = "none" /\ zr.kstack # None
      /\ zr.child = None /\ zr.call # "sbrk" /\ zr.new = NoPgdir /\ zr.pg \in PgdirType
  <2>1. Life(zr) /\ Progress(zr) /\ Space(zr) /\ zr.pg \in PgdirType
    BY ProcFacts, Zenon
  <2>2. zr.pc = "none" /\ zr.kstack # None
    BY <1>1, <2>1, Zenon DEF Life
  <2>3. zr.child = None /\ zr.call # "sbrk" /\ zr.new = NoPgdir
    BY <2>1, <2>2, Zenon DEF Life, Progress, Resting
  <2> QED BY <2>1, <2>2, <2>3, Zenon
<1>4. proc'[q] = UnusedProc /\ proc' \in [Proc -> ProcType] /\ Only(q)
  BY <1>1, UnusedFields DEF IInv, TypeOK, Only
<1>5. ProcOK(proc'[q]) /\ HeldBy(proc'[q]) = {} /\ HeldOnce(proc'[q]) /\ proc'[q].child = None
  BY <1>4, UnusedIs, UnusedFields, Zenon
<1>6. TypeOK' /\ Procs' /\ Children'
  BY <1>1, <1>2, <1>3, <1>4, <1>5, OneStep, Zenon
<1>7. Freed(zr.pg) = PagesOf(zr.pg)
  BY <1>3, FreedIs, Zenon DEF Space
<1>8. \A m : m \in HeldBy(zr) <=> m \in PagesOf(zr.pg) \/ m = zr.kstack
  <2>1. \A m : m \in HeldBy(zr) <=> m \in PagesOf(zr.pg) \/ m \in PagesOf(zr.new) \/ m = zr.kstack
    BY <1>3, OwnFacts, Zenon DEF IInv
  <2> QED BY <1>3, <2>1, NoPgdirEmpty, Zenon
<1>9. \A m : m \in freelist' <=> m \in freelist \/ m \in HeldBy(zr)
  BY <1>1, <1>7, <1>8, Zenon
<1>10. \A m : m \in HeldBy(proc'[q]) <=> m \in HeldBy(zr) /\ m \notin HeldBy(zr)
  BY <1>5, Zenon
<1>11. PagesOwned'
  BY <1>2, <1>4, <1>5, <1>9, <1>10, ReturnedBy, Zenon DEF IInv
<1> QED BY <1>6, <1>11, Zenon DEF IInv

-----------------------------------------------------------------------------
(* The page of an address below a size is one of the pages of that size.   *)
LEMMA PageOf ==
  ASSUME NEW x \in Nat, NEW n \in 0 .. KERNBASE, x < n
  PROVE  x \div PGSIZE \in Vpn /\ x \div PGSIZE < Pages(n)
<1>1. /\ PGSIZE \in Nat \ {0} /\ KERNBASE \in Nat /\ NUPAGES \in Nat /\ Pages(n) \in 0 .. NUPAGES
  BY Geometry, PagesBounds, Zenon
<1>2. n \in Nat
  BY <1>1
<1>3. n <= PGSIZE * Pages(n)
  BY <1>2, PagesAre, Zenon
<1>. DEFINE d == x \div PGSIZE
<1>4. d \in Nat /\ PGSIZE * d <= x
  BY <1>1, Division, Zenon
<1>. HIDE DEF d
<1>5. PGSIZE * (d + 1) < PGSIZE * Pages(n) + PGSIZE /\ Pages(n) \in Int /\ d + 1 \in Int
  BY <1>1, <1>2, <1>3, <1>4
<1>6. d + 1 <= Pages(n)
  BY <1>1, <1>5, Factor
<1>7. d \in Vpn /\ d < Pages(n)
  BY <1>1, <1>4, <1>6 DEF Vpn
<1> QED BY <1>7 DEF d

(* What vm.c takes for granted holds of an address space that is not torn  *)
(* and of a header that is well formed.                                    *)
LEMMA FailsTorn ==
  ASSUME IInv, NEW p \in Proc, Fails(p)
  PROVE  \/ proc[p].pg.torn \cup proc[p].new.torn # {}
         \/ proc[p].pc = "loaduvm" /\ ~WellFormed(proc[p].seg)
<1>. DEFINE pr == proc[p]
<1>1. /\ Life(pr) /\ Progress(pr) /\ Space(pr) /\ pr.a \in Nat
      /\ pr.sz \in 0 .. KERNBASE /\ pr.hi \in 0 .. KERNBASE /\ pr.old \in 0 .. KERNBASE
  BY ProcFacts, Zenon
<1>2. /\ Pages(pr.sz) \in 0 .. NUPAGES /\ Pages(pr.hi) \in 0 .. NUPAGES /\ Pages(pr.old) \in 0 .. NUPAGES
      /\ NUPAGES \in Nat
  BY <1>1, PagesBounds, Geometry, Zenon
<1>3. CASE Remap(p)
  <2>1. pr.pc = "allocuvm" /\ pr.a < Pages(pr.hi) /\ pr.new.pte[pr.a] # None
    BY <1>3 DEF Remap, At
  <2>2. pr.a \in Vpn /\ ~(pr.a < pr.a)
    BY <1>1, <1>2, <2>1 DEF Vpn
  <2>3. Covers(pr.new, pr.a)
    BY <1>1, <2>1, Zenon DEF Progress
  <2>4. pr.new.torn # {}
    BY <2>1, <2>2, <2>3, Zenon DEF Covers
  <2> QED BY <2>4, Zenon
<1>4. ASSUME At(p, "loaduvm"), WellFormed(pr.seg), NEW n \in Filled(pr.seg), ~Loads(pr.new, n)
      PROVE  pr.new.torn # {}
  <2>1. /\ pr.seg \in SegType /\ KERNBASE \in Nat /\ WORD \in Nat /\ KERNBASE < WORD
    <3>1. KERNBASE = NPD * NPTENTRIES * PGSIZE /\ WORD \in Nat /\ WORD > NPD * NPTENTRIES * PGSIZE
      BY MemoryAssumption, Zenon DEF KERNBASE, NUPAGES
    <3>2. pr \in ProcType /\ KERNBASE \in Nat
      BY ProcFacts, PagesBounds, Zenon
    <3> QED BY <3>1, <3>2 DEF ProcType
  <2>2. Covers(pr.new, Pages(pr.hi)) /\ Tabled(pr.new) /\ Fits(pr.seg, pr.hi)
    BY <1>1, <1>4, Zenon DEF Progress, At, Space
  <2>3. PICK i \in 0 .. pr.seg.filesz - 1 : n = Wrapped(pr.seg.vaddr + i) \div PGSIZE
    BY <1>4, Zenon DEF Filled
  <2>. DEFINE x == pr.seg.vaddr + i
  <2>4. x \in Nat /\ x < pr.hi /\ Wrapped(x) = x
    BY <1>1, <1>4, <2>1, <2>2 DEF SegType, Fits, Wrapped
  <2>. HIDE DEF x
  <2>5. n \in Vpn /\ n < Pages(pr.hi)
    <3>1. n = x \div PGSIZE
      BY <2>3, <2>4, Zenon DEF x
    <3> QED BY <1>1, <2>4, <3>1, PageOf, Zenon
  <2>6. pr.new.pte[n] = None
    BY <1>4, <2>2, <2>5, Zenon DEF Tabled, Loads
  <2> QED BY <2>2, <2>5, <2>6, Zenon DEF Covers
<1>7. ASSUME At(p, "loaduvm"), pr.seg.vaddr % PGSIZE # 0 PROVE ~WellFormed(pr.seg)
  BY <1>7, Zenon DEF WellFormed
<1>8. At(p, "loaduvm") => pr.pc = "loaduvm"
  BY Zenon DEF At
<1>5. ASSUME At(p, "args"), ~HasTable(pr.new, Pages(pr.hi) - 2) PROVE pr.new.torn # {}
  <2>. DEFINE n == Pages(pr.hi) - 2
  <2>1. Covers(pr.new, Pages(pr.hi)) /\ 2 <= Pages(pr.hi) /\ Tabled(pr.new)
    BY <1>1, <1>5, Zenon DEF Progress, At, Space
  <2>2. n \in Vpn /\ n < Pages(pr.hi)
    BY <1>2, <2>1 DEF Vpn
  <2>. HIDE DEF n
  <2>3. pr.new.pte[n] = None
    BY <1>5, <2>1, <2>2, Zenon DEF Tabled, n
  <2> QED BY <2>1, <2>2, <2>3, Zenon DEF Covers
<1>6. ASSUME At(p, "copyuvm"), pr.a < Pages(pr.sz), pr.pg.pte[pr.a] = None PROVE pr.pg.torn # {}
  <2>1. pr.a \in Vpn
    BY <1>1, <1>2, <1>6 DEF Vpn
  <2>2. Covers(pr.pg, Pages(pr.sz))
    BY <1>1, <1>6, Zenon DEF Life, Space, At
  <2> QED BY <1>6, <2>1, <2>2, Zenon DEF Covers
<1> QED BY <1>3, <1>4, <1>5, <1>6, <1>7, <1>8, Zenon DEF Fails

LEMMA PanicStep == ASSUME IInv, NEW p \in Proc, VmPanic(p) PROVE IInv' /\ PanicsOnlyTorn'
<1>1. npage' = npage /\ freelist' = freelist /\ leaked' = leaked /\ proc' = proc
  BY DEF VmPanic, Panic
<1>2. IInv'
  <2>1. TypeOK' /\ Procs' /\ Children'
    BY <1>1, Zenon DEF IInv, TypeOK, Procs, Children
  <2>2. PagesOwned'
    BY <1>1, HeldFacts, Unmoved, Zenon DEF IInv
  <2> QED BY <2>1, <2>2, Zenon DEF IInv
<1>3. \/ proc'[p].pg.torn \cup proc'[p].new.torn # {}
      \/ proc'[p].pc = "loaduvm" /\ ~WellFormed(proc'[p].seg)
  BY <1>1, FailsTorn, Zenon DEF VmPanic
<1> QED BY <1>2, <1>3, Zenon DEF PanicsOnlyTorn

(* Only the panics of vm.c stop the machine. *)
LEMMA OnlyVmPanics ==
  ASSUME NEW p \in Proc, System(p), ~VmPanic(p)
  PROVE  panicked = "" /\ panicked' = panicked
<1>1. ASSUME NEW n \in Sbrk, Grow(p, n) \/ Shrink(p, n) PROVE panicked = "" /\ panicked' = panicked
  BY <1>1, Zenon DEF Grow, Shrink, Call, At, Running
<1>2. CASE Fork(p) \/ Allocproc(p) \/ Exec(p) \/ Exit(p) \/ Wait(p) \/ ForkEnds(p) \/ AllocuvmEnds(p)
  BY <1>2, Zenon DEF Fork, Allocproc, Exec, Exit, Wait, ForkEnds, AllocuvmEnds, Call, At, Running
<1>3. CASE Setupkvm(p) \/ Kmap(p) \/ Allocuvm(p) \/ AllocuvmFails(p)
  BY <1>3, Zenon DEF Setupkvm, Kmap, Allocuvm, AllocuvmFails, MapPage, Bad, At, Running
<1>4. CASE Segment(p) \/ Loaduvm(p) \/ Stack(p) \/ Args(p) \/ Copyuvm(p)
  BY <1>4, Zenon DEF Segment, Loaduvm, Stack, Args, Copyuvm, Allocating, MapPage, Bad, At, Running
<1> QED BY <1>1, <1>2, <1>3, <1>4, Zenon DEF System

LEMMA SystemStep ==
  ASSUME Least, IInv, NEW p \in Proc, System(p)
  PROVE  IInv'
<1>1. ASSUME NEW n \in Sbrk, Grow(p, n) \/ Shrink(p, n) PROVE IInv'
  BY <1>1, GrowStep, ShrinkStep, Zenon
<1>2. CASE Fork(p) \/ Allocproc(p) \/ ForkEnds(p) \/ Copyuvm(p) \/ Exit(p) \/ Wait(p)
  BY <1>2, ForkStep, AllocprocStep, ForkEndsStep, CopyuvmStep, ExitStep, WaitStep, Zenon
<1>3. CASE Exec(p) \/ Setupkvm(p) \/ Kmap(p) \/ Segment(p) \/ Loaduvm(p) \/ Stack(p) \/ Args(p)
  BY <1>3, ExecStep, SetupkvmStep, KmapStep, SegmentStep, LoaduvmStep, StackStep, ArgsStep, Zenon
<1>4. CASE Allocuvm(p) \/ AllocuvmFails(p) \/ AllocuvmEnds(p) \/ VmPanic(p)
  BY <1>4, AllocuvmStep, AllocuvmFailsStep, AllocuvmEndsStep, PanicStep, Zenon
<1> QED BY <1>1, <1>2, <1>3, <1>4, Zenon DEF System

LEMMA NextIInv ==
  ASSUME Least, IInv, PanicsOnlyTorn, [Next]_vars
  PROVE  IInv' /\ PanicsOnlyTorn'
<1>1. CASE UNCHANGED vars
  <2>1. /\ npage' = npage /\ freelist' = freelist /\ leaked' = leaked /\ proc' = proc
        /\ panicked' = panicked
    BY <1>1 DEF vars
  <2>2. TypeOK' /\ Procs' /\ Children'
    BY <2>1, Zenon DEF IInv, TypeOK, Procs, Children
  <2>3. Proc # {}
    BY MemoryAssumption, Zenon
  <2>4. PagesOwned'
    BY <2>1, <2>3, HeldFacts, Unmoved, Zenon DEF IInv
  <2>5. PanicsOnlyTorn'
    BY <2>1, Zenon DEF PanicsOnlyTorn
  <2> QED BY <2>2, <2>4, <2>5, Zenon DEF IInv
<1>2. CASE Halted
  BY <1>1, <1>2, Zenon DEF Halted
<1>3. ASSUME NEW p \in Proc, System(p) PROVE IInv' /\ PanicsOnlyTorn'
  <2>1. CASE VmPanic(p)
    BY <2>1, PanicStep, Zenon
  <2>2. CASE ~VmPanic(p)
    <3>1. IInv' /\ panicked' = ""
      BY <1>3, <2>2, SystemStep, OnlyVmPanics, Zenon
    <3> QED BY <3>1, Zenon DEF PanicsOnlyTorn
  <2> QED BY <2>1, <2>2, Zenon
<1> QED BY <1>1, <1>2, <1>3, Zenon DEF Next

-----------------------------------------------------------------------------
(* The first process, as userinit() builds it *)

LEMMA UserinitIs ==
  /\ Userinit \in ProcType /\ ProcOK(Userinit) /\ HeldOnce(Userinit) /\ Userinit.child = None
  /\ HeldBy(Userinit) = 1 .. 5 /\ Userinit.st = "RUNNABLE"
<1>. DEFINE base == [NoPgdir EXCEPT !.dir = 2, !.kern = 3]
            r == Userinit
<1>1. /\ base \in PgdirType /\ base.dir = 2 /\ base.kern = 3 /\ base.torn = {}
      /\ \A t \in 0 .. NPD - 1 : base.tab[t] = None
      /\ \A n \in Vpn : base.pte[n] = None
  BY NoPgdirIs DEF PgdirType
<1>2. Inituvm = Mapped(base, 0, 4, 5)
  BY DEF Inituvm
<1>. HIDE DEF base
<1>3. PagesOf(base) = {2, 3} /\ OncePgdir(base) /\ Tabled(base) /\ Covers(base, 0)
  <2>1. base.dir # base.kern
    BY <1>1
  <2>2. PagesOf(base) = {base.dir, base.kern} \ {None} /\ OncePgdir(base) /\ Tabled(base) /\ Covers(base, 0)
    BY <1>1, <2>1, Fresh, Zenon
  <2>3. {2, 3} \ {None} = {2, 3}
    BY DEF None
  <2> QED BY <1>1, <2>2, <2>3, Zenon
<1>4. 0 \in Vpn
  BY Geometry DEF Vpn
<1>5. /\ PagesOf(Inituvm) = PagesOf(base) \cup ({4, 5} \ {None})
      /\ OncePgdir(Inituvm) /\ Tabled(Inituvm)
  <2>1. 4 \in Nat /\ 4 # None /\ 4 \notin {2, 3} /\ 5 \in Nat /\ 5 # None /\ 5 # 4 /\ 5 \notin {2, 3}
    BY DEF None
  <2>2. ~HasTable(base, 0)
    BY <1>1, <1>4, TableOf, Zenon DEF HasTable
  <2>3. /\ PagesOf(Mapped(base, 0, 4, 5)) = PagesOf(base) \cup ({4, 5} \ {None})
        /\ OncePgdir(Mapped(base, 0, 4, 5)) /\ Tabled(Mapped(base, 0, 4, 5))
    <3>1. 4 \notin PagesOf(base) /\ 5 \notin PagesOf(base) /\ base.pte[0] = None
      BY <1>1, <1>3, <1>4, <2>1, Zenon
    <3> QED BY <1>1, <1>3, <1>4, <2>1, <2>2, <3>1, MappedIs, Zenon
  <2> QED BY <1>2, <2>3, Zenon
<1>6. Inituvm \in PgdirType /\ Covers(Inituvm, 0 + 1)
  <2>1. 4 \in Nat /\ 4 # None /\ 5 \in Nat
    BY DEF None
  <2>2. IsMapped(Inituvm, base, 0, 4, 5)
    BY <1>1, <1>2, <1>4, <2>1, MappedFields, Zenon
  <2>3. Covers(Inituvm, 0 + 1)
    BY <1>1, <1>2, <1>3, <1>4, <2>1, MappedCovers, Zenon
  <2> QED BY <2>2, <2>3, Zenon DEF IsMapped
<1>7. PGSIZE \in 0 .. KERNBASE /\ Pages(PGSIZE) = 0 + 1
  <2>1. PGSIZE \in Nat \ {0} /\ NUPAGES \in Nat \ {0}
    BY Geometry, Zenon
  <2>2. NUPAGES * PGSIZE >= PGSIZE /\ NUPAGES * PGSIZE \in Nat
    BY <2>1
  <2>3. Pages(PGSIZE * 1) = 1
    BY PagesOfMultiple
  <2>4. PGSIZE * 1 = PGSIZE /\ 0 + 1 = 1
    BY <2>1
  <2>5. PGSIZE \in 0 .. KERNBASE
    BY <2>1, <2>2 DEF KERNBASE
  <2> QED BY <2>3, <2>4, <2>5, Zenon
<1>8. /\ r \in ProcType /\ r.st = "RUNNABLE" /\ r.pc = "user" /\ r.kstack = 1 /\ r.sz = PGSIZE
      /\ r.pg = Inituvm /\ r.new = NoPgdir /\ r.call = "none" /\ r.child = None /\ r.a = 0 /\ r.hi = 0
  BY <1>6, <1>7, UnusedFields DEF Userinit, ProcType, Resting
<1>9. PagesOf(Inituvm) = {2, 3, 4, 5}
  <2>1. {4, 5} \ {None} = {4, 5}
    BY DEF None
  <2> QED BY <1>3, <1>5, <2>1, Zenon
<1>10. 1 \notin PagesOf(Inituvm) /\ 1 # None
  BY <1>9 DEF None
<1>11. ProcOK(r) /\ HeldOnce(r) /\ \A m : m \in HeldBy(r) <=> m \in PagesOf(r.pg) \/ m = r.kstack
  <2>1. Covers(r.pg, Pages(r.sz)) /\ Tabled(r.pg) /\ OncePgdir(r.pg) /\ r.kstack \notin PagesOf(r.pg)
        /\ r.kstack # None
    BY <1>5, <1>6, <1>7, <1>8, <1>10, Zenon
  <2> QED BY <1>8, <2>1, UserIs, Zenon
<1>12. HeldBy(r) = 1 .. 5
  <2>1. \A m : m \in 1 .. 5 <=> m = 1 \/ m = 2 \/ m = 3 \/ m = 4 \/ m = 5
    OBVIOUS
  <2>2. \A m : m \in HeldBy(r) <=> m \in {2, 3, 4, 5} \/ m = 1
    BY <1>8, <1>9, <1>11, Zenon
  <2> QED BY <2>1, <2>2, Zenon
<1> QED BY <1>8, <1>11, <1>12, Zenon

LEMMA InitIInv == Init => IInv /\ PanicsOnlyTorn
<1>. SUFFICES ASSUME Init PROVE IInv /\ PanicsOnlyTorn
  OBVIOUS
<1>1. /\ Initproc \in Proc /\ proc[Initproc] = Userinit /\ npage \in Nat /\ npage >= 5
      /\ \A p \in Proc : p # Initproc => proc[p] = UnusedProc
      /\ freelist = Page \ 1 .. 5 /\ leaked = {} /\ panicked = ""
  BY MemoryAssumption DEF Init
<1>2. TypeOK
  <2>1. proc \in [Proc -> ProcType]
    BY UserinitIs, UnusedFields DEF Init
  <2> QED BY <1>1, <2>1, Zenon DEF TypeOK
<1>3. Procs
  BY <1>1, UserinitIs, UnusedIs, Zenon DEF Procs
<1>4. Children
  <2>1. \A p \in Proc : proc[p].child = None
    BY <1>1, UserinitIs, UnusedFields, Zenon
  <2> QED BY <2>1, Zenon DEF Children
<1>5. PagesOwned
  <2>1. /\ HeldBy(proc[Initproc]) = 1 .. 5
        /\ \A p \in Proc : p # Initproc => HeldBy(proc[p]) = {}
        /\ \A p \in Proc : HeldOnce(proc[p])
    BY <1>1, UserinitIs, UnusedIs, Zenon
  <2>2. \A m : m \in 1 .. 5 => m \in Page
    <3>1. npage \in Nat /\ npage >= 5
      BY <1>1, Zenon
    <3>2. \A m \in 1 .. 5 : m \in 1 .. npage
      BY <3>1
    <3> QED BY <3>2, Zenon DEF Page
  <2>3. \A m : m \in freelist \cup leaked \cup UNION {HeldBy(proc[p]) : p \in Proc} <=> m \in Page
    <3>1. \A m : m \in UNION {HeldBy(proc[p]) : p \in Proc} <=> \E p \in Proc : m \in HeldBy(proc[p])
      BY Zenon
    <3>2. \A m : (\E p \in Proc : m \in HeldBy(proc[p])) <=> m \in 1 .. 5
      BY <1>1, <2>1, Zenon
    <3>3. \A m : m \in freelist <=> m \in Page /\ m \notin 1 .. 5
      BY <1>1, Zenon
    <3> QED BY <1>1, <2>2, <3>1, <3>2, <3>3, Zenon
  <2>4. freelist \cap leaked = {}
    BY <1>1, Zenon
  <2>5. \A p \in Proc : HeldBy(proc[p]) \cap (freelist \cup leaked) = {}
    BY <1>1, <2>1, Zenon
  <2>6. \A p, q \in Proc : p # q => HeldBy(proc[p]) \cap HeldBy(proc[q]) = {}
    BY <2>1, Zenon
  <2> QED BY <2>1, <2>3, <2>4, <2>5, <2>6, Zenon DEF PagesOwned
<1> QED BY <1>1, <1>2, <1>3, <1>4, <1>5, Zenon DEF IInv, PanicsOnlyTorn

LEMMA InvImageExact == ASSUME IInv PROVE ImageExact
<1>1. ASSUME NEW p \in Proc, proc[p].pc = "user"
      PROVE  /\ 0 .. Pages(proc[p].sz) - 1 \ proc[p].pg.torn \subseteq Present(proc[p].pg)
             /\ proc[p].pg.torn = {} => Present(proc[p].pg) \subseteq 0 .. Pages(proc[p].sz) - 1
  <2>. DEFINE pg == proc[p].pg
              n == Pages(proc[p].sz)
  <2>1. Covers(pg, n)
    BY <1>1, ProcFacts, Zenon DEF Life, Space
  <2>2. n \in 0 .. NUPAGES /\ NUPAGES \in Nat
    BY ProcFacts, PagesBounds, Geometry, Zenon
  <2>. HIDE DEF n, pg
  <2>3. \A i : i \in 0 .. n - 1 <=> i \in Vpn /\ i < n
    BY <2>2 DEF Vpn
  <2>4. 0 .. n - 1 \ pg.torn \subseteq Present(pg)
    BY <2>1, <2>3, Zenon DEF Covers, Present
  <2>5. pg.torn = {} => Present(pg) \subseteq 0 .. n - 1
    BY <2>1, <2>3, Zenon DEF Covers, Present
  <2> QED BY <2>4, <2>5, Zenon DEF n, pg
<1> QED BY <1>1, Zenon DEF ImageExact

-----------------------------------------------------------------------------
(* The theorems *)

INSTANCE WellFoundedInduction

LEMMA PagesOrdered == Least
<1> SUFFICES ASSUME NEW S \in SUBSET Nat, S # {} PROVE \E n \in S : \A m \in S : n <= m
  BY Zenon DEF Least
<1>. DEFINE R == {d \in Nat \X Nat : d[1] < d[2]}
<1>1. IsWellFoundedOn(R, Nat)
  BY NatLessThanWellFounded DEF OpToRel
<1>. HIDE DEF R
<1>2. PICK n \in S : \A m \in S : ~(<<m, n>> \in R)
  BY <1>1, WFMin, Zenon
<1>3. ASSUME NEW m \in S PROVE n <= m
  <2>1. ~(m < n)
    BY <1>2 DEF R
  <2> QED BY <2>1
<1> QED BY <1>3, Zenon

(* The inductive invariant holds whenever kalloc() fails and whichever      *)
(* process comes in between the steps of fork(), exec() and sbrk().         *)
THEOREM SpecIInv == Spec => [](IInv /\ PanicsOnlyTorn)
<1>1. IInv /\ PanicsOnlyTorn /\ [Next]_vars => IInv' /\ PanicsOnlyTorn'
  BY NextIInv, PagesOrdered, Zenon
<1> QED BY <1>1, InitIInv, PTL DEF Spec

(* No error path of fork(), exec() and sbrk(), and no order of two of them, *)
(* frees a page in use, frees one twice or shares one: each page is free,   *)
(* at one place of one process, or one that the code is known to drop.      *)
THEOREM MemoryPagesOwned == Spec => []PagesOwned
<1>1. IInv => PagesOwned
  BY Zenon DEF IInv
<1> QED BY <1>1, SpecIInv, PTL

(* allocuvm(), deallocuvm(), copyuvm() and exec() leave a process in user   *)
(* mode with the pages below its size, but for those that mappages() failed *)
(* for, and with no others if it never failed.                              *)
THEOREM MemoryImageExact == Spec => []ImageExact
<1>1. IInv => ImageExact
  BY InvImageExact, Zenon
<1> QED BY <1>1, SpecIInv, PTL

(* mappages(), clearpteu() and copyuvm() panic only after allocuvm()        *)
(* ignored a failure of mappages(), and loaduvm() only after that or when   *)
(* exec() handed it a header that is not aligned or that wraps.             *)
THEOREM MemoryPanicsOnlyTorn == Spec => []PanicsOnlyTorn
BY SpecIInv, PTL

=============================================================================
