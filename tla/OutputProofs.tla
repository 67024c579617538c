---------------------------- MODULE OutputProofs ----------------------------
(***************************************************************************)
(* What the command prints.  First the report: qsort() with refcmp         *)
(* rearranges every table of references, leaves it in the order in which   *)
(* the loop of show_includes needs it, and the lines are the report of its *)
(* identifiers.  Then the messages: what printing one and flushing stdout  *)
(* keep of their order and arrival, wherever the descriptors lead and      *)
(* whatever the buffer of stdout spills.                                   *)
(***************************************************************************)
EXTENDS Report, Output, FiniteSetTheorems, SequenceTheorems, NaturalsInduction,
        WellFoundedInduction, TLAPS

\* The members of a reference.
LEMMA RefTypes ==
  ASSUME NEW r \in Refs
  PROVE  /\ r.inc_sym \in Nat /\ r.ref_sym \in Nat
         /\ \E n \in Idents : r = RefTo(n)
  <1>1. PICK n \in Idents : r = RefTo(n)
    BY DEF Refs
  <1>2. r.inc_sym = HeaderOf[n] /\ r.ref_sym = n
    BY <1>1 DEF RefTo
  <1>3. HeaderOf[n] \in Nat /\ n \in Nat
    BY ReportAssumption
  <1>4. QED
    BY <1>1, <1>2, <1>3

\* An identifier has one header string.
LEMMA RefEquality ==
  ASSUME NEW r1 \in Refs, NEW r2 \in Refs, r1.ref_sym = r2.ref_sym
  PROVE  r1 = r2
  BY DEF Refs, RefTo

\* refcmp is a strict and total order: it never returns 0 for two different
\* references.
LEMMA RefcmpOrders ==
  /\ \A r1, r2 \in Refs : refcmp(r1, r2) \/ refcmp(r2, r1) \/ r1 = r2
  /\ \A r1, r2 \in Refs : refcmp(r1, r2) => r1 # r2 /\ ~refcmp(r2, r1)
  /\ \A r1, r2, r3 \in Refs : refcmp(r1, r2) /\ refcmp(r2, r3) => refcmp(r1, r3)
  <1>1. \A r \in Refs : r.inc_sym \in Nat /\ r.ref_sym \in Nat
    BY RefTypes
  <1>2. ASSUME NEW r1 \in Refs, NEW r2 \in Refs
        PROVE  refcmp(r1, r2) \/ refcmp(r2, r1) \/ r1 = r2
    BY <1>1, RefEquality DEF refcmp
  <1>3. ASSUME NEW r1 \in Refs, NEW r2 \in Refs, refcmp(r1, r2)
        PROVE  r1 # r2 /\ ~refcmp(r2, r1)
    BY <1>1, <1>3 DEF refcmp
  <1>4. ASSUME NEW r1 \in Refs, NEW r2 \in Refs, NEW r3 \in Refs,
               refcmp(r1, r2), refcmp(r2, r3)
        PROVE  refcmp(r1, r3)
    BY <1>1, <1>4 DEF refcmp
  <1>5. QED
    BY <1>2, <1>3, <1>4

\* The entry j of a table comes no later than the entry i.
NotBehind(refs, j, i) == refcmp(refs[j], refs[i]) \/ (refs[j] = refs[i] /\ j <= i)

UpTo(refs, i) == {j \in DOMAIN refs : NotBehind(refs, j, i)}

\* Every entry has a place of its own in the sorted table, and every place
\* has an entry.
LEMMA Places ==
  ASSUME NEW refs \in Seq(Refs)
  PROVE  /\ \A i \in DOMAIN refs : PlaceOf(refs, i) \in DOMAIN refs
         /\ \A i, j \in DOMAIN refs :
               PlaceOf(refs, i) < PlaceOf(refs, j) <=> NotBehind(refs, i, j) /\ i # j
         /\ \A k \in DOMAIN refs : \E i \in DOMAIN refs : PlaceOf(refs, i) = k
  <1> DEFINE n == Len(refs)
             D == 1..n
  <1>1. DOMAIN refs = D /\ n \in Nat /\ \A i \in D : refs[i] \in Refs
    OBVIOUS
  <1>2. IsFiniteSet(D) /\ Cardinality(D) = n
    <2>1. 1 \in Int /\ n \in Int
      BY <1>1
    <2>2. /\ IsFiniteSet(1..n)
          /\ Cardinality(1..n) = IF 1 > n THEN 0 ELSE n - 1 + 1
      BY <2>1, FS_Interval
    <2>3. QED
      BY <1>1, <2>2
  <1>3. \A i \in D : UpTo(refs, i) \in SUBSET D /\ i \in UpTo(refs, i)
                     /\ PlaceOf(refs, i) = Cardinality(UpTo(refs, i))
    BY <1>1 DEF UpTo, NotBehind, PlaceOf
  <1>4. \A i \in D : IsFiniteSet(UpTo(refs, i)) /\ PlaceOf(refs, i) \in D
    <2> SUFFICES ASSUME NEW i \in D
                 PROVE  IsFiniteSet(UpTo(refs, i)) /\ PlaceOf(refs, i) \in D
      OBVIOUS
    <2>1. /\ IsFiniteSet(UpTo(refs, i)) /\ Cardinality(UpTo(refs, i)) <= n
      BY <1>2, <1>3, FS_Subset
    <2>2. Cardinality(UpTo(refs, i)) \in Nat /\ Cardinality(UpTo(refs, i)) # 0
      BY <1>3, <2>1, FS_CardinalityType, FS_EmptySet
    <2>3. QED
      BY <1>1, <1>3, <2>1, <2>2
  <1>5. \A i, j \in D : NotBehind(refs, i, j) \/ NotBehind(refs, j, i)
    BY <1>1, RefcmpOrders DEF NotBehind
  <1>6. \A i, j \in D : NotBehind(refs, i, j) /\ NotBehind(refs, j, i) => i = j
    BY <1>1, RefcmpOrders DEF NotBehind
  <1>7. \A i, j, k \in D : NotBehind(refs, i, j) /\ NotBehind(refs, j, k) => NotBehind(refs, i, k)
    BY <1>1, RefcmpOrders DEF NotBehind
  <1>8. ASSUME NEW i \in D, NEW j \in D, NotBehind(refs, i, j), i # j
        PROVE  PlaceOf(refs, i) < PlaceOf(refs, j)
    <2>1. UpTo(refs, i) \in SUBSET UpTo(refs, j)
      BY <1>1, <1>7, <1>8 DEF UpTo
    <2>2. j \in UpTo(refs, j) /\ j \notin UpTo(refs, i)
      BY <1>1, <1>3, <1>6, <1>8 DEF UpTo
    <2>3. /\ Cardinality(UpTo(refs, i)) <= Cardinality(UpTo(refs, j))
          /\ Cardinality(UpTo(refs, i)) # Cardinality(UpTo(refs, j))
      BY <1>4, <2>1, <2>2, FS_Subset
    <2>4. PlaceOf(refs, i) \in Nat /\ PlaceOf(refs, j) \in Nat
      BY <1>1, <1>4
    <2>5. QED
      BY <1>3, <2>3, <2>4
  <1>9. \A i, j \in D : PlaceOf(refs, i) < PlaceOf(refs, j) <=> NotBehind(refs, i, j) /\ i # j
    <2> SUFFICES ASSUME NEW i \in D, NEW j \in D, PlaceOf(refs, i) < PlaceOf(refs, j)
                 PROVE  NotBehind(refs, i, j) /\ i # j
      BY <1>8
    <2>1. PlaceOf(refs, i) \in Nat /\ PlaceOf(refs, j) \in Nat
      BY <1>1, <1>4
    <2>2. i # j
      BY <2>1
    <2>3. ~NotBehind(refs, j, i)
      BY <1>8, <2>1, <2>2
    <2>4. QED
      BY <1>5, <2>2, <2>3
  <1>10. \A k \in D : \E i \in D : PlaceOf(refs, i) = k
    <2> DEFINE f == [i \in D |-> PlaceOf(refs, i)]
    <2>1. f \in [D -> D]
      BY <1>4
    <2>2. \A i, j \in D : f[i] = f[j] => i = j
      <3> SUFFICES ASSUME NEW i \in D, NEW j \in D, PlaceOf(refs, i) = PlaceOf(refs, j), i # j
                   PROVE  FALSE
        OBVIOUS
      <3>1. PlaceOf(refs, i) \in Nat
        BY <1>1, <1>4
      <3>2. QED
        BY <1>5, <1>8, <3>1
    <2> HIDE DEF f
    <2>3. f \in Injection(D, D)
      BY <2>1, <2>2 DEF Injection, IsInjective
    <2>4. f \in Surjection(D, D)
      BY <1>2, <2>3, FS_Injection
    <2>5. \A k \in D : \E i \in D : f[i] = k
      BY <2>4 DEF Surjection
    <2>6. QED
      BY <2>5 DEF f
  <1>11. QED
    BY <1>1, <1>4, <1>9, <1>10

\* The table that qsort leaves has the entries of the one it was given, each
\* as often, and is in the order of refcmp (incbot.c:898).
THEOREM QsortSorts ==
  ASSUME NEW refs \in Seq(Refs)
  PROVE  /\ qsort(refs) \in Seq(Refs)
         /\ Len(qsort(refs)) = Len(refs)
         /\ \E p \in Bijection(DOMAIN refs, DOMAIN refs) :
               \A k \in DOMAIN refs : qsort(refs)[k] = refs[p[k]]
         /\ \A k, l \in DOMAIN refs : k < l => ~refcmp(qsort(refs)[l], qsort(refs)[k])
  <1> DEFINE D == DOMAIN refs
             p == [k \in D |-> CHOOSE i \in D : PlaceOf(refs, i) = k]
  <1>1. D = 1..Len(refs) /\ Len(refs) \in Nat /\ \A i \in D : refs[i] \in Refs
    OBVIOUS
  <1>2. \A k \in D : p[k] \in D /\ PlaceOf(refs, p[k]) = k
    BY Places
  <1>3. qsort(refs) = [k \in D |-> refs[p[k]]]
    BY DEF qsort
  <1>4. \A i, j \in D : PlaceOf(refs, i) < PlaceOf(refs, j) <=> NotBehind(refs, i, j) /\ i # j
    BY Places
  <1>5. \A i \in D : PlaceOf(refs, i) \in D
    BY Places
  <1>6. \A i \in D : p[PlaceOf(refs, i)] = i
    <2> SUFFICES ASSUME NEW i \in D PROVE p[PlaceOf(refs, i)] = i
      OBVIOUS
    <2> DEFINE j == p[PlaceOf(refs, i)]
    <2>1. j \in D /\ PlaceOf(refs, j) = PlaceOf(refs, i)
      BY <1>2, <1>5
    <2> HIDE DEF j, p
    <2>2. refs[i] \in Refs /\ refs[j] \in Refs /\ PlaceOf(refs, i) \in Nat
      BY <1>1, <1>5, <2>1
    <2>3. NotBehind(refs, i, j) \/ NotBehind(refs, j, i)
      BY <1>1, <2>1, <2>2, RefcmpOrders DEF NotBehind
    <2>4. i = j
      BY <1>4, <2>1, <2>2, <2>3
    <2>5. QED
      BY <2>4 DEF j
  <1> HIDE DEF p
  <1>7. p \in Bijection(D, D)
    <2>1. p \in [D -> D]
      BY <1>2 DEF p
    <2>2. \A k, l \in D : p[k] = p[l] => k = l
      BY <1>2
    <2>3. p \in Injection(D, D)
      BY <2>1, <2>2 DEF Injection, IsInjective
    <2>4. p \in Surjection(D, D)
      BY <1>5, <1>6, <2>1 DEF Surjection
    <2>5. QED
      BY <2>3, <2>4 DEF Bijection
  <1>8. qsort(refs) \in Seq(Refs) /\ Len(qsort(refs)) = Len(refs)
    <2>1. qsort(refs) \in [1..Len(refs) -> Refs]
      BY <1>1, <1>2, <1>3
    <2>2. QED
      BY <1>1, <2>1
  <1>9. \A k, l \in D : k < l => ~refcmp(qsort(refs)[l], qsort(refs)[k])
    <2> SUFFICES ASSUME NEW k \in D, NEW l \in D, k < l
                 PROVE  ~refcmp(refs[p[l]], refs[p[k]])
      BY <1>3
    <2>1. p[k] \in D /\ p[l] \in D /\ NotBehind(refs, p[k], p[l])
      BY <1>2, <1>4
    <2>2. QED
      BY <1>1, <2>1, RefcmpOrders DEF NotBehind
  <1>10. QED
    BY <1>3, <1>7, <1>8, <1>9

----------------------------------------------------------------------------
\* The report.

\* Every non-empty set of natural numbers has a least member.
LEMMA NatMin ==
  ASSUME NEW T, T \subseteq Nat, T # {}
  PROVE  \E x \in T : \A y \in T : x <= y
  <1> DEFINE R == OpToRel(<, Nat)
  <1>1. IsWellFoundedOn(R, Nat)
    BY NatLessThanWellFounded
  <1>2. \A x, y \in Nat : x < y => <<x, y>> \in R
    BY DEF OpToRel
  <1> HIDE DEF R
  <1>3. PICK x \in T : \A y \in T : ~(<<y, x>> \in R)
    BY <1>1, WFMin
  <1>4. ASSUME NEW y \in T PROVE x <= y
    <2>1. x \in Nat /\ y \in Nat
      OBVIOUS
    <2>2. ~(y < x)
      BY <1>2, <1>3, <2>1
    <2>3. QED
      BY <2>1, <2>2
  <1>5. QED
    BY <1>4

\* An entry of a report, and a line of one.
Entry == [header : Headers, part : {0, 1}, nr : Nat]
ReportLine == {Include(name) : name \in Seq(STRING)} \cup {Import(n) : n \in Nat}

NameEntry(h, p) == [header |-> h, part |-> 0, nr |-> p]
IdentEntry(n) == [header |-> HeaderOf[n], part |-> 1, nr |-> n]

\* The lines are a report of the entries.
Shown(lines, E) ==
    /\ lines \in Seq(ReportLine)
    /\ IsFiniteSet(E) /\ E \subseteq Entry
    /\ ShowsEntries(lines, E)

\* The line of an entry that all others precede goes to the end.
LEMMA EntryAdded ==
  ASSUME NEW E, NEW lines, Shown(lines, E),
         NEW e \in Entry, EntryLine(e) \in ReportLine, \A d \in E : Precedes(d, e)
  PROVE  Shown(Append(lines, EntryLine(e)), E \cup {e})
  <1> USE DEF Shown
  <1>0. Headers \subseteq Nat
    BY ReportAssumption
  <1>1. \A d \in Entry : d.header \in Nat /\ d.part \in {0, 1} /\ d.nr \in Nat
    BY <1>0 DEF Entry
  <1>2. \A d \in Entry : ~Precedes(d, d)
    BY <1>1 DEF Precedes
  <1>3. \A c, d \in Entry : Precedes(c, d) => ~Precedes(d, c)
    BY <1>1 DEF Precedes
  <1>4. e \notin E
    BY <1>2
  <1> DEFINE n == Cardinality(E)
             F == E \cup {e}
             Earlier(S, d) == {c \in S : Precedes(c, d)}
             longer == Append(lines, EntryLine(e))
  <1>5. n \in Nat /\ IsFiniteSet(F) /\ Cardinality(F) = n + 1
    BY <1>4, FS_CardinalityType, FS_AddElement
  <1>6. /\ longer \in Seq(ReportLine) /\ Len(longer) = n + 1
        /\ \A i \in 1..n : longer[i] = lines[i]
        /\ longer[n + 1] = EntryLine(e)
    <2>1. Len(lines) = n
      BY DEF ShowsEntries
    <2>2. QED
      BY <2>1, AppendProperties
  <1>7. Earlier(F, e) = E
    BY <1>2
  <1>8. ASSUME NEW d \in E
        PROVE  Earlier(F, d) = Earlier(E, d) /\ 1 + Cardinality(Earlier(E, d)) \in 1..n
    <2>1. Earlier(F, d) = Earlier(E, d)
      BY <1>3
    <2>2. Earlier(E, d) \in SUBSET E /\ d \notin Earlier(E, d)
      BY <1>2
    <2> HIDE DEF Earlier
    <2>3. /\ IsFiniteSet(Earlier(E, d)) /\ Cardinality(Earlier(E, d)) <= n
          /\ Cardinality(Earlier(E, d)) # n
      BY <2>2, FS_Subset
    <2>4. Cardinality(Earlier(E, d)) \in Nat
      BY <2>3, FS_CardinalityType
    <2>5. QED
      BY <1>5, <2>1, <2>3, <2>4
  <1>9. ASSUME NEW d \in F
        PROVE  longer[1 + Cardinality(Earlier(F, d))] = EntryLine(d)
    <2>1. CASE d = e
      <3> HIDE DEF Earlier, longer
      <3>1. 1 + n = n + 1
        BY <1>5
      <3>2. QED
        BY <1>6, <1>7, <2>1, <3>1
    <2>2. CASE d \in E
      <3>1. lines[1 + Cardinality(Earlier(E, d))] = EntryLine(d)
        BY <2>2 DEF ShowsEntries
      <3> HIDE DEF Earlier, longer
      <3>2. QED
        BY <1>6, <1>8, <2>2, <3>1
    <2>3. QED
      BY <2>1, <2>2
  <1>10. ShowsEntries(longer, F)
    BY <1>5, <1>6, <1>9 DEF ShowsEntries
  <1>11. QED
    BY <1>5, <1>6, <1>10

----------------------------------------------------------------------------
\* The names of a header string without two Bars in a row.

\* The largest member of a set, once it is known.
LEMMA MaxIs ==
  ASSUME NEW S, S \subseteq Int, NEW x \in S, \A y \in S : y <= x
  PROVE  Max(S) = x
  <1>1. x \in S /\ \A y \in S : x >= y
    OBVIOUS
  <1>2. \A z \in S : (\A y \in S : z >= y) => z = x
    <2> TAKE z \in S
    <2> HAVE \A y \in S : z >= y
    <2>1. z >= x /\ z <= x /\ z \in Int /\ x \in Int
      OBVIOUS
    <2>2. QED
      BY <2>1
  <1>3. QED
    BY <1>1, <1>2 DEF Max

\* Each of its Bars splits it.
LEMMA SplitsAtBars ==
  ASSUME NEW h \in Headers, ~DoubledBar(h)
  PROVE  SplitsAt(h) = {p \in 1..Len(HeaderText[h]) : HeaderText[h][p] = Bar}
  <1> DEFINE text == HeaderText[h]
             others(p) == {q \in 0..(p - 1) : q = 0 \/ text[q] # Bar}
  <1>1. text \in Seq(STRING) /\ Len(text) \in Nat
    BY ReportAssumption
  <1>2. ASSUME NEW p \in 1..Len(text), text[p] = Bar
        PROVE  (p - Max(others(p))) % 2 = 1
    <2>1. p \in Int /\ p - 1 \in 0..(p - 1)
      BY <1>1
    <2>2. p - 1 = 0 \/ text[p - 1] # Bar
      <3>1. SUFFICES ASSUME p # 1 PROVE text[p - 1] # Bar
        BY <2>1
      <3>2. p \in 2..Len(text)
        BY <1>1, <3>1
      <3>3. QED
        BY <1>2, <3>2 DEF DoubledBar
    <2>3. p - 1 \in others(p)
      BY <2>1, <2>2
    <2>4. others(p) \subseteq Int /\ \A y \in others(p) : y <= p - 1
      BY <2>1
    <2> HIDE DEF others
    <2>5. Max(others(p)) = p - 1
      BY <2>3, <2>4, MaxIs
    <2>6. p - (p - 1) = 1
      BY <2>1
    <2>7. QED
      BY <2>5, <2>6
  <1>3. SplitsAt(h) = {p \in 1..Len(text) : text[p] = Bar /\ (p - Max(others(p))) % 2 = 1}
    BY DEF SplitsAt
  <1> HIDE DEF others
  <1>4. QED
    BY <1>2, <1>3

\* A name has one end.
LEMMA NameEnds ==
  ASSUME NEW h \in Headers, NEW p \in NameStarts(h), NEW q \in p..Len(HeaderText[h]),
         EndsName(HeaderText[h], p, q)
  PROVE  NameAt(h, p) = SubSeq(HeaderText[h], p, q)
  <1> DEFINE text == HeaderText[h]
  <1>1. text \in Seq(STRING) /\ Len(text) \in Nat /\ p \in 1..Len(text)
    BY ReportAssumption DEF NameStarts
  <1> HIDE DEF text
  <1>2. ASSUME NEW r \in p..Len(text), NEW s \in p..Len(text),
               EndsName(text, p, r), EndsName(text, p, s), r < s
        PROVE  FALSE
    <2>1. r + 1 \in p..s /\ r # Len(text)
      BY <1>1, <1>2
    <2>2. QED
      BY <1>2, <2>1 DEF EndsName
  <1>3. \A r \in p..Len(text) : EndsName(text, p, r) => r = q
    <2> TAKE r \in p..Len(text)
    <2> HAVE EndsName(text, p, r)
    <2>1. q \in p..Len(text) /\ EndsName(text, p, q)
      BY DEF text
    <2>2. ~(r < q) /\ ~(q < r)
      BY <1>2, <2>1
    <2>3. QED
      BY <1>1, <2>1, <2>2
  <1>4. (CHOOSE r \in p..Len(text) : EndsName(text, p, r)) = q
    BY <1>3 DEF text
  <1>5. QED
    BY <1>4 DEF NameAt, text

\* Every name ends somewhere.
LEMMA NameHasEnd ==
  ASSUME NEW h \in Headers, NEW p \in NameStarts(h)
  PROVE  \E q \in p..Len(HeaderText[h]) : EndsName(HeaderText[h], p, q)
  <1> DEFINE text == HeaderText[h]
             T == {q \in Nat : q \in p..Len(text) /\ (q = Len(text) \/ text[q + 1] = Bar)}
  <1>1. Len(text) \in Nat /\ p \in 1..Len(text) /\ text[p] # Bar
    BY ReportAssumption DEF NameStarts
  <1> HIDE DEF text
  <1>2. Len(text) \in T
    BY <1>1
  <1>3. PICK q \in T : \A r \in T : q <= r
    <2>1. T \subseteq Nat /\ T # {}
      BY <1>2
    <2>2. QED
      BY <2>1, NatMin
  <1>4. ASSUME NEW k \in p..q PROVE text[k] # Bar
    <2>1. CASE k = p
      BY <1>1, <2>1
    <2>2. CASE k # p
      <3>1. k - 1 \in Nat /\ k - 1 \in p..Len(text) /\ k - 1 < q /\ (k - 1) + 1 = k
        BY <1>1, <1>3, <2>2
      <3>2. k - 1 \notin T
        <4>1. q \in Int /\ k \in Int
          BY <1>1, <1>3
        <4>2. k - 1 \in T => q <= k - 1
          BY <1>3
        <4>3. QED
          BY <3>1, <4>1, <4>2
      <3>3. QED
        BY <3>1, <3>2
    <2>3. QED
      BY <2>1, <2>2
  <1>5. EndsName(text, p, q)
    BY <1>3, <1>4 DEF EndsName
  <1>6. QED
    BY <1>3, <1>5 DEF text

\* The names that end before a place.
NamesBefore(h, p2) ==
    {p \in NameStarts(h) : \E q \in p..(p2 - 1) : EndsName(HeaderText[h], p, q)}

\* Before the string no name has ended, and behind it all have.
LEMMA AllNames ==
  ASSUME NEW h \in Headers
  PROVE  /\ NamesBefore(h, 0) = {}
         /\ NamesBefore(h, Len(HeaderText[h]) + 1) = NameStarts(h)
  <1> DEFINE n == Len(HeaderText[h])
  <1>1. n \in Nat /\ NameStarts(h) \subseteq 1..n
    BY ReportAssumption DEF NameStarts
  <1>2. NamesBefore(h, 0) = {}
    <2>1. \A p \in NameStarts(h) : p..(0 - 1) = {}
      BY <1>1
    <2>2. QED
      BY <2>1 DEF NamesBefore
  <1>3. (n + 1) - 1 = n
    BY <1>1
  <1>4. NamesBefore(h, n + 1) = NameStarts(h)
    BY <1>3, NameHasEnd DEF NamesBefore
  <1>5. QED
    BY <1>2, <1>4

\* The start of the piece before a place: nothing behind it is a Bar, and it
\* is the first place or behind one.
LEMMA PieceStart ==
  ASSUME NEW h \in Headers, ~DoubledBar(h),
         NEW p2 \in 1..(Len(HeaderText[h]) + 1)
  PROVE  LET p1 == NameBefore(SplitsAt(h), p2)
         IN  /\ p1 \in 1..p2
             /\ \A k \in p1..(p2 - 1) : HeaderText[h][k] # Bar
             /\ p1 = 1 \/ HeaderText[h][p1 - 1] = Bar
  <1> DEFINE text == HeaderText[h]
             S == {0} \cup {p \in SplitsAt(h) : p < p2}
             p1 == NameBefore(SplitsAt(h), p2)
  <1>1. Len(text) \in Nat
    BY ReportAssumption
  <1>2. SplitsAt(h) = {p \in 1..Len(text) : text[p] = Bar}
    BY SplitsAtBars
  <1> HIDE DEF text
  <1>3. S \subseteq Int /\ \A x \in S : x \in 0..(p2 - 1) /\ (x # 0 => text[x] = Bar)
    BY <1>1, <1>2 DEF text
  <1>4. \A k \in 1..(p2 - 1) : text[k] = Bar => k \in S
    BY <1>1, <1>2 DEF text
  <1>5. PICK m \in S : \A x \in S : x <= m
    <2> DEFINE T == {(p2 - 1) - x : x \in S}
    <2>1. T \subseteq Nat /\ T # {}
      BY <1>1, <1>3 DEF text
    <2>2. PICK t \in T : \A y \in T : t <= y
      BY <2>1, NatMin
    <2>3. PICK m \in S : t = (p2 - 1) - m
      BY <2>2
    <2>4. ASSUME NEW x \in S PROVE x <= m
      <3>1. t <= (p2 - 1) - x
        BY <2>2
      <3>2. x \in Int /\ m \in Int /\ p2 \in Int
        BY <1>1, <1>3 DEF text
      <3>3. QED
        BY <2>3, <3>1, <3>2
    <2>5. QED
      BY <2>4
  <1> HIDE DEF S
  <1>6. Max(S) = m
    BY <1>3, <1>5, MaxIs
  <1>7. p1 = 1 + m
    BY <1>6 DEF S, NameBefore
  <1>8. m \in 0..(p2 - 1) /\ (m # 0 => text[m] = Bar)
    BY <1>3
  <1>9. p1 \in 1..p2 /\ p1 - 1 = m
    BY <1>1, <1>7, <1>8 DEF text
  <1> HIDE DEF p1
  <1>10. ASSUME NEW k \in p1..(p2 - 1) PROVE text[k] # Bar
    <2>1. k \in 1..(p2 - 1) /\ k > m
      BY <1>1, <1>7, <1>8 DEF text
    <2>2. k \notin S
      BY <1>5, <1>8, <2>1
    <2>3. QED
      BY <1>4, <2>1, <2>2
  <1>11. p1 = 1 \/ text[p1 - 1] = Bar
    BY <1>7, <1>8, <1>9
  <1>12. QED
    BY <1>9, <1>10, <1>11 DEF text, p1

\* One place of the loop over a header string: it adds the name that ends
\* there, behind all earlier ones, and no other.
LEMMA NameStep ==
  ASSUME NEW h \in Headers, ~DoubledBar(h),
         NEW p2 \in 1..(Len(HeaderText[h]) + 1)
  PROVE  LET p1 == NameBefore(SplitsAt(h), p2)
         IN  IF p2 \in SplitsAt(h) \cup {Len(HeaderText[h]) + 1} /\ p1 < p2
               THEN /\ NamesBefore(h, p2) = NamesBefore(h, p2 - 1) \cup {p1}
                    /\ p1 \in NameStarts(h)
                    /\ NameAt(h, p1) = SubSeq(HeaderText[h], p1, p2 - 1)
                    /\ \A p \in NamesBefore(h, p2 - 1) : p < p1
               ELSE NamesBefore(h, p2) = NamesBefore(h, p2 - 1)
  <1> DEFINE text == HeaderText[h]
             n == Len(text)
             p1 == NameBefore(SplitsAt(h), p2)
  <1>1. n \in Nat
    BY ReportAssumption
  <1>2. SplitsAt(h) = {p \in 1..n : text[p] = Bar}
    BY SplitsAtBars
  <1>3. /\ p1 \in 1..p2 /\ \A k \in p1..(p2 - 1) : text[k] # Bar
        /\ p1 = 1 \/ text[p1 - 1] = Bar
    BY PieceStart
  <1>4. NameStarts(h) = {p \in 1..n : text[p] # Bar /\ (p = 1 \/ text[p - 1] = Bar)}
    BY DEF NameStarts
  <1>5. \A p : p \in NamesBefore(h, p2) <=>
                 p \in NameStarts(h) /\ \E q \in p..(p2 - 1) : EndsName(text, p, q)
    BY DEF NamesBefore
  <1>6. \A p : p \in NamesBefore(h, p2 - 1) <=>
                 p \in NameStarts(h) /\ \E q \in p..(p2 - 1 - 1) : EndsName(text, p, q)
    BY DEF NamesBefore
  <1>7. p2 \in 1..(n + 1) /\ p2 \in Int
    BY <1>1
  <1> HIDE DEF n, p1
  <1>8. ASSUME NEW p \in NameStarts(h)
        PROVE  p \in NamesBefore(h, p2) <=>
                 \/ p \in NamesBefore(h, p2 - 1)
                 \/ p <= p2 - 1 /\ EndsName(text, p, p2 - 1)
    <2>1. p \in 1..n
      BY <1>4
    <2>2. \A q : q \in p..(p2 - 1) <=> q \in p..(p2 - 1 - 1) \/ (q = p2 - 1 /\ p <= p2 - 1)
      BY <1>1, <1>7, <2>1
    <2>3. QED
      BY <1>5, <1>6, <2>2
  <1>9. CASE p2 \in SplitsAt(h) \cup {n + 1} /\ p1 < p2
    <2>1. p1 \in 1..n /\ p1 \in p1..(p2 - 1) /\ p1 <= p2 - 1
      BY <1>1, <1>3, <1>7, <1>9
    <2>2. p1 \in NameStarts(h)
      BY <1>3, <1>4, <2>1
    <2>3. p2 - 1 = n \/ text[(p2 - 1) + 1] = Bar
      <3>1. p2 = n + 1 \/ text[p2] = Bar
        BY <1>2, <1>9
      <3>2. (p2 - 1) + 1 = p2 /\ (n + 1) - 1 = n
        BY <1>1, <1>7
      <3>3. QED
        BY <3>1, <3>2
    <2>4. EndsName(text, p1, p2 - 1)
      BY <1>3, <2>3 DEF EndsName, n
    <2>5. p2 - 1 \in p1..n
      BY <1>1, <1>7, <2>1
    <2>6. NameAt(h, p1) = SubSeq(text, p1, p2 - 1)
      BY <2>2, <2>4, <2>5, NameEnds DEF n
    <2>7. ASSUME NEW p \in NameStarts(h), p <= p2 - 1, EndsName(text, p, p2 - 1)
          PROVE  p = p1
      <3>1. p \in 1..n /\ (p = 1 \/ text[p - 1] = Bar)
        BY <1>4
      <3>2. ~(p1 < p)
        <4>1. SUFFICES ASSUME p1 < p PROVE FALSE
          OBVIOUS
        <4>2. p - 1 \in p1..(p2 - 1) /\ p # 1
          BY <1>1, <1>7, <2>1, <2>7, <3>1, <4>1
        <4>3. QED
          BY <1>3, <3>1, <4>2
      <3>3. ~(p < p1)
        <4>1. SUFFICES ASSUME p < p1 PROVE FALSE
          OBVIOUS
        <4>2. p1 - 1 \in p..(p2 - 1) /\ p1 # 1
          BY <1>1, <1>7, <2>1, <3>1, <4>1
        <4>3. text[p1 - 1] # Bar
          BY <2>7, <4>2 DEF EndsName
        <4>4. QED
          BY <1>3, <4>2, <4>3
      <3>4. QED
        BY <2>1, <3>1, <3>2, <3>3
    <2>8. ASSUME NEW p \in NamesBefore(h, p2 - 1) PROVE p < p1
      <3>1. p \in NameStarts(h) /\ p \in 1..n
        BY <1>4, <1>6
      <3>2. PICK q \in p..(p2 - 1 - 1) : EndsName(text, p, q)
        BY <1>6
      <3>3. q \in Int /\ p <= q /\ q + 1 <= p2 - 1 /\ q < n
        BY <1>1, <1>7, <3>1
      <3>4. text[q + 1] = Bar
        BY <3>2, <3>3 DEF EndsName, n
      <3>5. q + 1 \notin p1..(p2 - 1)
        BY <1>3, <3>4
      <3>6. QED
        BY <2>1, <3>1, <3>3, <3>5
    <2>9. NamesBefore(h, p2) = NamesBefore(h, p2 - 1) \cup {p1}
      <3>1. \A p : p \in NamesBefore(h, p2) => p \in NameStarts(h)
        BY <1>5
      <3>2. \A p : p \in NamesBefore(h, p2 - 1) => p \in NameStarts(h)
        BY <1>6
      <3>3. QED
        BY <1>8, <2>1, <2>2, <2>4, <2>7, <3>1, <3>2
    <2>10. QED
      BY <1>9, <2>2, <2>6, <2>8, <2>9 DEF n, p1
  <1>10. CASE ~(p2 \in SplitsAt(h) \cup {n + 1} /\ p1 < p2)
    <2>1. ASSUME NEW p \in NameStarts(h), p <= p2 - 1, EndsName(text, p, p2 - 1)
          PROVE  FALSE
      <3>1. p \in 1..n
        BY <1>4
      <3>2. p2 = n + 1 \/ text[p2] = Bar
        <4>1. p2 - 1 = n \/ text[(p2 - 1) + 1] = Bar
          BY <2>1 DEF EndsName, n
        <4>2. (p2 - 1) + 1 = p2
          BY <1>7
        <4>3. p2 - 1 = n => p2 = n + 1
          BY <1>1, <1>7
        <4>4. QED
          BY <4>1, <4>2, <4>3
      <3>3. p2 \in SplitsAt(h) \cup {n + 1}
        BY <1>2, <1>7, <3>2, <1>1
      <3>4. p1 = p2
        <4>1. ~(p1 < p2)
          BY <1>10, <3>3
        <4>2. QED
          BY <1>3, <1>7, <4>1
      <3>5. p1 # 1 /\ p2 - 1 \in p..(p2 - 1)
        BY <1>1, <1>7, <2>1, <3>1, <3>4
      <3>6. text[p2 - 1] = Bar
        BY <1>3, <3>4, <3>5
      <3>7. QED
        BY <2>1, <3>5, <3>6 DEF EndsName
    <2>2. \A p : p \in NamesBefore(h, p2) => p \in NameStarts(h)
      BY <1>5
    <2>3. \A p : p \in NamesBefore(h, p2 - 1) => p \in NameStarts(h)
      BY <1>6
    <2>4. NamesBefore(h, p2) = NamesBefore(h, p2 - 1)
      BY <1>8, <2>1, <2>2, <2>3
    <2>5. QED
      BY <1>10, <2>4 DEF n, p1
  <1>11. QED
    BY <1>9, <1>10

----------------------------------------------------------------------------
\* The #include lines.

\* A step function, from the empty report, gives a sequence of reports.
LEMMA Iterates ==
  ASSUME NEW n \in Nat, NEW G \in [(1..n) \X Seq(ReportLine) -> Seq(ReportLine)]
  PROVE  \E f \in [0..n -> Seq(ReportLine)] :
            f[0] = <<>> /\ \A k \in 1..n : f[k] = G[k, f[k - 1]]
  <1> DEFINE V == Seq(ReportLine)
             v == <<>>
  <1>0. v \in V
    OBVIOUS
  <1> HIDE DEF V, v
  <1> DEFINE Good(m, f) == f[0] = v /\ \A k \in 1..m : f[k] = G[k, f[k - 1]]
             Exists(m) == \E f \in [0..m -> V] : Good(m, f)
             T == {m \in Nat : m <= n /\ ~Exists(m)}
  <1>1. ASSUME NEW m \in Nat, NEW f \in [0..m -> V], Good(m, f)
        PROVE  Exists(m)
    BY <1>1
  <1>2. ASSUME NEW m \in Nat, Exists(m)
        PROVE  \E f \in [0..m -> V] : Good(m, f)
    BY <1>2
  <1> HIDE DEF Exists
  <1>3. Exists(0)
    <2> DEFINE f == [k \in 0..0 |-> v]
    <2>1. f \in [0..0 -> V] /\ f[0] = v
      BY <1>0
    <2>2. 1..0 = {}
      OBVIOUS
    <2>3. Good(0, f)
      BY <2>1, <2>2
    <2> HIDE DEF f, Good
    <2>4. QED
      BY <1>1, <2>1, <2>3
  <1>4. ASSUME NEW m \in Nat, m # 0, m <= n, Exists(m - 1)
        PROVE  Exists(m)
    <2>1. m - 1 \in Nat /\ m \in 1..n /\ m - 1 \in 0..(m - 1)
      BY <1>4
    <2>2. PICK f \in [0..(m - 1) -> V] : Good(m - 1, f)
      BY <1>2, <1>4, <2>1
    <2> DEFINE g == [k \in 0..m |-> IF k = m THEN G[m, f[m - 1]] ELSE f[k]]
    <2>3. f[m - 1] \in V /\ G[m, f[m - 1]] \in V
      BY <2>1 DEF V
    <2>4. \A k \in 0..m : k # m => k \in 0..(m - 1)
      BY <2>1
    <2>5. g \in [0..m -> V]
      BY <2>3, <2>4
    <2>6. g[0] = v
      <3>1. 0 \in 0..m /\ 0 # m
        BY <1>4
      <3>2. QED
        BY <2>2, <3>1
    <2>7. ASSUME NEW k \in 1..m PROVE g[k] = G[k, g[k - 1]]
      <3>1. k \in 0..m /\ k - 1 \in 0..m /\ k - 1 # m
        BY <2>1
      <3>2. g[k - 1] = f[k - 1]
        BY <3>1
      <3>3. CASE k = m
        BY <3>1, <3>2, <3>3
      <3>4. CASE k # m
        <4>1. k \in 1..(m - 1)
          BY <2>1, <3>4
        <4>2. f[k] = G[k, f[k - 1]]
          BY <2>2, <4>1
        <4>3. g[k] = f[k]
          BY <3>1, <3>4
        <4>4. QED
          BY <3>2, <4>2, <4>3
      <3>5. QED
        BY <3>3, <3>4
    <2>8. Good(m, g)
      BY <2>6, <2>7
    <2> HIDE DEF g, Good
    <2>9. QED
      BY <1>1, <2>5, <2>8
  <1>5. T = {}
    <2>1. SUFFICES ASSUME T # {} PROVE FALSE
      OBVIOUS
    <2>2. PICK m \in T : \A y \in T : m <= y
      <3>1. T \subseteq Nat
        OBVIOUS
      <3>2. QED
        BY <2>1, <3>1, NatMin
    <2>3. m \in Nat /\ m <= n /\ ~Exists(m)
      OBVIOUS
    <2>4. m # 0
      BY <1>3, <2>3
    <2>5. m - 1 \in Nat /\ m - 1 <= n /\ ~(m <= m - 1)
      BY <2>3, <2>4
    <2>6. ~Exists(m - 1)
      BY <1>4, <2>3, <2>4
    <2>7. m - 1 \in T
      BY <2>5, <2>6
    <2>8. QED
      BY <2>2, <2>5, <2>7
  <1>6. Exists(n)
    <2>1. n <= n
      OBVIOUS
    <2>2. QED
      BY <1>5, <2>1
  <1>7. QED
    BY <1>2, <1>6 DEF V, v

\* The loop over a header string, in IncludeLines.
NextName(h, p2, before) ==
    LET p1 == NameBefore(SplitsAt(h), p2)
    IN  IF p2 \in SplitsAt(h) \cup {Len(HeaderText[h]) + 1} /\ p1 < p2
          THEN Append(before, Include(SubSeq(HeaderText[h], p1, p2 - 1)))
          ELSE before

AreNames(h, f) ==
    f = [p2 \in 0..(Len(HeaderText[h]) + 1) |->
           IF p2 = 0 THEN <<>> ELSE NextName(h, p2, f[p2 - 1])]

\* What the loop prints between two splits is an #include line.
LEMMA NameLine ==
  ASSUME NEW h \in Headers, ~DoubledBar(h),
         NEW p2 \in 1..(Len(HeaderText[h]) + 1), NameBefore(SplitsAt(h), p2) < p2
  PROVE  Include(SubSeq(HeaderText[h], NameBefore(SplitsAt(h), p2), p2 - 1)) \in ReportLine
  <1> DEFINE text == HeaderText[h]
             p1 == NameBefore(SplitsAt(h), p2)
  <1>1. text \in Seq(STRING) /\ Len(text) \in Nat
    BY ReportAssumption
  <1>2. p1 \in 1..p2
    BY PieceStart
  <1> HIDE DEF text, p1
  <1>3. p2 - 1 \in Int /\ p2 - 1 <= Len(text) /\ p1 \in Int /\ 1 <= p1
    BY <1>1, <1>2 DEF text
  <1>4. \A i \in p1..(p2 - 1) : text[i] \in STRING
    BY <1>1, <1>3
  <1>5. SubSeq(text, p1, p2 - 1) \in Seq(STRING)
    BY <1>1, <1>3, <1>4
  <1>6. QED
    BY <1>5 DEF ReportLine, text, p1

\* One turn of the loop keeps a sequence of lines one.
LEMMA NextNameType ==
  ASSUME NEW h \in Headers, ~DoubledBar(h),
         NEW p2 \in 1..(Len(HeaderText[h]) + 1), NEW before \in Seq(ReportLine)
  PROVE  NextName(h, p2, before) \in Seq(ReportLine)
  <1>1. CASE NameBefore(SplitsAt(h), p2) < p2
    <2>1. Include(SubSeq(HeaderText[h], NameBefore(SplitsAt(h), p2), p2 - 1)) \in ReportLine
      BY <1>1, NameLine
    <2>2. QED
      BY <2>1, AppendProperties DEF NextName
  <1>2. CASE ~(NameBefore(SplitsAt(h), p2) < p2)
    BY <1>2 DEF NextName
  <1>3. QED
    BY <1>1, <1>2

\* The loop makes these lines, one place after the other.
LEMMA NamesIterate ==
  ASSUME NEW h \in Headers, ~DoubledBar(h)
  PROVE  \E f : /\ IncludeLines(h) = f[Len(HeaderText[h]) + 1]
                /\ f[0] = <<>>
                /\ \A p2 \in 1..(Len(HeaderText[h]) + 1) : f[p2] = NextName(h, p2, f[p2 - 1])
  <1> DEFINE n == Len(HeaderText[h]) + 1
             V == Seq(ReportLine)
             G == [x \in (1..n) \X V |-> NextName(h, x[1], x[2])]
             v == <<>>
  <1>1. n \in Nat /\ v \in V
    BY ReportAssumption
  <1>2. G \in [(1..n) \X V -> V]
    BY NextNameType
  <1>3. \A k \in 1..n, s \in V : G[k, s] = NextName(h, k, s)
    OBVIOUS
  <1> HIDE DEF n, V, G, v
  <1>4. PICK f \in [0..n -> V] : f[0] = v /\ \A k \in 1..n : f[k] = G[k, f[k - 1]]
    BY <1>1, <1>2, Iterates DEF V, v
  <1>5. \A k \in 1..n : f[k] = NextName(h, k, f[k - 1])
    <2> TAKE k \in 1..n
    <2>1. k - 1 \in 0..n
      BY <1>1
    <2>2. f[k - 1] \in V
      BY <2>1
    <2>3. QED
      BY <1>3, <1>4, <2>2
  <1>6. \A k \in 0..n : f[k] = IF k = 0 THEN <<>> ELSE NextName(h, k, f[k - 1])
    <2>1. \A k \in 0..n : k = 0 \/ k \in 1..n
      BY <1>1
    <2>2. QED
      BY <1>4, <1>5, <2>1 DEF v
  <1>7. f = [k \in 0..n |-> IF k = 0 THEN <<>> ELSE NextName(h, k, f[k - 1])]
    BY <1>4, <1>6
  <1>8. \E g : AreNames(h, g)
    BY <1>7 DEF AreNames, n
  <1> DEFINE g == CHOOSE g : AreNames(h, g)
  <1>9. AreNames(h, g)
    BY <1>8
  <1>10. IncludeLines(h) = g[n]
    BY DEF IncludeLines, AreNames, NextName, n
  <1> HIDE DEF g
  <1>11. \A k \in 0..n : g[k] = IF k = 0 THEN <<>> ELSE NextName(h, k, g[k - 1])
    BY <1>9 DEF AreNames, n
  <1>12. 0 \in 0..n /\ \A k \in 1..n : k \in 0..n /\ k # 0
    BY <1>1
  <1>13. g[0] = <<>> /\ \A k \in 1..n : g[k] = NextName(h, k, g[k - 1])
    BY <1>11, <1>12
  <1>14. QED
    BY <1>10, <1>13 DEF n

\* A line goes to the end of a report, and of each end part of it.
LEMMA AppendedBehind ==
  ASSUME NEW s \in Seq(ReportLine), NEW t \in Seq(ReportLine), NEW x \in ReportLine
  PROVE  /\ Append(t, x) \in Seq(ReportLine)
         /\ Append(s \o t, x) = s \o Append(t, x)
  <1>1. /\ s \o t \in Seq(ReportLine) /\ Len(s \o t) = Len(s) + Len(t)
        /\ Append(t, x) \in Seq(ReportLine) /\ Len(Append(t, x)) = Len(t) + 1
    BY ConcatProperties, AppendProperties
  <1>2. /\ Append(s \o t, x) \in Seq(ReportLine) /\ s \o Append(t, x) \in Seq(ReportLine)
        /\ Len(Append(s \o t, x)) = Len(s) + Len(t) + 1
        /\ Len(s \o Append(t, x)) = Len(s) + Len(t) + 1
    BY <1>1, ConcatProperties, AppendProperties
  <1>3. ASSUME NEW i \in 1..(Len(s) + Len(t) + 1)
        PROVE  Append(s \o t, x)[i] = (s \o Append(t, x))[i]
    BY <1>1, <1>2
  <1>4. QED
    BY <1>1, <1>2, <1>3, SeqEqual

NameEntries(h, P) == {NameEntry(h, p) : p \in P}

\* Behind a report of smaller headers, the #include lines of a header string
\* show its names.
LEMMA IncludeLinesAdded ==
  ASSUME NEW h \in Headers, ~DoubledBar(h),
         NEW E, NEW lines, Shown(lines, E), \A d \in E : d.header < h
  PROVE  Shown(lines \o IncludeLines(h), E \cup NameEntries(h, NameStarts(h)))
         /\ IncludeLines(h) \in Seq(ReportLine)
  <1> DEFINE n == Len(HeaderText[h]) + 1
             F(p2) == E \cup NameEntries(h, NamesBefore(h, p2))
  <1>1. n \in Nat /\ NameStarts(h) \subseteq Nat /\ h \in Nat
    BY ReportAssumption DEF NameStarts
  <1>2. PICK f : /\ IncludeLines(h) = f[n]
                 /\ f[0] = <<>>
                 /\ \A p2 \in 1..n : f[p2] = NextName(h, p2, f[p2 - 1])
    BY NamesIterate
  <1> DEFINE Good(p2) == f[p2] \in Seq(ReportLine) /\ Shown(lines \o f[p2], F(p2))
             T == {p2 \in Nat : p2 <= n /\ ~Good(p2)}
  <1>3. Good(0)
    <2>1. lines \in Seq(ReportLine)
      BY DEF Shown
    <2>2. lines \o <<>> = lines
      BY <2>1
    <2>3. NameEntries(h, {}) = {}
      BY DEF NameEntries
    <2>4. F(0) = E
      BY <2>3, AllNames
    <2> HIDE DEF F
    <2>5. QED
      BY <1>2, <2>2, <2>4
  <1>4. ASSUME NEW p2 \in 1..n, Good(p2 - 1)
        PROVE  Good(p2)
    <2> DEFINE p1 == NameBefore(SplitsAt(h), p2)
               line == Include(SubSeq(HeaderText[h], p1, p2 - 1))
    <2>1. p2 \in 1..(Len(HeaderText[h]) + 1)
      OBVIOUS
    <2>2. f[p2] = NextName(h, p2, f[p2 - 1])
      BY <1>2
    <2>3. CASE p2 \in SplitsAt(h) \cup {n} /\ p1 < p2
      <3>1. f[p2] = Append(f[p2 - 1], line)
        BY <2>2, <2>3 DEF NextName
      <3>2. /\ NamesBefore(h, p2) = NamesBefore(h, p2 - 1) \cup {p1}
            /\ p1 \in NameStarts(h)
            /\ NameAt(h, p1) = SubSeq(HeaderText[h], p1, p2 - 1)
            /\ \A p \in NamesBefore(h, p2 - 1) : p < p1
        BY <2>1, <2>3, NameStep
      <3>3. line \in ReportLine
        BY <2>1, <2>3, NameLine
      <3>4. line = EntryLine(NameEntry(h, p1))
        BY <3>2 DEF EntryLine, NameEntry
      <3> HIDE DEF p1, line, F
      <3>5. NameEntry(h, p1) \in Entry
        BY <1>1, <3>2 DEF NameEntry, Entry
      <3>6. \A d \in F(p2 - 1) : Precedes(d, NameEntry(h, p1))
        <4> TAKE d \in F(p2 - 1)
        <4>1. CASE d \in E
          BY <4>1 DEF Precedes, NameEntry
        <4>2. CASE d \in NameEntries(h, NamesBefore(h, p2 - 1))
          BY <3>2, <4>2 DEF Precedes, NameEntry, NameEntries
        <4>3. QED
          BY <4>1, <4>2 DEF F
      <3>7. F(p2) = F(p2 - 1) \cup {NameEntry(h, p1)}
        BY <3>2 DEF F, NameEntries
      <3>8. Shown(Append(lines \o f[p2 - 1], line), F(p2))
        BY <1>4, <3>3, <3>4, <3>5, <3>6, <3>7, EntryAdded
      <3>9. lines \in Seq(ReportLine) /\ f[p2 - 1] \in Seq(ReportLine)
        BY <1>4 DEF Shown
      <3>10. Append(f[p2 - 1], line) \in Seq(ReportLine)
             /\ Append(lines \o f[p2 - 1], line) = lines \o Append(f[p2 - 1], line)
        <4>1. PICK g : g = f[p2 - 1]
          OBVIOUS
        <4>2. Append(g, line) \in Seq(ReportLine)
              /\ Append(lines \o g, line) = lines \o Append(g, line)
          BY <3>3, <3>9, <4>1, AppendedBehind
        <4>3. QED
          BY <4>1, <4>2
      <3>11. QED
        BY <3>1, <3>8, <3>10
    <2>4. CASE ~(p2 \in SplitsAt(h) \cup {n} /\ p1 < p2)
      <3>1. f[p2] = f[p2 - 1]
        BY <2>2, <2>4 DEF NextName
      <3>2. NamesBefore(h, p2) = NamesBefore(h, p2 - 1)
        BY <2>1, <2>4, NameStep
      <3>3. QED
        BY <1>4, <3>1, <3>2
    <2>5. QED
      BY <2>3, <2>4
  <1> HIDE DEF Good
  <1>5. T = {}
    <2>1. SUFFICES ASSUME T # {} PROVE FALSE
      OBVIOUS
    <2>2. PICK m \in T : \A y \in T : m <= y
      <3>1. T \subseteq Nat
        OBVIOUS
      <3>2. QED
        BY <2>1, <3>1, NatMin
    <2>3. m \in Nat /\ m <= n /\ ~Good(m)
      OBVIOUS
    <2>4. m # 0
      BY <1>3, <2>3
    <2>5. m - 1 \in Nat /\ m - 1 <= n /\ ~(m <= m - 1) /\ m \in 1..n
      BY <1>1, <2>3, <2>4
    <2>6. ~Good(m - 1)
      BY <1>4, <2>3, <2>5
    <2>7. m - 1 \in T
      BY <2>5, <2>6
    <2>8. QED
      BY <2>2, <2>5, <2>7
  <1>6. Good(n)
    <2>1. n <= n
      BY <1>1
    <2>2. QED
      BY <1>1, <1>5, <2>1
  <1>7. NamesBefore(h, n) = NameStarts(h)
    BY AllNames
  <1>8. QED
    BY <1>2, <1>6, <1>7 DEF Good

----------------------------------------------------------------------------
\* The loop over the sorted table.

InRefOrder(refs) == \A k, l \in 1..Len(refs) : k < l => ~refcmp(refs[l], refs[k])

NewInc(refs, k) == k = 1 \/ refs[k - 1].inc_sym # refs[k].inc_sym
NewRef(refs, k) == NewInc(refs, k) \/ refs[k - 1].ref_sym # refs[k].ref_sym

NextRef(refs, k, before) ==
    before \o (IF NewInc(refs, k) THEN IncludeLines(refs[k].inc_sym) ELSE <<>>)
           \o (IF NewRef(refs, k) THEN <<Import(refs[k].ref_sym)>> ELSE <<>>)

AreLines(refs, f) ==
    f = [k \in 0..Len(refs) |-> IF k = 0 THEN <<>> ELSE NextRef(refs, k, f[k - 1])]

\* The report of no entries has no lines.
LEMMA NothingShown == Shown(<<>>, {})
  <1>1. IsFiniteSet({}) /\ Cardinality({}) = 0 /\ Len(<<>>) = 0
    BY FS_EmptySet
  <1>2. QED
    BY <1>1 DEF Shown, ShowsEntries

\* IncludeLines makes lines.
LEMMA IncludeLinesType ==
  ASSUME NEW h \in Headers, ~DoubledBar(h)
  PROVE  IncludeLines(h) \in Seq(ReportLine)
  <1>1. PICK lines, E : lines = <<>> /\ E = {}
    OBVIOUS
  <1>2. Shown(lines, E) /\ \A d \in E : d.header < h
    BY <1>1, NothingShown
  <1>3. QED
    BY <1>2, IncludeLinesAdded

\* The identifier of an entry of the table, and its header.
LEMMA RefOf ==
  ASSUME NEW refs \in Seq(Refs), NEW k \in 1..Len(refs)
  PROVE  /\ refs[k].ref_sym \in Idents /\ refs[k].ref_sym \in Nat
         /\ refs[k].inc_sym = HeaderOf[refs[k].ref_sym]
         /\ refs[k].inc_sym \in Headers /\ refs[k].inc_sym \in Nat
         /\ Import(refs[k].ref_sym) \in ReportLine
  <1>1. refs[k] \in Refs
    OBVIOUS
  <1>2. PICK n \in Idents : refs[k] = RefTo(n)
    BY <1>1 DEF Refs
  <1>3. refs[k].inc_sym = HeaderOf[n] /\ refs[k].ref_sym = n
    BY <1>2 DEF RefTo
  <1>4. QED
    BY <1>3, ReportAssumption DEF ReportLine

\* One turn of the loop over the table keeps a sequence of lines one.
LEMMA NextRefType ==
  ASSUME NEW refs \in Seq(Refs), NEW k \in 1..Len(refs), ~DoubledBar(refs[k].inc_sym),
         NEW before \in Seq(ReportLine)
  PROVE  NextRef(refs, k, before) \in Seq(ReportLine)
  <1> DEFINE i == IF NewInc(refs, k) THEN IncludeLines(refs[k].inc_sym) ELSE <<>>
             r == IF NewRef(refs, k) THEN <<Import(refs[k].ref_sym)>> ELSE <<>>
  <1>1. IncludeLines(refs[k].inc_sym) \in Seq(ReportLine)
    BY RefOf, IncludeLinesType
  <1>2. <<Import(refs[k].ref_sym)>> \in Seq(ReportLine)
    BY RefOf
  <1>3. i \in Seq(ReportLine) /\ r \in Seq(ReportLine)
    BY <1>1, <1>2
  <1>4. NextRef(refs, k, before) = before \o i \o r
    BY DEF NextRef
  <1> HIDE DEF i, r
  <1>5. QED
    BY <1>3, <1>4

\* The loop makes these lines, one reference after the other.
LEMMA LinesIterate ==
  ASSUME NEW refs \in Seq(Refs), \A k \in 1..Len(refs) : ~DoubledBar(refs[k].inc_sym)
  PROVE  \E f :
            /\ Lines(refs) = f[Len(refs)]
            /\ f[0] = <<>>
            /\ \A k \in 1..Len(refs) : f[k] = NextRef(refs, k, f[k - 1])
  <1> DEFINE n == Len(refs)
             V == Seq(ReportLine)
             G == [x \in (1..n) \X V |-> NextRef(refs, x[1], x[2])]
  <1>1. n \in Nat
    OBVIOUS
  <1>2. G \in [(1..n) \X V -> V]
    BY NextRefType
  <1>3. \A k \in 1..n, s \in V : G[k, s] = NextRef(refs, k, s)
    OBVIOUS
  <1> HIDE DEF n, V, G
  <1>4. PICK f \in [0..n -> V] : f[0] = <<>> /\ \A k \in 1..n : f[k] = G[k, f[k - 1]]
    BY <1>1, <1>2, Iterates DEF V
  <1>5. \A k \in 1..n : f[k] = NextRef(refs, k, f[k - 1])
    <2> TAKE k \in 1..n
    <2>1. k - 1 \in 0..n
      BY <1>1
    <2>2. f[k - 1] \in V
      BY <2>1
    <2>3. QED
      BY <1>3, <1>4, <2>2
  <1>6. \A k \in 0..n : f[k] = IF k = 0 THEN <<>> ELSE NextRef(refs, k, f[k - 1])
    <2>1. \A k \in 0..n : k = 0 \/ k \in 1..n
      BY <1>1
    <2>2. QED
      BY <1>4, <1>5, <2>1
  <1>7. f = [k \in 0..n |-> IF k = 0 THEN <<>> ELSE NextRef(refs, k, f[k - 1])]
    BY <1>4, <1>6
  <1>8. \E g : AreLines(refs, g)
    BY <1>7 DEF AreLines, n
  <1> DEFINE g == CHOOSE g : AreLines(refs, g)
  <1>9. AreLines(refs, g)
    BY <1>8
  <1>10. Lines(refs) = g[n]
    BY DEF Lines, AreLines, NextRef, NewInc, NewRef, n
  <1> HIDE DEF g
  <1>11. \A k \in 0..n : g[k] = IF k = 0 THEN <<>> ELSE NextRef(refs, k, g[k - 1])
    BY <1>9 DEF AreLines, n
  <1>12. 0 \in 0..n /\ \A k \in 1..n : k \in 0..n /\ k # 0
    BY <1>1
  <1>13. g[0] = <<>> /\ \A k \in 1..n : g[k] = NextRef(refs, k, g[k - 1])
    BY <1>11, <1>12
  <1>14. QED
    BY <1>10, <1>13 DEF n

\* The entries that the first k references ask for.
EntriesUpTo(refs, k) == UNION {EntriesOf(refs[i].ref_sym) : i \in 1..k}

\* The entries that an identifier asks for all have its header string.
LEMMA EntriesParts ==
  ASSUME NEW n \in Idents
  PROVE  /\ EntriesOf(n) = NameEntries(HeaderOf[n], NameStarts(HeaderOf[n])) \cup {IdentEntry(n)}
         /\ IdentEntry(n) \in Entry
         /\ EntryLine(IdentEntry(n)) = Import(n)
         /\ \A d \in EntriesOf(n) :
               d.header = HeaderOf[n] /\ (d.part = 0 \/ (d.part = 1 /\ d.nr = n))
  <1>1. HeaderOf[n] \in Headers /\ n \in Nat
    BY ReportAssumption
  <1>2. EntriesOf(n) = NameEntries(HeaderOf[n], NameStarts(HeaderOf[n])) \cup {IdentEntry(n)}
    BY DEF EntriesOf, NameEntries, NameEntry, IdentEntry
  <1>3. \A d \in NameEntries(HeaderOf[n], NameStarts(HeaderOf[n])) :
           d.header = HeaderOf[n] /\ d.part = 0
    BY DEF NameEntries, NameEntry
  <1>4. IdentEntry(n).header = HeaderOf[n] /\ IdentEntry(n).part = 1 /\ IdentEntry(n).nr = n
    BY DEF IdentEntry
  <1>5. IdentEntry(n) \in Entry
    BY <1>1 DEF IdentEntry, Entry
  <1>6. EntryLine(IdentEntry(n)) = Import(n)
    BY <1>4 DEF EntryLine
  <1>7. \A d \in EntriesOf(n) :
           d.header = HeaderOf[n] /\ (d.part = 0 \/ (d.part = 1 /\ d.nr = n))
    BY <1>2, <1>3, <1>4
  <1>8. QED
    BY <1>2, <1>5, <1>6, <1>7

\* In a sorted table an earlier reference has a smaller header string, or the
\* same one and no larger identifier.
LEMMA EarlierRef ==
  ASSUME NEW refs \in Seq(Refs), InRefOrder(refs),
         NEW k \in 1..Len(refs), NEW i \in 1..Len(refs), i < k
  PROVE  \/ refs[i].inc_sym < refs[k].inc_sym
         \/ refs[i].inc_sym = refs[k].inc_sym /\ refs[i].ref_sym <= refs[k].ref_sym
  <1>1. ~refcmp(refs[k], refs[i])
    BY DEF InRefOrder
  <1>2. /\ refs[k].inc_sym \in Nat /\ refs[k].ref_sym \in Nat
        /\ refs[i].inc_sym \in Nat /\ refs[i].ref_sym \in Nat
    BY RefOf
  <1>3. QED
    BY <1>1, <1>2 DEF refcmp

\* One turn of the loop, when the header string is a new one.
LEMMA NewHeader ==
  ASSUME NEW refs \in Seq(Refs), InRefOrder(refs), NEW k \in 1..Len(refs),
         ~DoubledBar(refs[k].inc_sym), NewInc(refs, k),
         NEW before, Shown(before, EntriesUpTo(refs, k - 1))
  PROVE  Shown(NextRef(refs, k, before), EntriesUpTo(refs, k))
  <1> DEFINE n == refs[k].ref_sym
             h == refs[k].inc_sym
             E == EntriesUpTo(refs, k - 1)
             names == NameEntries(h, NameStarts(h))
  <1>1. n \in Idents /\ h = HeaderOf[n] /\ h \in Headers /\ h \in Nat
        /\ Import(n) \in ReportLine
    BY RefOf
  <1>2. \A i \in 1..(k - 1) : /\ i \in 1..Len(refs) /\ i < k
                              /\ refs[i].ref_sym \in Idents
                              /\ refs[i].inc_sym = HeaderOf[refs[i].ref_sym]
                              /\ refs[i].inc_sym \in Nat
    BY RefOf
  <1>3. ASSUME NEW i \in 1..(k - 1) PROVE refs[i].inc_sym < h
    <2>1. k # 1 /\ k - 1 \in 1..(k - 1) /\ k \in Int /\ i \in Int
      OBVIOUS
    <2>2. refs[k - 1].inc_sym # h
      BY <2>1 DEF NewInc
    <2>3. refs[k - 1].inc_sym < h
      BY <1>2, <2>1, <2>2, EarlierRef
    <2>4. CASE i = k - 1
      BY <2>3, <2>4
    <2>5. CASE i # k - 1
      <3>1. i < k - 1 /\ k - 1 \in 1..Len(refs) /\ i \in 1..Len(refs)
        BY <1>2, <2>1, <2>5
      <3>2. refs[i].inc_sym <= refs[k - 1].inc_sym
        <4>1. refs[i].inc_sym < refs[k - 1].inc_sym \/ refs[i].inc_sym = refs[k - 1].inc_sym
          BY <3>1, EarlierRef
        <4>2. QED
          BY <1>2, <2>1, <4>1
      <3>3. QED
        BY <1>1, <1>2, <2>1, <2>3, <3>2
    <2>6. QED
      BY <2>4, <2>5
  <1>4. \A d \in E : d.header < h
    <2> TAKE d \in E
    <2>1. PICK i \in 1..(k - 1) : d \in EntriesOf(refs[i].ref_sym)
      BY DEF EntriesUpTo
    <2>2. d.header = refs[i].inc_sym
      BY <1>2, <2>1, EntriesParts
    <2>3. QED
      BY <1>3, <2>2
  <1>5. EntriesUpTo(refs, k) = (E \cup names) \cup {IdentEntry(n)}
    <2>1. \A i : i \in 1..k <=> i \in 1..(k - 1) \/ i = k
      OBVIOUS
    <2>2. EntriesUpTo(refs, k) = E \cup EntriesOf(n)
      BY <2>1 DEF EntriesUpTo
    <2>3. EntriesOf(n) = names \cup {IdentEntry(n)}
      BY <1>1, EntriesParts
    <2>4. QED
      BY <2>2, <2>3
  <1> HIDE DEF n, h, E, names
  <1> DEFINE lines == before \o IncludeLines(h)
  <1>6. Shown(lines, E \cup names)
    BY <1>1, <1>4, IncludeLinesAdded DEF E, names, h
  <1>7. \A d \in E \cup names : Precedes(d, IdentEntry(n))
    <2>1. IdentEntry(n).header = h /\ IdentEntry(n).part = 1
      BY <1>1 DEF IdentEntry
    <2>2. \A d \in names : d.header = h /\ d.part = 0
      BY DEF names, NameEntries, NameEntry
    <2>3. QED
      BY <1>4, <2>1, <2>2 DEF Precedes
  <1>8. IdentEntry(n) \in Entry /\ EntryLine(IdentEntry(n)) = Import(n)
    BY <1>1, EntriesParts
  <1> HIDE DEF lines
  <1>9. Shown(Append(lines, Import(n)), EntriesUpTo(refs, k))
    BY <1>1, <1>5, <1>6, <1>7, <1>8, EntryAdded
  <1>10. NextRef(refs, k, before) = lines \o <<Import(n)>>
    BY DEF NextRef, NewRef, lines, n, h
  <1>11. lines \o <<Import(n)>> = Append(lines, Import(n))
    <2>1. lines \in Seq(ReportLine)
      BY <1>6 DEF Shown
    <2>2. QED
      BY <1>1, <2>1
  <1>12. QED
    BY <1>9, <1>10, <1>11

\* One turn when it is that of the reference before.
LEMMA SameHeader ==
  ASSUME NEW refs \in Seq(Refs), InRefOrder(refs), NEW k \in 1..Len(refs),
         ~NewInc(refs, k),
         NEW before, Shown(before, EntriesUpTo(refs, k - 1))
  PROVE  Shown(NextRef(refs, k, before), EntriesUpTo(refs, k))
  <1> DEFINE n == refs[k].ref_sym
             h == refs[k].inc_sym
             m == refs[k - 1].ref_sym
             E == EntriesUpTo(refs, k - 1)
  <1>1. n \in Idents /\ h = HeaderOf[n] /\ h \in Nat /\ n \in Nat
        /\ Import(n) \in ReportLine
    BY RefOf
  <1>2. \A i \in 1..(k - 1) : /\ i \in 1..Len(refs) /\ i < k
                              /\ refs[i].ref_sym \in Idents /\ refs[i].ref_sym \in Nat
                              /\ refs[i].inc_sym = HeaderOf[refs[i].ref_sym]
                              /\ refs[i].inc_sym \in Nat
    BY RefOf
  <1>3. k # 1 /\ k - 1 \in 1..(k - 1) /\ refs[k - 1].inc_sym = h
    BY DEF NewInc
  <1>4. m \in Idents /\ HeaderOf[m] = h /\ EntriesOf(m) \subseteq E
    BY <1>2, <1>3 DEF EntriesUpTo
  <1>5. EntriesUpTo(refs, k) = E \cup EntriesOf(n)
    <2>1. \A i : i \in 1..k <=> i \in 1..(k - 1) \/ i = k
      OBVIOUS
    <2>2. QED
      BY <2>1 DEF EntriesUpTo
  <1>6. EntriesUpTo(refs, k) = E \cup {IdentEntry(n)}
    BY <1>1, <1>4, <1>5, EntriesParts
  <1>7. before \in Seq(ReportLine)
    BY DEF Shown
  <1>8. CASE m = n
    <2>1. EntriesUpTo(refs, k) = E
      BY <1>4, <1>5, <1>8
    <2>2. NextRef(refs, k, before) = before \o <<>> \o <<>>
      BY <1>8 DEF NextRef, NewRef
    <2>3. before \o <<>> \o <<>> = before
      BY <1>7
    <2>4. QED
      BY <2>1, <2>2, <2>3
  <1>9. CASE m # n
    <2>1. ASSUME NEW i \in 1..(k - 1)
          PROVE  refs[i].inc_sym < h \/ (refs[i].inc_sym = h /\ refs[i].ref_sym < n)
      <3>1. m < n
        <4>1. m <= n
          <5>1. \/ refs[k - 1].inc_sym < refs[k].inc_sym
                \/ refs[k - 1].inc_sym = refs[k].inc_sym
                   /\ refs[k - 1].ref_sym <= refs[k].ref_sym
            BY <1>2, <1>3, EarlierRef
          <5>2. QED
            BY <1>1, <1>3, <5>1
        <4>2. m \in Nat
          BY <1>2, <1>3
        <4>3. QED
          BY <1>1, <1>9, <4>1, <4>2
      <3>2. CASE i = k - 1
        BY <1>3, <3>1, <3>2
      <3>3. CASE i # k - 1
        <4>1. i < k - 1 /\ k - 1 \in 1..Len(refs) /\ i \in 1..Len(refs)
          BY <1>2, <1>3, <3>3
        <4>2. \/ refs[i].inc_sym < refs[k - 1].inc_sym
              \/ refs[i].inc_sym = refs[k - 1].inc_sym
                 /\ refs[i].ref_sym <= refs[k - 1].ref_sym
          BY <4>1, EarlierRef
        <4>3. m \in Nat /\ refs[i].ref_sym \in Nat
          BY <1>2, <1>3
        <4> HIDE DEF h, n
        <4>4. QED
          BY <1>1, <1>3, <3>1, <4>2, <4>3
      <3>4. QED
        BY <3>2, <3>3
    <2>2. \A d \in E : Precedes(d, IdentEntry(n))
      <3> TAKE d \in E
      <3>1. PICK i \in 1..(k - 1) : d \in EntriesOf(refs[i].ref_sym)
        BY DEF EntriesUpTo
      <3>2. /\ d.header = refs[i].inc_sym
            /\ d.part = 0 \/ (d.part = 1 /\ d.nr = refs[i].ref_sym)
        BY <1>2, <3>1, EntriesParts
      <3>3. IdentEntry(n).header = h /\ IdentEntry(n).part = 1 /\ IdentEntry(n).nr = n
        BY <1>1 DEF IdentEntry
      <3> HIDE DEF h, n
      <3>4. QED
        BY <2>1, <3>2, <3>3 DEF Precedes
    <2>3. IdentEntry(n) \in Entry /\ EntryLine(IdentEntry(n)) = Import(n)
      BY <1>1, EntriesParts
    <2> HIDE DEF n, h, E
    <2>4. Shown(Append(before, Import(n)), EntriesUpTo(refs, k))
      BY <1>1, <1>6, <2>2, <2>3, EntryAdded DEF E
    <2>5. NextRef(refs, k, before) = before \o <<>> \o <<Import(n)>>
      BY <1>9 DEF NextRef, NewRef, n
    <2>6. before \o <<>> \o <<Import(n)>> = Append(before, Import(n))
      BY <1>1, <1>7
    <2>7. QED
      BY <2>4, <2>5, <2>6
  <1>10. QED
    BY <1>8, <1>9

\* For a sorted table without two Bars in a row, the loop of show_includes
\* prints each header once, name by name, and under it each identifier that
\* needs it once, all in order (incbot.c:899).
THEOREM LinesReport ==
  ASSUME NEW refs \in Seq(Refs),
         \A k, l \in DOMAIN refs : k < l => ~refcmp(refs[l], refs[k]),
         \A k \in DOMAIN refs : ~DoubledBar(refs[k].inc_sym)
  PROVE  ReportsOf(Lines(refs), {refs[k].ref_sym : k \in DOMAIN refs})
  <1> DEFINE n == Len(refs)
  <1>1. n \in Nat /\ DOMAIN refs = 1..n
    OBVIOUS
  <1>2. InRefOrder(refs) /\ \A k \in 1..n : ~DoubledBar(refs[k].inc_sym)
    BY <1>1 DEF InRefOrder
  <1>3. PICK f : /\ Lines(refs) = f[n]
                 /\ f[0] = <<>>
                 /\ \A k \in 1..n : f[k] = NextRef(refs, k, f[k - 1])
    BY <1>2, LinesIterate
  <1> DEFINE Good(k) == Shown(f[k], EntriesUpTo(refs, k))
             T == {k \in Nat : k <= n /\ ~Good(k)}
  <1>4. Good(0)
    <2>1. EntriesUpTo(refs, 0) = {}
      BY DEF EntriesUpTo
    <2>2. QED
      BY <1>3, <2>1, NothingShown
  <1>5. ASSUME NEW k \in 1..n, Good(k - 1)
        PROVE  Good(k)
    <2>1. Shown(NextRef(refs, k, f[k - 1]), EntriesUpTo(refs, k))
      BY <1>2, <1>5, NewHeader, SameHeader
    <2>2. QED
      BY <1>3, <2>1
  <1> HIDE DEF Good, n
  <1>6. T = {}
    <2>1. SUFFICES ASSUME T # {} PROVE FALSE
      OBVIOUS
    <2>2. PICK m \in T : \A y \in T : m <= y
      <3>1. T \subseteq Nat
        OBVIOUS
      <3>2. QED
        BY <2>1, <3>1, NatMin
    <2>3. m \in Nat /\ m <= n /\ ~Good(m)
      OBVIOUS
    <2>4. m # 0
      BY <1>4, <2>3
    <2>5. m - 1 \in Nat /\ m - 1 <= n /\ ~(m <= m - 1) /\ m \in 1..n
      BY <1>1, <2>3, <2>4
    <2>6. ~Good(m - 1)
      BY <1>5, <2>3, <2>5
    <2>7. m - 1 \in T
      BY <2>5, <2>6
    <2>8. QED
      BY <2>2, <2>5, <2>7
  <1>7. Good(n)
    <2>1. n <= n
      BY <1>1
    <2>2. QED
      BY <1>1, <1>6, <2>1
  <1>8. ShowsEntries(Lines(refs), EntriesUpTo(refs, n))
    BY <1>3, <1>7 DEF Good, Shown
  <1>9. EntriesUpTo(refs, n) =
           UNION {EntriesOf(m) : m \in {refs[k].ref_sym : k \in DOMAIN refs}}
    BY <1>1 DEF EntriesUpTo
  <1>10. QED
    BY <1>8, <1>9 DEF ReportsOf

----------------------------------------------------------------------------
\* The messages.

OutputRecords == [said : Seq(Kinds), obuf : Seq(Nat), arrived : [Files -> Seq(Nat)]]

Ordered(seq) == \A i, j \in 1..Len(seq) : i < j => seq[i] < seq[j]
AllUpTo(seq, n) == \A i \in 1..Len(seq) : seq[i] \in 1..n
Has(seq, m) == \E i \in 1..Len(seq) : seq[i] = m
AllBefore(seq, later) ==
    \A i \in 1..Len(seq), j \in 1..Len(later) : seq[i] < later[j]

\* Messages are numbered as they are said, and arrive in that order.  What is
\* in the buffer of stdout is younger than what stdout has written to the
\* file that it leads to; when both descriptors lead to files, a message is
\* in the buffer or has arrived.
OutputOK(fds, o) ==
    /\ o \in OutputRecords
    /\ AllUpTo(o.obuf, Len(o.said)) /\ Ordered(o.obuf)
    /\ \A f \in Files : AllUpTo(o.arrived[f], Len(o.said)) /\ Ordered(o.arrived[f])
    /\ fds[1] \in Files => AllBefore(o.arrived[fds[1]], o.obuf)
    /\ fds[1] \in Files /\ fds[2] \in Files =>
          \A m \in 1..Len(o.said) : Has(o.obuf, m) \/ \E f \in Files : Has(o.arrived[f], m)

\* The last message is a complaint, and on its way to where stderr leads.
JustTold(fds, o) ==
    /\ Len(o.said) # 0
    /\ o.said[Len(o.said)] = "complaint"
    /\ fds[2] \in Files =>
          \/ Has(o.arrived[fds[2]], Len(o.said))
          \/ fds[1] = fds[2] /\ Has(o.obuf, Len(o.said))

\* It has arrived there.
Told(fds, o) ==
    /\ Len(o.said) # 0
    /\ o.said[Len(o.said)] = "complaint"
    /\ fds[2] \in Files => Has(o.arrived[fds[2]], Len(o.said))

----------------------------------------------------------------------------
LEMMA AppendFacts ==
  ASSUME NEW S, NEW seq \in Seq(S), NEW x \in S
  PROVE  /\ Append(seq, x) \in Seq(S)
         /\ Len(Append(seq, x)) = Len(seq) + 1 /\ Len(seq) \in Nat
         /\ Append(seq, x)[Len(seq) + 1] = x
         /\ \A i \in 1..Len(seq) : Append(seq, x)[i] = seq[i]
  OBVIOUS

LEMMA ConcatFacts ==
  ASSUME NEW a \in Seq(Nat), NEW b \in Seq(Nat)
  PROVE  /\ a \o b \in Seq(Nat)
         /\ Len(a \o b) = Len(a) + Len(b) /\ Len(a) \in Nat /\ Len(b) \in Nat
         /\ \A i \in 1..Len(a) : (a \o b)[i] = a[i]
         /\ \A i \in 1..Len(b) : (a \o b)[Len(a) + i] = b[i]
         /\ \A i \in 1..(Len(a) + Len(b)) :
               i \in 1..Len(a) \/ (i - Len(a) \in 1..Len(b) /\ (a \o b)[i] = b[i - Len(a)])
  OBVIOUS

\* The two parts that a sequence is split into.
LEMMA SplitFacts ==
  ASSUME NEW seq \in Seq(Nat), NEW k \in 0..Len(seq)
  PROVE  /\ SubSeq(seq, 1, k) \in Seq(Nat) /\ SubSeq(seq, k + 1, Len(seq)) \in Seq(Nat)
         /\ Len(SubSeq(seq, 1, k)) = k
         /\ Len(SubSeq(seq, k + 1, Len(seq))) = Len(seq) - k
         /\ \A i \in 1..k : SubSeq(seq, 1, k)[i] = seq[i]
         /\ \A i \in 1..(Len(seq) - k) : SubSeq(seq, k + 1, Len(seq))[i] = seq[k + i]
  <1>1. Len(seq) \in Nat /\ k \in Nat /\ k <= Len(seq)
    OBVIOUS
  <1>2. /\ SubSeq(seq, 1, k) \in Seq(Nat) /\ Len(SubSeq(seq, 1, k)) = k
        /\ \A i \in 1..k : SubSeq(seq, 1, k)[i] = seq[i]
    BY <1>1
  <1>3. /\ SubSeq(seq, k + 1, Len(seq)) \in Seq(Nat)
        /\ Len(SubSeq(seq, k + 1, Len(seq))) = Len(seq) - k
    BY <1>1
  <1>4. \A i \in 1..(Len(seq) - k) : SubSeq(seq, k + 1, Len(seq))[i] = seq[k + i]
    BY <1>1
  <1>5. QED
    BY <1>2, <1>3, <1>4

\* A message with the next number goes behind the others.
LEMMA OrderedAppend ==
  ASSUME NEW seq \in Seq(Nat), NEW n \in Nat, AllUpTo(seq, n), Ordered(seq)
  PROVE  /\ AllUpTo(Append(seq, n + 1), n + 1) /\ Ordered(Append(seq, n + 1))
  <1>1. /\ Len(Append(seq, n + 1)) = Len(seq) + 1 /\ Len(seq) \in Nat
        /\ Append(seq, n + 1)[Len(seq) + 1] = n + 1
        /\ \A i \in 1..Len(seq) : Append(seq, n + 1)[i] = seq[i]
    BY AppendFacts
  <1>2. \A i \in 1..(Len(seq) + 1) : i \in 1..Len(seq) \/ i = Len(seq) + 1
    BY <1>1
  <1>3. AllUpTo(Append(seq, n + 1), n + 1)
    BY <1>1, <1>2 DEF AllUpTo
  <1>4. ASSUME NEW i \in 1..(Len(seq) + 1), NEW j \in 1..(Len(seq) + 1), i < j
        PROVE  Append(seq, n + 1)[i] < Append(seq, n + 1)[j]
    <2>1. i \in 1..Len(seq) /\ seq[i] \in 1..n
      BY <1>1, <1>4 DEF AllUpTo
    <2>2. CASE j \in 1..Len(seq)
      BY <1>1, <1>4, <2>1, <2>2 DEF Ordered
    <2>3. CASE j = Len(seq) + 1
      BY <1>1, <2>1, <2>3
    <2>4. QED
      BY <1>2, <2>2, <2>3
  <1>5. QED
    BY <1>1, <1>3, <1>4 DEF Ordered

\* What a split of the buffer leaves in order, before and behind.
LEMMA OrderedSplit ==
  ASSUME NEW seq \in Seq(Nat), NEW k \in 0..Len(seq), NEW n \in Nat,
         AllUpTo(seq, n), Ordered(seq)
  PROVE  LET first == SubSeq(seq, 1, k)
             rest == SubSeq(seq, k + 1, Len(seq))
         IN  /\ AllUpTo(first, n) /\ Ordered(first)
             /\ AllUpTo(rest, n) /\ Ordered(rest)
             /\ AllBefore(first, rest)
  <1> DEFINE first == SubSeq(seq, 1, k)
             rest == SubSeq(seq, k + 1, Len(seq))
  <1>1. /\ Len(first) = k /\ Len(rest) = Len(seq) - k
        /\ \A i \in 1..k : first[i] = seq[i]
        /\ \A i \in 1..(Len(seq) - k) : rest[i] = seq[k + i]
    BY SplitFacts
  <1> HIDE DEF first, rest
  <1>2. /\ \A i \in 1..k : i \in 1..Len(seq)
        /\ \A i \in 1..(Len(seq) - k) : k + i \in 1..Len(seq)
        /\ \A i \in 1..k, j \in 1..(Len(seq) - k) : i < k + j
        /\ \A i, j \in 1..(Len(seq) - k) : i < j => k + i < k + j
    OBVIOUS
  <1>3. \A i \in 1..k : first[i] \in 1..n
    BY <1>1, <1>2 DEF AllUpTo
  <1>4. \A i, j \in 1..k : i < j => first[i] < first[j]
    BY <1>1, <1>2 DEF Ordered
  <1>5. \A i \in 1..(Len(seq) - k) : rest[i] \in 1..n
    BY <1>1, <1>2 DEF AllUpTo
  <1>6. ASSUME NEW i \in 1..(Len(seq) - k), NEW j \in 1..(Len(seq) - k), i < j
        PROVE  rest[i] < rest[j]
    <2>1. /\ k + i \in 1..Len(seq) /\ k + j \in 1..Len(seq) /\ k + i < k + j
          /\ rest[i] = seq[k + i] /\ rest[j] = seq[k + j]
      BY <1>1, <1>2, <1>6
    <2>2. seq[k + i] < seq[k + j]
      BY <2>1 DEF Ordered
    <2>3. QED
      BY <2>1, <2>2
  <1>7. \A i \in 1..k, j \in 1..(Len(seq) - k) : first[i] < rest[j]
    BY <1>1, <1>2 DEF Ordered
  <1>8. AllUpTo(first, n) /\ Ordered(first) /\ AllUpTo(rest, n) /\ Ordered(rest)
        /\ AllBefore(first, rest)
    BY <1>1, <1>3, <1>4, <1>5, <1>6, <1>7, Zenon DEF AllUpTo, Ordered, AllBefore
  <1>9. QED
    BY <1>8 DEF first, rest

LEMMA OrderedConcat ==
  ASSUME NEW a \in Seq(Nat), NEW b \in Seq(Nat), NEW n \in Nat,
         AllUpTo(a, n), Ordered(a), AllUpTo(b, n), Ordered(b), AllBefore(a, b)
  PROVE  AllUpTo(a \o b, n) /\ Ordered(a \o b)
  <1> DEFINE c == a \o b
  <1>1. /\ Len(c) = Len(a) + Len(b) /\ Len(a) \in Nat /\ Len(b) \in Nat
        /\ \A i \in 1..Len(a) : c[i] = a[i]
        /\ \A i \in 1..Len(c) :
               i \in 1..Len(a) \/ (i - Len(a) \in 1..Len(b) /\ c[i] = b[i - Len(a)])
    BY ConcatFacts
  <1> HIDE DEF c
  <1>2. AllUpTo(c, n)
    BY <1>1 DEF AllUpTo
  <1>3. ASSUME NEW i \in 1..Len(c), NEW j \in 1..Len(c), i < j
        PROVE  c[i] < c[j]
    <2>1. CASE j \in 1..Len(a)
      <3>1. i \in 1..Len(a)
        BY <1>1, <1>3, <2>1
      <3>2. QED
        BY <1>1, <1>3, <2>1, <3>1 DEF Ordered
    <2>2. CASE i \in 1..Len(a) /\ j \notin 1..Len(a)
      BY <1>1, <2>2 DEF AllBefore
    <2>3. CASE i \notin 1..Len(a) /\ j \notin 1..Len(a)
      <3>1. i - Len(a) < j - Len(a)
        BY <1>1, <1>3
      <3>2. QED
        BY <1>1, <2>3, <3>1 DEF Ordered
    <2>4. QED
      BY <1>1, <1>3, <2>1, <2>2, <2>3
  <1>4. QED
    BY <1>2, <1>3 DEF Ordered, c

----------------------------------------------------------------------------
\* The parts of an output record.
LEMMA RecordParts ==
  ASSUME NEW o \in OutputRecords
  PROVE  /\ o.said \in Seq(Kinds) /\ o.obuf \in Seq(Nat)
         /\ o.arrived \in [Files -> Seq(Nat)]
         /\ Len(o.said) \in Nat /\ Len(o.obuf) \in Nat
         /\ o = [said |-> o.said, obuf |-> o.obuf, arrived |-> o.arrived]
  <1>1. o.said \in Seq(Kinds) /\ o.obuf \in Seq(Nat) /\ o.arrived \in [Files -> Seq(Nat)]
    BY DEF OutputRecords
  <1>2. Len(o.said) \in Nat /\ Len(o.obuf) \in Nat
    BY <1>1
  <1>3. o = [said |-> o.said, obuf |-> o.obuf, arrived |-> o.arrived]
    BY DEF OutputRecords
  <1>4. QED
    BY <1>1, <1>2, <1>3

\* write() to a descriptor.
LEMMA ArriveParts ==
  ASSUME NEW o \in OutputRecords, NEW fd, NEW ms \in Seq(Nat),
         NEW x, x = Arrive(o, fd, ms)
  PROVE  /\ x \in OutputRecords /\ x.said = o.said /\ x.obuf = o.obuf
         /\ \A f \in Files : f = fd => x.arrived[f] = o.arrived[f] \o ms
         /\ \A f \in Files : f # fd => x.arrived[f] = o.arrived[f]
  <1>1. CASE fd \in Files
    <2> DEFINE a == [o.arrived EXCEPT ![fd] = @ \o ms]
    <2>1. Arrive(o, fd, ms) = [o EXCEPT !.arrived = a]
      BY <1>1, Zenon DEF Arrive
    <2>2. [o EXCEPT !.arrived = a] = [said |-> o.said, obuf |-> o.obuf, arrived |-> a]
      <3> HIDE DEF a
      <3>1. QED
        BY DEF OutputRecords
    <2>3. o.arrived \in [Files -> Seq(Nat)]
      BY RecordParts
    <2>4. o.arrived[fd] \o ms \in Seq(Nat)
      <3>1. o.arrived[fd] \in Seq(Nat)
        BY <1>1, <2>3
      <3>2. QED
        BY <3>1, ConcatFacts
    <2>5. /\ a \in [Files -> Seq(Nat)]
          /\ \A f \in Files : f = fd => a[f] = o.arrived[f] \o ms
          /\ \A f \in Files : f # fd => a[f] = o.arrived[f]
      BY <1>1, <2>3, <2>4
    <2> HIDE DEF a
    <2>6. Arrive(o, fd, ms) = [said |-> o.said, obuf |-> o.obuf, arrived |-> a]
      BY <2>1, <2>2
    <2>7. [said |-> o.said, obuf |-> o.obuf, arrived |-> a] \in OutputRecords
      BY <2>5, RecordParts DEF OutputRecords
    <2>8. QED
      BY <2>5, <2>6, <2>7
  <1>2. CASE fd \notin Files
    BY <1>2 DEF Arrive
  <1>3. QED
    BY <1>1, <1>2

\* A spill keeps the messages, in order: those that have left the buffer have
\* arrived, if they could.
LEMMA SpillKeeps ==
  ASSUME NEW fds, NEW o, OutputOK(fds, o), NEW k \in 0..Len(o.obuf),
         NEW x, x = Spill(fds, o, k)
  PROVE  /\ OutputOK(fds, x) /\ x.said = o.said
         /\ k = Len(o.obuf) => Len(x.obuf) = 0
         /\ \A f \in Files : \A m : Has(o.arrived[f], m) => Has(x.arrived[f], m)
         /\ fds[1] \in Files =>
               \A m : Has(o.obuf, m) => Has(x.obuf, m) \/ Has(x.arrived[fds[1]], m)
  <1> DEFINE first == SubSeq(o.obuf, 1, k)
             rest == SubSeq(o.obuf, k + 1, Len(o.obuf))
             a == Arrive(o, fds[1], first)
             n == Len(o.said)
  <1>1. /\ o \in OutputRecords /\ AllUpTo(o.obuf, n) /\ Ordered(o.obuf)
        /\ \A f \in Files : AllUpTo(o.arrived[f], n) /\ Ordered(o.arrived[f])
        /\ fds[1] \in Files => AllBefore(o.arrived[fds[1]], o.obuf)
    BY DEF OutputOK
  <1>2. /\ o.obuf \in Seq(Nat) /\ n \in Nat /\ \A f \in Files : o.arrived[f] \in Seq(Nat)
    BY <1>1, RecordParts
  <1>3. /\ AllUpTo(first, n) /\ Ordered(first) /\ AllUpTo(rest, n) /\ Ordered(rest)
        /\ AllBefore(first, rest)
    BY <1>1, <1>2, OrderedSplit
  <1>4. /\ first \in Seq(Nat) /\ rest \in Seq(Nat)
        /\ Len(first) = k /\ Len(rest) = Len(o.obuf) - k
        /\ \A i \in 1..k : first[i] = o.obuf[i]
        /\ \A i \in 1..(Len(o.obuf) - k) : rest[i] = o.obuf[k + i]
    BY <1>2, SplitFacts
  <1>5. x = [a EXCEPT !.obuf = rest] /\ a = Arrive(o, fds[1], first)
    BY DEF Spill
  <1>6. /\ \A i \in 1..k : i \in 1..Len(o.obuf)
        /\ \A i \in 1..(Len(o.obuf) - k) : k + i \in 1..Len(o.obuf)
        /\ \A i \in 1..Len(o.obuf) : i \in 1..k \/ i - k \in 1..(Len(o.obuf) - k)
        /\ \A i \in 1..Len(o.obuf) : k + (i - k) = i
    BY <1>2
  <1> HIDE DEF first, rest, a, n
  <1>7. /\ a \in OutputRecords /\ a.said = o.said
        /\ \A f \in Files : f = fds[1] => a.arrived[f] = o.arrived[f] \o first
        /\ \A f \in Files : f # fds[1] => a.arrived[f] = o.arrived[f]
    <2>1. o \in OutputRecords /\ first \in Seq(Nat) /\ a = Arrive(o, fds[1], first)
      BY <1>1, <1>4, <1>5
    <2>2. QED
      BY <2>1, ArriveParts
  <1>8. /\ x \in OutputRecords /\ x.said = o.said /\ x.obuf = rest
        /\ \A f \in Files : f = fds[1] => x.arrived[f] = o.arrived[f] \o first
        /\ \A f \in Files : f # fds[1] => x.arrived[f] = o.arrived[f]
    <2>1. x \in OutputRecords /\ x.said = a.said /\ x.obuf = rest /\ x.arrived = a.arrived
      BY <1>4, <1>5, <1>7 DEF OutputRecords
    <2>2. QED
      BY <1>7, <2>1
  <1>9. fds[1] \in Files =>
          /\ AllBefore(o.arrived[fds[1]], first) /\ AllBefore(o.arrived[fds[1]], rest)
    <2> SUFFICES ASSUME fds[1] \in Files
                 PROVE  /\ AllBefore(o.arrived[fds[1]], first)
                        /\ AllBefore(o.arrived[fds[1]], rest)
      OBVIOUS
    <2>1. \A i \in 1..Len(o.arrived[fds[1]]), j \in 1..Len(o.obuf) :
             o.arrived[fds[1]][i] < o.obuf[j]
      BY <1>1 DEF AllBefore
    <2>2. \A i \in 1..Len(o.arrived[fds[1]]), j \in 1..k : o.arrived[fds[1]][i] < first[j]
      BY <1>4, <1>6, <2>1
    <2>3. \A i \in 1..Len(o.arrived[fds[1]]), j \in 1..(Len(o.obuf) - k) :
             o.arrived[fds[1]][i] < rest[j]
      BY <1>4, <1>6, <2>1
    <2>4. QED
      BY <1>4, <2>2, <2>3 DEF AllBefore
  <1>10. \A f \in Files : AllUpTo(x.arrived[f], n) /\ Ordered(x.arrived[f])
    <2> SUFFICES ASSUME NEW f \in Files
                 PROVE  AllUpTo(x.arrived[f], n) /\ Ordered(x.arrived[f])
      OBVIOUS
    <2>1. CASE f = fds[1]
      <3>1. AllUpTo(o.arrived[f] \o first, n) /\ Ordered(o.arrived[f] \o first)
        BY <1>1, <1>2, <1>3, <1>4, <1>9, <2>1, OrderedConcat
      <3>2. QED
        BY <1>8, <2>1, <3>1
    <2>2. CASE f # fds[1]
      BY <1>1, <1>8, <2>2
    <2>3. QED
      BY <2>1, <2>2
  <1>11. ASSUME fds[1] \in Files
         PROVE  /\ Len(x.arrived[fds[1]]) = Len(o.arrived[fds[1]]) + k
                /\ Len(o.arrived[fds[1]]) \in Nat
                /\ \A i \in 1..Len(o.arrived[fds[1]]) : x.arrived[fds[1]][i] = o.arrived[fds[1]][i]
                /\ \A i \in 1..k : x.arrived[fds[1]][Len(o.arrived[fds[1]]) + i] = first[i]
                /\ \A i \in 1..(Len(o.arrived[fds[1]]) + k) :
                      \/ i \in 1..Len(o.arrived[fds[1]])
                      \/ /\ i - Len(o.arrived[fds[1]]) \in 1..k
                         /\ x.arrived[fds[1]][i] = first[i - Len(o.arrived[fds[1]])]
    <2> DEFINE X == x.arrived[fds[1]]
               A == o.arrived[fds[1]]
    <2>1. X = A \o first /\ A \in Seq(Nat)
      BY <1>2, <1>8, <1>11
    <2> HIDE DEF X, A
    <2>2. /\ Len(X) = Len(A) + Len(first) /\ Len(A) \in Nat
          /\ \A i \in 1..Len(A) : X[i] = A[i]
          /\ \A i \in 1..Len(first) : X[Len(A) + i] = first[i]
          /\ \A i \in 1..(Len(A) + Len(first)) :
                i \in 1..Len(A) \/ (i - Len(A) \in 1..Len(first) /\ X[i] = first[i - Len(A)])
      BY <1>4, <2>1, ConcatFacts
    <2>3. QED
      BY <1>4, <2>2 DEF X, A
  <1>12. fds[1] \in Files => AllBefore(x.arrived[fds[1]], rest)
    <2> SUFFICES ASSUME fds[1] \in Files, NEW i \in 1..Len(x.arrived[fds[1]]),
                        NEW j \in 1..Len(rest)
                 PROVE  x.arrived[fds[1]][i] < rest[j]
      BY DEF AllBefore
    <2>1. CASE i \in 1..Len(o.arrived[fds[1]])
      BY <1>9, <1>11, <2>1 DEF AllBefore
    <2>2. CASE i \notin 1..Len(o.arrived[fds[1]])
      <3>1. /\ i - Len(o.arrived[fds[1]]) \in 1..Len(first)
            /\ x.arrived[fds[1]][i] = first[i - Len(o.arrived[fds[1]])]
        BY <1>4, <1>11, <2>2
      <3>2. QED
        BY <1>3, <3>1 DEF AllBefore
    <2>3. QED
      BY <2>1, <2>2
  \* No message is lost on the way.
  <1>13. ASSUME NEW f \in Files, NEW m, Has(o.arrived[f], m)
         PROVE  Has(x.arrived[f], m)
    <2>1. PICK i \in 1..Len(o.arrived[f]) : o.arrived[f][i] = m
      BY <1>13 DEF Has
    <2>2. CASE f = fds[1]
      <3>1. k \in Nat /\ i \in 1..Len(o.arrived[fds[1]])
        BY <1>2, <2>1, <2>2
      <3>2. i \in 1..(Len(o.arrived[fds[1]]) + k)
        BY <1>11, <2>2, <3>1
      <3>3. i \in 1..Len(x.arrived[f]) /\ x.arrived[f][i] = m
        BY <1>11, <2>1, <2>2, <3>1, <3>2
      <3>4. QED
        BY <3>3 DEF Has
    <2>3. CASE f # fds[1]
      BY <1>8, <2>1, <2>3 DEF Has
    <2>4. QED
      BY <2>2, <2>3
  <1>14. ASSUME fds[1] \in Files, NEW m, Has(o.obuf, m)
         PROVE  Has(rest, m) \/ Has(x.arrived[fds[1]], m)
    <2>1. PICK i \in 1..Len(o.obuf) : o.obuf[i] = m
      BY <1>14 DEF Has
    <2>2. CASE i \in 1..k
      <3>1. Len(o.arrived[fds[1]]) + i \in 1..Len(x.arrived[fds[1]])
        <4>1. /\ Len(x.arrived[fds[1]]) = Len(o.arrived[fds[1]]) + k
              /\ Len(o.arrived[fds[1]]) \in Nat /\ k \in Nat
          BY <1>2, <1>4, <1>11, <1>14
        <4>2. QED
          BY <2>2, <4>1
      <3>2. x.arrived[fds[1]][Len(o.arrived[fds[1]]) + i] = m
        BY <1>4, <1>11, <1>14, <2>1, <2>2
      <3>3. QED
        BY <3>1, <3>2 DEF Has
    <2>3. CASE i - k \in 1..(Len(o.obuf) - k)
      <3>1. rest[i - k] = o.obuf[k + (i - k)] /\ i - k \in 1..Len(rest)
        BY <1>4, <2>3
      <3>2. rest[i - k] = m
        BY <1>6, <2>1, <3>1
      <3>3. QED
        BY <3>1, <3>2 DEF Has
    <2>4. QED
      BY <1>6, <2>2, <2>3
  <1>15. ASSUME fds[1] \in Files, fds[2] \in Files, NEW m \in 1..n
         PROVE  Has(rest, m) \/ \E f \in Files : Has(x.arrived[f], m)
    <2>1. Has(o.obuf, m) \/ \E f \in Files : Has(o.arrived[f], m)
      BY <1>15 DEF OutputOK, n
    <2>2. QED
      BY <1>13, <1>14, <1>15, <2>1
  <1>16. OutputOK(fds, x)
    BY <1>3, <1>8, <1>10, <1>12, <1>15 DEF OutputOK, n
  <1>17. QED
    BY <1>4, <1>8, <1>13, <1>14, <1>16

----------------------------------------------------------------------------
\* A message said, and one that is put in the buffer of stdout.
Saying(o, kind) == [o EXCEPT !.said = Append(@, kind)]
Keeping(o, kind) == [Saying(o, kind) EXCEPT !.obuf = Append(@, Len(o.said) + 1)]

LEMMA SayingParts ==
  ASSUME NEW o \in OutputRecords, NEW kind \in Kinds
  PROVE  /\ Saying(o, kind) \in OutputRecords
         /\ Saying(o, kind).said = Append(o.said, kind)
         /\ Saying(o, kind).obuf = o.obuf /\ Saying(o, kind).arrived = o.arrived
         /\ Len(Append(o.said, kind)) = Len(o.said) + 1
         /\ Append(o.said, kind)[Len(o.said) + 1] = kind
  <1> DEFINE s == Append(o.said, kind)
  <1>1. o.said \in Seq(Kinds)
    BY RecordParts
  <1>2. s \in Seq(Kinds) /\ Len(s) = Len(o.said) + 1 /\ s[Len(o.said) + 1] = kind
    <2> HIDE DEF Kinds
    <2>1. QED
      BY <1>1, AppendFacts
  <1>3. Saying(o, kind) = [o EXCEPT !.said = s]
    BY Zenon DEF Saying
  <1> HIDE DEF s
  <1>4. /\ Saying(o, kind) \in OutputRecords /\ Saying(o, kind).said = s
        /\ Saying(o, kind).obuf = o.obuf /\ Saying(o, kind).arrived = o.arrived
    BY <1>2, <1>3 DEF OutputRecords
  <1>5. QED
    BY <1>2, <1>4 DEF s

\* The next message is the youngest, wherever it goes.
LEMMA UpToNext ==
  ASSUME NEW seq, NEW n \in Nat, AllUpTo(seq, n)
  PROVE  AllUpTo(seq, n + 1)
  BY DEF AllUpTo

LEMMA HasAppend ==
  ASSUME NEW seq \in Seq(Nat), NEW x \in Nat
  PROVE  /\ Has(Append(seq, x), x)
         /\ \A m : Has(seq, m) => Has(Append(seq, x), m)
  <1>1. /\ Len(Append(seq, x)) = Len(seq) + 1 /\ Len(seq) \in Nat
        /\ Append(seq, x)[Len(seq) + 1] = x
        /\ \A i \in 1..Len(seq) : Append(seq, x)[i] = seq[i]
    BY AppendFacts
  <1>2. /\ Len(seq) + 1 \in 1..Len(Append(seq, x))
        /\ \A i \in 1..Len(seq) : i \in 1..Len(Append(seq, x))
    BY <1>1
  <1>3. QED
    BY <1>1, <1>2 DEF Has

LEMMA KeepingKeeps ==
  ASSUME NEW fds, NEW o, OutputOK(fds, o), NEW kind \in Kinds,
         NEW x, x = Keeping(o, kind)
  PROVE  /\ OutputOK(fds, x)
         /\ x.said = Append(o.said, kind) /\ Len(x.said) = Len(o.said) + 1
         /\ x.said[Len(x.said)] = kind
         /\ Len(x.obuf) = Len(o.obuf) + 1 /\ Has(x.obuf, Len(x.said))
  <1> DEFINE n == Len(o.said)
             b == Append(o.obuf, n + 1)
             y == Saying(o, kind)
  <1>1. o \in OutputRecords
    BY DEF OutputOK
  <1>2. /\ o.obuf \in Seq(Nat) /\ n \in Nat /\ n + 1 \in Nat
        /\ \A f \in Files : o.arrived[f] \in Seq(Nat)
    BY <1>1, RecordParts
  <1>3. /\ AllUpTo(o.obuf, n) /\ Ordered(o.obuf)
        /\ \A f \in Files : AllUpTo(o.arrived[f], n) /\ Ordered(o.arrived[f])
        /\ fds[1] \in Files => AllBefore(o.arrived[fds[1]], o.obuf)
        /\ fds[1] \in Files /\ fds[2] \in Files =>
              \A m \in 1..n : Has(o.obuf, m) \/ \E f \in Files : Has(o.arrived[f], m)
    BY DEF OutputOK
  <1>4. /\ y \in OutputRecords /\ y.said = Append(o.said, kind)
        /\ y.obuf = o.obuf /\ y.arrived = o.arrived
        /\ Len(y.said) = n + 1 /\ y.said[n + 1] = kind
    BY <1>1, SayingParts
  <1>5. x = [y EXCEPT !.obuf = Append(y.obuf, n + 1)]
    BY Zenon DEF Keeping
  <1>6. /\ b \in Seq(Nat) /\ Len(b) = Len(o.obuf) + 1 /\ Len(o.obuf) \in Nat
        /\ b[Len(o.obuf) + 1] = n + 1
        /\ \A i \in 1..Len(o.obuf) : b[i] = o.obuf[i]
    BY <1>2, AppendFacts
  <1>7. Has(b, n + 1) /\ \A m : Has(o.obuf, m) => Has(b, m)
    BY <1>2, HasAppend
  <1>8. AllUpTo(b, n + 1) /\ Ordered(b)
    BY <1>2, <1>3, OrderedAppend
  <1>9. x = [y EXCEPT !.obuf = b]
    BY <1>4, <1>5
  <1> HIDE DEF y, b, n
  <1>10. x \in OutputRecords /\ x.said = y.said /\ x.obuf = b /\ x.arrived = o.arrived
    BY <1>4, <1>6, <1>9 DEF OutputRecords
  <1>11. \A f \in Files : AllUpTo(o.arrived[f], n + 1)
    BY <1>2, <1>3, UpToNext
  <1>12. ASSUME fds[1] \in Files PROVE AllBefore(o.arrived[fds[1]], b)
    <2> SUFFICES ASSUME NEW i \in 1..Len(o.arrived[fds[1]]), NEW j \in 1..Len(b)
                 PROVE  o.arrived[fds[1]][i] < b[j]
      BY DEF AllBefore
    <2>1. o.arrived[fds[1]][i] \in 1..n
      BY <1>3, <1>12 DEF AllUpTo
    <2>2. CASE j = Len(o.obuf) + 1
      <3>1. b[j] = n + 1
        BY <1>6, <2>2
      <3>2. \A m \in 1..n : m < n + 1
        BY <1>2
      <3>3. QED
        BY <2>1, <3>1, <3>2
    <2>3. CASE j \in 1..Len(o.obuf)
      BY <1>3, <1>6, <1>12, <2>3 DEF AllBefore
    <2>4. QED
      BY <1>6, <2>2, <2>3
  <1>13. ASSUME fds[1] \in Files, fds[2] \in Files, NEW m \in 1..(n + 1)
         PROVE  Has(b, m) \/ \E f \in Files : Has(o.arrived[f], m)
    <2>1. m \in 1..n \/ m = n + 1
      BY <1>2
    <2>2. QED
      BY <1>3, <1>7, <1>13, <2>1
  <1>14. OutputOK(fds, x)
    BY <1>3, <1>4, <1>8, <1>10, <1>11, <1>12, <1>13 DEF OutputOK
  <1>15. QED
    BY <1>4, <1>6, <1>7, <1>10, <1>14 DEF n

\* One message arrives.
LEMMA ArriveOne ==
  ASSUME NEW o \in OutputRecords, NEW fd, NEW m \in Nat, NEW x, x = Arrive(o, fd, <<m>>)
  PROVE  /\ x \in OutputRecords /\ x.said = o.said /\ x.obuf = o.obuf
         /\ \A f \in Files : f = fd => x.arrived[f] = Append(o.arrived[f], m)
         /\ \A f \in Files : f # fd => x.arrived[f] = o.arrived[f]
  <1> DEFINE ms == <<m>>
  <1>1. ms \in Seq(Nat)
    OBVIOUS
  <1>2. x = Arrive(o, fd, ms)
    OBVIOUS
  <1>3. \A seq \in Seq(Nat) : seq \o ms = Append(seq, m)
    OBVIOUS
  <1> HIDE DEF ms
  <1>4. /\ x \in OutputRecords /\ x.said = o.said /\ x.obuf = o.obuf
        /\ \A f \in Files : f = fd => x.arrived[f] = o.arrived[f] \o ms
        /\ \A f \in Files : f # fd => x.arrived[f] = o.arrived[f]
    BY ONLY <1>1, <1>2, o \in OutputRecords, ArriveParts
  <1>5. \A f \in Files : o.arrived[f] \in Seq(Nat)
    BY RecordParts
  <1>6. QED
    BY <1>3, <1>4, <1>5

\* A message printed on stderr, which leads elsewhere than stdout.
LEMMA StderrKeeps ==
  ASSUME NEW fds, NEW o, OutputOK(fds, o), NEW kind \in Kinds,
         fds[1] \in Files => fds[1] # fds[2],
         NEW x, x = Arrive(Saying(o, kind), fds[2], <<Len(o.said) + 1>>)
  PROVE  /\ OutputOK(fds, x)
         /\ kind = "complaint" => JustTold(fds, x)
  <1> DEFINE n == Len(o.said)
             y == Saying(o, kind)
  <1>1. o \in OutputRecords
    BY DEF OutputOK
  <1>2. /\ o.obuf \in Seq(Nat) /\ n \in Nat /\ n + 1 \in Nat
        /\ \A f \in Files : o.arrived[f] \in Seq(Nat)
    BY <1>1, RecordParts
  <1>3. /\ AllUpTo(o.obuf, n) /\ Ordered(o.obuf)
        /\ \A f \in Files : AllUpTo(o.arrived[f], n) /\ Ordered(o.arrived[f])
        /\ fds[1] \in Files => AllBefore(o.arrived[fds[1]], o.obuf)
        /\ fds[1] \in Files /\ fds[2] \in Files =>
              \A m \in 1..n : Has(o.obuf, m) \/ \E f \in Files : Has(o.arrived[f], m)
    BY DEF OutputOK
  <1>4. /\ y \in OutputRecords /\ y.obuf = o.obuf /\ y.arrived = o.arrived
        /\ Len(y.said) = n + 1 /\ y.said[n + 1] = kind
    BY <1>1, SayingParts
  <1>5. x = Arrive(y, fds[2], <<n + 1>>)
    OBVIOUS
  <1> HIDE DEF y, n
  <1>7. /\ x \in OutputRecords /\ x.said = y.said /\ x.obuf = y.obuf
        /\ \A f \in Files : f = fds[2] => x.arrived[f] = Append(y.arrived[f], n + 1)
        /\ \A f \in Files : f # fds[2] => x.arrived[f] = y.arrived[f]
    <2>1. y \in OutputRecords /\ n + 1 \in Nat
      BY <1>2, <1>4
    <2>2. QED
      BY ONLY <1>5, <2>1, ArriveOne
  <1>8. /\ \A f \in Files : f = fds[2] => x.arrived[f] = Append(o.arrived[f], n + 1)
        /\ \A f \in Files : f # fds[2] => x.arrived[f] = o.arrived[f]
    BY <1>4, <1>7
  <1>9. \A f \in Files : AllUpTo(x.arrived[f], n + 1) /\ Ordered(x.arrived[f])
    <2> SUFFICES ASSUME NEW f \in Files
                 PROVE  AllUpTo(x.arrived[f], n + 1) /\ Ordered(x.arrived[f])
      OBVIOUS
    <2>1. CASE f = fds[2]
      <3>1. AllUpTo(Append(o.arrived[f], n + 1), n + 1) /\ Ordered(Append(o.arrived[f], n + 1))
        BY <1>2, <1>3, OrderedAppend
      <3>2. QED
        BY <1>8, <2>1, <3>1
    <2>2. CASE f # fds[2]
      BY <1>2, <1>3, <1>8, <2>2, UpToNext
    <2>3. QED
      BY <2>1, <2>2
  <1>10. AllUpTo(o.obuf, n + 1)
    BY <1>2, <1>3, UpToNext
  <1>11. fds[1] \in Files => AllBefore(x.arrived[fds[1]], o.obuf)
    BY <1>3, <1>8
  <1>12. \A f \in Files : \A m : Has(o.arrived[f], m) => Has(x.arrived[f], m)
    <2> SUFFICES ASSUME NEW f \in Files, NEW m, Has(o.arrived[f], m)
                 PROVE  Has(x.arrived[f], m)
      OBVIOUS
    <2>1. CASE f = fds[2]
      <3>1. Has(Append(o.arrived[f], n + 1), m)
        BY <1>2, HasAppend
      <3>2. QED
        BY <1>8, <2>1, <3>1
    <2>2. CASE f # fds[2]
      BY <1>8, <2>2
    <2>3. QED
      BY <2>1, <2>2
  <1>13. fds[2] \in Files => Has(x.arrived[fds[2]], n + 1)
    <2> SUFFICES ASSUME fds[2] \in Files PROVE Has(x.arrived[fds[2]], n + 1)
      OBVIOUS
    <2>1. Has(Append(o.arrived[fds[2]], n + 1), n + 1)
      BY <1>2, HasAppend
    <2>2. QED
      BY <1>8, <2>1
  <1>14. ASSUME fds[1] \in Files, fds[2] \in Files, NEW m \in 1..(n + 1)
         PROVE  Has(o.obuf, m) \/ \E f \in Files : Has(x.arrived[f], m)
    <2>1. m \in 1..n \/ m = n + 1
      BY <1>2
    <2>2. QED
      BY <1>3, <1>12, <1>13, <1>14, <2>1
  <1>15. OutputOK(fds, x)
    BY <1>3, <1>4, <1>7, <1>9, <1>10, <1>11, <1>14 DEF OutputOK
  <1>16. Len(x.said) # 0 /\ x.said[Len(x.said)] = kind
    BY <1>2, <1>4, <1>7
  <1>17. kind = "complaint" => JustTold(fds, x)
    BY <1>4, <1>7, <1>13, <1>16 DEF JustTold
  <1>18. QED
    BY <1>15, <1>17

\* A message printed on stdout, whose buffer spills k messages.
LEMMA StdoutKeeps ==
  ASSUME NEW fds, NEW o, OutputOK(fds, o), NEW kind \in Kinds,
         NEW k \in {0, Len(o.obuf), Len(o.obuf) + 1},
         NEW x, x = Spill(fds, Keeping(o, kind), k)
  PROVE  /\ OutputOK(fds, x)
         /\ kind = "complaint" /\ fds[1] = fds[2] => JustTold(fds, x)
  <1> DEFINE y == Keeping(o, kind)
  <1>1. o \in OutputRecords
    BY DEF OutputOK
  <1>2. Len(o.obuf) \in Nat /\ Len(o.said) \in Nat
    BY <1>1, RecordParts
  <1>3. y = Keeping(o, kind) /\ x = Spill(fds, y, k)
    OBVIOUS
  <1> HIDE DEF y
  <1>4. /\ OutputOK(fds, y) /\ Len(y.said) = Len(o.said) + 1 /\ y.said[Len(y.said)] = kind
        /\ Len(y.obuf) = Len(o.obuf) + 1 /\ Has(y.obuf, Len(y.said))
    BY <1>3, KeepingKeeps
  <1>5. k \in 0..Len(y.obuf)
    BY <1>2, <1>4
  <1>6. /\ OutputOK(fds, x) /\ x.said = y.said
        /\ fds[1] \in Files =>
              \A m : Has(y.obuf, m) => Has(x.obuf, m) \/ Has(x.arrived[fds[1]], m)
    <2>1. OutputOK(fds, y) /\ x = Spill(fds, y, k)
      BY <1>3, <1>4
    <2>2. QED
      BY ONLY <1>5, <2>1, SpillKeeps
  <1>7. ASSUME kind = "complaint", fds[1] = fds[2] PROVE JustTold(fds, x)
    <2>1. Len(x.said) # 0 /\ x.said[Len(x.said)] = "complaint"
      BY <1>2, <1>4, <1>6, <1>7
    <2>2. fds[2] \in Files => Has(x.obuf, Len(x.said)) \/ Has(x.arrived[fds[2]], Len(x.said))
      BY <1>4, <1>6, <1>7
    <2>3. QED
      BY <1>7, <2>1, <2>2 DEF JustTold
  <1>8. QED
    BY <1>6, <1>7

----------------------------------------------------------------------------
\* Complaints go through stdout only if both streams lead to the same place,
\* and never overtake it otherwise.
LEMMA EprintStream ==
  ASSUME NEW fds, NEW fh, fh = set_eprint_fh(fds)
  PROVE  /\ fh = "stdout" \/ fh = "stderr"
         /\ fh = "stdout" => fds[1] = fds[2]
         /\ fh = "stderr" => (fds[1] \in Files => fds[1] # fds[2])
  <1>1. CASE stderr_redirected(fds) = 0
    <2>1. fds[1] = fds[2]
      BY <1>1 DEF stderr_redirected
    <2>2. QED
      BY <1>1, <2>1 DEF set_eprint_fh
  <1>2. CASE stderr_redirected(fds) # 0
    <2>1. fds[1] = fds[2] => "closed" \in {fds[1], fds[2]}
      BY <1>2 DEF stderr_redirected
    <2>2. fds[1] \in Files => fds[1] # "closed"
      BY DEF Files
    <2>3. QED
      BY <1>2, <2>1, <2>2 DEF set_eprint_fh
  <1>3. QED
    BY <1>1, <1>2

\* Printing keeps the messages in order, be it a report on stdout, a
\* complaint or a message of --debug.
LEMMA PrintedOnStdout ==
  ASSUME NEW fds, NEW os, \A o \in os : OutputOK(fds, o), NEW kind \in Kinds,
         NEW x \in Printed(fds, os, "stdout", kind)
  PROVE  /\ OutputOK(fds, x)
         /\ kind = "complaint" /\ fds[1] = fds[2] => JustTold(fds, x)
  <1>1. PICK o \in os : \E k \in {0, Len(o.obuf), Len(o.obuf) + 1} :
           x = Spill(fds, Keeping(o, kind), k)
    BY Zenon DEF Printed, Keeping, Saying
  <1>2. PICK k \in {0, Len(o.obuf), Len(o.obuf) + 1} : x = Spill(fds, Keeping(o, kind), k)
    BY <1>1, Zenon
  <1>3. OutputOK(fds, o)
    OBVIOUS
  <1>4. QED
    BY <1>2, <1>3, StdoutKeeps, Zenon

LEMMA PrintedOnStderr ==
  ASSUME NEW fds, NEW os, \A o \in os : OutputOK(fds, o), NEW kind \in Kinds,
         fds[1] \in Files => fds[1] # fds[2],
         NEW x \in Printed(fds, os, "stderr", kind)
  PROVE  /\ OutputOK(fds, x)
         /\ kind = "complaint" => JustTold(fds, x)
  <1>1. "stderr" # "stdout"
    OBVIOUS
  <1>2. PICK o \in os : x = Arrive(Saying(o, kind), fds[2], <<Len(o.said) + 1>>)
    BY <1>1, Zenon DEF Printed, Saying
  <1>3. OutputOK(fds, o)
    OBVIOUS
  <1>4. QED
    BY <1>2, <1>3, StderrKeeps, Zenon

LEMMA PrintedOnFile ==
  ASSUME NEW fds, NEW os, NEW kind, NEW x \in Printed(fds, os, "dbgfile", kind)
  PROVE  x \in os
  <1>1. "dbgfile" # "stdout" /\ "dbgfile" # "stderr"
    OBVIOUS
  <1>2. QED
    BY <1>1, Zenon DEF Printed

LEMMA PrintedKeeps ==
  ASSUME NEW fds, NEW os, \A o \in os : OutputOK(fds, o), NEW kind \in Kinds,
         NEW fh, fh = "stdout" \/ fh = set_eprint_fh(fds) \/ fh = "dbgfile",
         NEW x \in Printed(fds, os, fh, kind)
  PROVE  /\ OutputOK(fds, x)
         /\ fh = set_eprint_fh(fds) /\ kind = "complaint" => JustTold(fds, x)
  <1>1. /\ set_eprint_fh(fds) = "stdout" \/ set_eprint_fh(fds) = "stderr"
        /\ set_eprint_fh(fds) = "stdout" => fds[1] = fds[2]
        /\ set_eprint_fh(fds) = "stderr" => (fds[1] \in Files => fds[1] # fds[2])
    BY EprintStream, Zenon
  <1>2. CASE fh = "stdout"
    <2>1. /\ OutputOK(fds, x)
          /\ kind = "complaint" /\ fds[1] = fds[2] => JustTold(fds, x)
      BY <1>2, PrintedOnStdout, Zenon
    <2>2. QED
      BY <1>1, <1>2, <2>1, Zenon
  <1>3. CASE fh = "stderr"
    <2>1. "stderr" # "stdout" /\ "stderr" # "dbgfile"
      OBVIOUS
    <2>2. fds[1] \in Files => fds[1] # fds[2]
      BY <1>1, <1>3, <2>1, Zenon
    <2>3. QED
      BY <1>3, <2>2, PrintedOnStderr, Zenon
  <1>4. CASE fh = "dbgfile"
    <2>1. "dbgfile" # "stdout" /\ "dbgfile" # "stderr"
      OBVIOUS
    <2>2. x \in os
      BY <1>4, PrintedOnFile, Zenon
    <2>3. QED
      BY <1>1, <1>4, <2>1, <2>2, Zenon
  <1>5. QED
    BY <1>1, <1>2, <1>3, <1>4, Zenon

\* exit() empties the buffer; a complaint that was in it has arrived.
LEMMA SpillAll ==
  ASSUME NEW fds, NEW o, OutputOK(fds, o), NEW k, k = Len(o.obuf),
         NEW x, x = Spill(fds, o, k)
  PROVE  /\ OutputOK(fds, x) /\ Len(x.obuf) = 0
         /\ JustTold(fds, o) => Told(fds, x)
  <1>1. o \in OutputRecords
    BY DEF OutputOK
  <1>2. k \in 0..Len(o.obuf)
    BY <1>1, RecordParts
  <1>3. OutputOK(fds, o) /\ x = Spill(fds, o, k)
    OBVIOUS
  <1>4. /\ OutputOK(fds, x) /\ x.said = o.said
        /\ \A f \in Files : \A m : Has(o.arrived[f], m) => Has(x.arrived[f], m)
        /\ fds[1] \in Files =>
              \A m : Has(o.obuf, m) => Has(x.obuf, m) \/ Has(x.arrived[fds[1]], m)
    BY ONLY <1>2, <1>3, SpillKeeps
  <1>5. Len(x.obuf) = 0
    BY <1>2, <1>3, SpillKeeps
  <1>6. \A m : ~Has(x.obuf, m)
    BY <1>5 DEF Has
  <1>7. ASSUME JustTold(fds, o) PROVE Told(fds, x)
    BY <1>4, <1>6, <1>7 DEF JustTold, Told
  <1>8. QED
    BY <1>4, <1>5, <1>7

LEMMA FlushedKeeps ==
  ASSUME NEW fds, NEW os, \A o \in os : OutputOK(fds, o), NEW x \in Flushed(fds, os)
  PROVE  /\ OutputOK(fds, x) /\ Len(x.obuf) = 0
         /\ (\A o \in os : JustTold(fds, o)) => Told(fds, x)
  <1>1. PICK o \in os : x = Spill(fds, o, Len(o.obuf))
    BY Zenon DEF Flushed
  <1>2. OutputOK(fds, o)
    BY Zenon
  <1>3. OutputOK(fds, x) /\ Len(x.obuf) = 0 /\ (JustTold(fds, o) => Told(fds, x))
    BY <1>1, <1>2, SpillAll, Zenon
  <1>4. QED
    BY <1>3, Zenon

\* Nothing has been said yet.
LEMMA SilenceOK == ASSUME NEW fds PROVE OutputOK(fds, Silence)
  <1>1. /\ Silence.said = <<>> /\ Silence.obuf = <<>>
        /\ \A f \in Files : Silence.arrived[f] = <<>>
    BY DEF Silence
  <1>2. Silence \in OutputRecords
    BY DEF Silence, OutputRecords
  <1>3. QED
    BY <1>1, <1>2 DEF OutputOK, AllUpTo, Ordered, AllBefore

\* What is in order has its type.
LEMMA OutputType ==
  ASSUME NEW fds, NEW o, OutputOK(fds, o)
  PROVE  OutputTypeOK(o)
  <1>1. /\ o \in OutputRecords /\ AllUpTo(o.obuf, Len(o.said))
        /\ \A f \in Files : AllUpTo(o.arrived[f], Len(o.said))
    BY DEF OutputOK
  <1>2. /\ o.said \in Seq(Kinds) /\ o.obuf \in Seq(Nat) /\ o.arrived \in [Files -> Seq(Nat)]
        /\ DOMAIN o.said = 1..Len(o.said)
    BY <1>1, RecordParts
  <1>3. ASSUME NEW seq \in Seq(Nat), AllUpTo(seq, Len(o.said))
        PROVE  seq \in Seq(1..Len(o.said))
    <2>1. seq \in [1..Len(seq) -> 1..Len(o.said)] /\ Len(seq) \in Nat
      BY <1>3 DEF AllUpTo
    <2>2. QED
      BY <2>1
  <1>4. QED
    BY <1>1, <1>2, <1>3 DEF OutputTypeOK
=============================================================================
