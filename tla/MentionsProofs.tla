--------------------------- MODULE MentionsProofs ---------------------------
(***************************************************************************)
(* For every alphabet, identifier table and text: the scan finds the       *)
(* identifiers that the reference calls for, and does not run ahead in its *)
(* count of the lines.                                                     *)
(***************************************************************************)
EXTENDS ScannerProofs, SequenceTheorems

----------------------------------------------------------------------------
\* The text that Layout describes.

TextLayout(t) ==
    /\ t.s \in Seq(Chars)
    /\ t.code \subseteq 1..Len(t.s)
    /\ t.ends \subseteq 1..Len(t.s)
    /\ \A k \in t.code : k \in t.ends <=> t.s[k] = Newline

\* A newline in code ends a line.
LEMMA LayoutOfText ==
  ASSUME NEW s \in Seq(Chars)
  PROVE  /\ TextLayout(Layout(s))
         /\ Layout(s).s = s /\ Layout(s).code = Code(s)
  <1> DEFINE t == Layout(s)
             f == TokenStart(s)
  <1>1. /\ t.s = s
        /\ t.code = {k \in 1..Len(s) : ClassOf(s)[k] = "CC_CODE"}
        /\ t.ends = {k \in 1..Len(s) : s[k] = Newline /\ Kind(s, f[k]) \in {"code", "line"}}
    BY DEF Layout
  <1>2. ASSUME NEW k \in 1..Len(s), ClassOf(s)[k] = "CC_CODE"
        PROVE  Kind(s, f[k]) = "code"
    <2>1. ClassInToken(s, f[k], k) = "CC_CODE" /\ Kind(s, f[k]) \in KindNames
      BY <1>2, ClassIs, KindType
    <2> HIDE DEF f
    <2>2. SUFFICES ASSUME Kind(s, f[k]) # "code" PROVE FALSE
      OBVIOUS
    <2>3. ClassInToken(s, f[k], k) # "CC_CODE"
      <3>1. CASE Kind(s, f[k]) = "string"
        BY <3>1, ClassCases
      <3>2. CASE Kind(s, f[k]) = "char"
        BY <3>2, ClassCases
      <3>3. CASE Kind(s, f[k]) \in {"block", "line"}
        BY <3>3, ClassCases
      <3>4. QED
        BY <2>1, <2>2, <3>1, <3>2, <3>3 DEF KindNames
    <2>4. QED
      BY <2>1, <2>3
  <1> HIDE DEF t, f
  <1>3. \A k \in t.code : k \in t.ends <=> t.s[k] = Newline
    BY <1>1, <1>2
  <1>4. TextLayout(t)
    BY <1>1, <1>3 DEF TextLayout
  <1>5. QED
    BY <1>1, <1>4 DEF t, Code

\* What the characters are and are not.
LEMMA CharFacts ==
  ASSUME NEW x
  PROVE  /\ is_identifier_start(x) => is_identifier(x)
         /\ is_identifier(x) => ~isspace(x) /\ x \notin {EOF, Newline, Slash, LParen, Hash}
         /\ ~isspace(EOF) /\ ~isspace(Slash) /\ isspace(Newline) /\ ~isspace(LParen)
         /\ ~isspace(Hash)
         /\ Newline # EOF /\ Slash # EOF /\ LParen # EOF /\ Slash # LParen /\ Slash # Newline
         /\ Hash # Newline /\ Hash # LParen
  BY ScannerAssumption, OtherCharsAssumption
     DEF is_identifier_start, is_identifier, isspace, Space, LParen, Hash, Special, Quotes,
         DQuote, SQuote, Slash, Star, Backslash, Newline, EOF

\* What a run is.
LEMMA RunIs ==
  ASSUME NEW t, TextLayout(t), NEW r \in Runs(t)
  PROVE  /\ r = <<r[1], r[2]>> /\ r[1] \in t.code /\ r[2] \in t.code
         /\ r[1] \in 1..Len(t.s) /\ r[2] \in 1..Len(t.s) /\ r[1] <= r[2]
         /\ \A k \in r[1]..r[2] : k \in t.code /\ is_identifier(t.s[k]) /\ IdentAt(t, k)
         /\ ~IdentAt(t, r[1] - 1)
         /\ ~IdentAt(t, r[2] + 1)
  BY DEF Runs, IdentAt, TextLayout

\* Runs that meet are equal.
LEMMA RunsApart ==
  ASSUME NEW t, TextLayout(t), NEW r \in Runs(t), NEW q \in Runs(t),
         r[1] <= q[2], q[1] <= r[2]
  PROVE  r = q
  <1>1. /\ r[1] \in Nat /\ r[2] \in Nat /\ q[1] \in Nat /\ q[2] \in Nat
        /\ r[1] <= r[2] /\ q[1] <= q[2] /\ r = <<r[1], r[2]>> /\ q = <<q[1], q[2]>>
    BY RunIs
  <1>2. ~(r[1] < q[1])
    <2>1. SUFFICES ASSUME r[1] < q[1] PROVE q[1] - 1 \in r[1]..r[2]
      BY RunIs
    <2>2. QED
      BY <1>1, <2>1
  <1>3. ~(q[1] < r[1])
    <2>1. SUFFICES ASSUME q[1] < r[1] PROVE r[1] - 1 \in q[1]..q[2]
      BY RunIs
    <2>2. QED
      BY <1>1, <2>1
  <1>4. ~(r[2] < q[2])
    <2>1. SUFFICES ASSUME r[2] < q[2] PROVE r[2] + 1 \in q[1]..q[2]
      BY RunIs
    <2>2. QED
      BY <1>1, <2>1
  <1>5. ~(q[2] < r[2])
    <2>1. SUFFICES ASSUME q[2] < r[2] PROVE q[2] + 1 \in r[1]..r[2]
      BY RunIs
    <2>2. QED
      BY <1>1, <2>1
  <1>6. r[1] = q[1] /\ r[2] = q[2]
    BY <1>1, <1>2, <1>3, <1>4, <1>5
  <1>7. QED
    BY <1>1, <1>6

\* Every identifier character belongs to a run.
LEMMA RunThrough ==
  ASSUME NEW t, TextLayout(t), NEW k, IdentAt(t, k)
  PROVE  \E r \in Runs(t) : r[1] <= k /\ k <= r[2]
  <1> DEFINE n == Len(t.s)
             B == {b \in Nat : b <= k /\ \A j \in b..k : IdentAt(t, j)}
             E == {e \in Nat : e > k /\ ~IdentAt(t, e)}
  <1>1. n \in Nat /\ k \in 1..n /\ \A j : IdentAt(t, j) => j \in 1..n /\ j \in t.code
    BY DEF TextLayout, IdentAt
  <1> HIDE DEF n
  <1>2. k \in B
    <2>1. \A j \in k..k : j = k
      BY <1>1
    <2>2. QED
      BY <1>1, <2>1
  <1>3. n + 1 \in E
    BY <1>1
  <1>4. PICK b \in B : \A y \in B : b <= y
    <2>1. B \subseteq Nat /\ B # {}
      BY <1>2
    <2>2. QED
      BY <2>1, NatMin
  <1>5. PICK f \in E : \A y \in E : f <= y
    <2>1. E \subseteq Nat /\ E # {}
      BY <1>3
    <2>2. QED
      BY <2>1, NatMin
  <1> DEFINE e == f - 1
  <1>6. /\ b \in Nat /\ b <= k /\ \A j \in b..k : IdentAt(t, j)
        /\ f \in Nat /\ k < f /\ ~IdentAt(t, f)
    OBVIOUS
  <1>7. ~IdentAt(t, b - 1)
    <2>1. SUFFICES ASSUME IdentAt(t, b - 1) PROVE FALSE
      OBVIOUS
    <2>2. b - 1 \in Nat /\ b - 1 <= k
      BY <1>1, <1>6, <2>1
    <2>3. \A j \in (b - 1)..k : j = b - 1 \/ j \in b..k
      BY <1>6, <2>2
    <2>4. b - 1 \in B
      BY <1>6, <2>1, <2>2, <2>3
    <2>5. QED
      BY <1>4, <1>6, <2>4
  <1>8. \A j \in b..e : IdentAt(t, j)
    <2>1. SUFFICES ASSUME NEW j \in b..e, ~IdentAt(t, j) PROVE FALSE
      OBVIOUS
    <2>2. j > k /\ j \in Nat /\ j < f
      BY <1>1, <1>6, <2>1
    <2>3. j \in E
      BY <2>1, <2>2
    <2>4. QED
      BY <1>5, <1>6, <2>2, <2>3
  <1>9. b <= e /\ k <= e /\ e + 1 = f /\ b \in b..e /\ e \in b..e
    BY <1>1, <1>6
  <1> HIDE DEF B, E, e
  <1>10. b \in t.code /\ e \in t.code
    BY <1>1, <1>8, <1>9
  <1>11. <<b, e>> \in Runs(t)
    BY <1>6, <1>7, <1>8, <1>9, <1>10 DEF Runs
  <1>12. QED
    BY <1>6, <1>9, <1>11

----------------------------------------------------------------------------
\* The references, one position after the other.

\* What defines ReferencesUpTo, on the first m positions.
AreReferences(t, m, f) ==
    f = [k \in 0..m |->
           IF k = 0 THEN <<>>
           ELSE IF \E r \in MentionsOf(t) : r[2] = k
             THEN Append(f[k - 1], WordOf(t, CHOOSE r \in MentionsOf(t) : r[2] = k))
             ELSE f[k - 1]]

\* Such a function exists, for every m.
LEMMA ReferencesExist ==
  ASSUME NEW t, NEW n \in Nat
  PROVE  \E f : AreReferences(t, n, f)
  <1> DEFINE T == {m \in Nat : ~\E f : AreReferences(t, m, f)}
             Step(g, k) ==
               IF k = 0 THEN <<>>
               ELSE IF \E r \in MentionsOf(t) : r[2] = k
                 THEN Append(g[k - 1], WordOf(t, CHOOSE r \in MentionsOf(t) : r[2] = k))
                 ELSE g[k - 1]
  <1>1. SUFFICES ASSUME n \in T PROVE FALSE
    OBVIOUS
  <1>2. T \subseteq Nat
    OBVIOUS
  <1>3. PICK m \in T : \A y \in T : m <= y
    BY <1>1, <1>2, NatMin
  <1>4. m \in Nat /\ ~\E f : AreReferences(t, m, f)
    OBVIOUS
  <1>5. \A j \in Nat : \A f : AreReferences(t, j, f) <=> f = [k \in 0..j |-> Step(f, k)]
    BY DEF AreReferences
  <1>6. \A g, h, k : k = 0 \/ g[k - 1] = h[k - 1] => Step(g, k) = Step(h, k)
    BY Zenon
  <1>7. \A g : Step(g, 0) = <<>>
    OBVIOUS
  <1> HIDE DEF Step
  <1>8. m # 0
    <2>1. SUFFICES ASSUME m = 0 PROVE FALSE
      OBVIOUS
    <2> DEFINE f == [k \in 0..0 |-> <<>>]
    <2>2. f = [k \in 0..0 |-> Step(f, k)]
      <3>1. \A k \in 0..0 : k = 0
        OBVIOUS
      <3>2. QED
        BY <1>7, <3>1
    <2> HIDE DEF f
    <2>3. QED
      BY <1>4, <1>5, <2>1, <2>2
  <1>9. m - 1 \in Nat /\ m - 1 \notin T
    BY <1>3, <1>4, <1>8
  <1>10. PICK f : AreReferences(t, m - 1, f)
    BY <1>9
  <1> HIDE DEF T
  <1> DEFINE g == [k \in 0..m |-> IF k = m THEN Step(f, m) ELSE f[k]]
  <1>11. ASSUME NEW k \in 0..m PROVE g[k] = Step(g, k)
    <2>1. k = 0 \/ g[k - 1] = f[k - 1]
      <3>1. k # 0 => k - 1 \in 0..m /\ k - 1 # m
        BY <1>4
      <3>2. QED
        BY <3>1
    <2>2. Step(g, k) = Step(f, k)
      BY <1>6, <2>1
    <2>3. k # m => f[k] = Step(f, k)
      <3>1. k # m => k \in 0..(m - 1)
        BY <1>4
      <3>2. f = [j \in 0..(m - 1) |-> Step(f, j)]
        BY <1>5, <1>9, <1>10
      <3>3. QED
        BY <3>1, <3>2
    <2>4. QED
      BY <2>2, <2>3
  <1>12. g = [k \in 0..m |-> Step(g, k)]
    BY <1>11
  <1> HIDE DEF g
  <1>13. QED
    BY <1>4, <1>5, <1>12

\* The references up to a position, from those up to the one before it.
LEMMA ReferencesStep ==
  ASSUME NEW t, TextLayout(t)
  PROVE  /\ ReferencesUpTo(t)[0] = <<>>
         /\ \A k \in 1..Len(t.s) :
               ReferencesUpTo(t)[k] =
                 IF \E r \in MentionsOf(t) : r[2] = k
                   THEN Append(ReferencesUpTo(t)[k - 1],
                               WordOf(t, CHOOSE r \in MentionsOf(t) : r[2] = k))
                   ELSE ReferencesUpTo(t)[k - 1]
  <1>1. Len(t.s) \in Nat
    BY DEF TextLayout
  <1>2. \E f : AreReferences(t, Len(t.s), f)
    BY <1>1, ReferencesExist
  <1>3. ReferencesUpTo(t) = CHOOSE f : AreReferences(t, Len(t.s), f)
    BY DEF ReferencesUpTo, AreReferences
  <1>4. AreReferences(t, Len(t.s), ReferencesUpTo(t))
    BY <1>2, <1>3
  <1> DEFINE f == ReferencesUpTo(t)
  <1>5. \A k \in 0..Len(t.s) :
           f[k] = IF k = 0 THEN <<>>
                  ELSE IF \E r \in MentionsOf(t) : r[2] = k
                    THEN Append(f[k - 1], WordOf(t, CHOOSE r \in MentionsOf(t) : r[2] = k))
                    ELSE f[k - 1]
    <2>1. AreReferences(t, Len(t.s), f)
      BY <1>4
    <2> HIDE DEF f
    <2>2. QED
      BY <2>1 DEF AreReferences
  <1>6. 0 \in 0..Len(t.s) /\ \A k \in 1..Len(t.s) : k \in 0..Len(t.s) /\ k # 0
    BY <1>1
  <1> HIDE DEF f
  <1>7. QED
    BY <1>5, <1>6, Zenon DEF f

\* Where no mention ends there is no new reference.
LEMMA ReferencesStay ==
  ASSUME NEW t, TextLayout(t), NEW a \in 0..Len(t.s), NEW b \in a..Len(t.s),
         \A r \in MentionsOf(t) : ~(a < r[2] /\ r[2] <= b)
  PROVE  ReferencesUpTo(t)[b] = ReferencesUpTo(t)[a]
  <1> DEFINE f == ReferencesUpTo(t)
             T == {k \in Nat : k \in a..b /\ f[k] # f[a]}
  <1>1. Len(t.s) \in Nat
    BY DEF TextLayout
  <1>2. \A k \in 1..Len(t.s) : (~\E r \in MentionsOf(t) : r[2] = k) => f[k] = f[k - 1]
    BY ReferencesStep
  <1> HIDE DEF f
  <1>3. SUFFICES ASSUME T # {} PROVE FALSE
    BY <1>1 DEF f
  <1>4. PICK m \in T : \A y \in T : m <= y
    <2>1. T \subseteq Nat
      OBVIOUS
    <2>2. QED
      BY <1>3, <2>1, NatMin
  <1>5. m \in a..b /\ m \in Nat /\ f[m] # f[a]
    OBVIOUS
  <1>6. m # a
    BY <1>5
  <1>7. m - 1 \in a..b /\ m - 1 \in Nat /\ m \in 1..Len(t.s) /\ a < m /\ m <= b /\ m - 1 < m
    BY <1>1, <1>5, <1>6
  <1>8. f[m - 1] = f[a]
    BY <1>4, <1>7
  <1> HIDE DEF T
  <1>9. ~\E r \in MentionsOf(t) : r[2] = m
    BY <1>7
  <1>10. f[m] = f[m - 1]
    BY <1>2, <1>7, <1>9
  <1>11. QED
    BY <1>5, <1>8, <1>10

\* Past an identifier there is a reference more, if it is a mention.
LEMMA ReferencesPast ==
  ASSUME NEW t, TextLayout(t), NEW r \in Identifiers(t), NEW p \in r[2]..Len(t.s),
         \A q \in Identifiers(t) : r[2] < q[2] /\ q[2] <= p => ~IsMention(t, q)
  PROVE  ReferencesUpTo(t)[p] =
           IF IsMention(t, r) THEN Append(ReferencesUpTo(t)[r[1] - 1], WordOf(t, r))
                              ELSE ReferencesUpTo(t)[r[1] - 1]
  <1>1. Len(t.s) \in Nat
    BY DEF TextLayout
  <1>2. /\ r \in Runs(t) /\ r[1] \in 1..Len(t.s) /\ r[2] \in 1..Len(t.s) /\ r[1] <= r[2]
    BY RunIs DEF Identifiers
  <1>3. ASSUME NEW q \in MentionsOf(t)
        PROVE  q \in Runs(t) /\ q[1] \in Nat /\ q[2] \in Nat /\ q[1] <= q[2] /\ IsMention(t, q)
    BY RunIs DEF MentionsOf, Identifiers
  <1>4. ASSUME NEW q \in MentionsOf(t), r[1] <= q[2], q[2] <= r[2] PROVE q = r
    BY <1>2, <1>3, <1>4, RunsApart
  <1>5. ReferencesUpTo(t)[p] = ReferencesUpTo(t)[r[2]]
    <2>1. \A q \in MentionsOf(t) : ~(r[2] < q[2] /\ q[2] <= p)
      BY DEF MentionsOf
    <2>2. r[2] \in 0..Len(t.s)
      BY <1>1, <1>2
    <2>3. QED
      BY <2>1, <2>2, ReferencesStay
  <1> DEFINE a == r[1] - 1
             b == r[2] - 1
  <1>6. a \in 0..Len(t.s) /\ b \in a..Len(t.s)
    BY <1>1, <1>2
  <1>7. ReferencesUpTo(t)[b] = ReferencesUpTo(t)[a]
    <2>1. ASSUME NEW q \in MentionsOf(t), a < q[2], q[2] <= b PROVE FALSE
      <3>1. r[1] <= q[2] /\ q[2] <= r[2] /\ q[2] # r[2]
        BY <1>2, <1>3, <2>1
      <3>2. QED
        BY <1>4, <3>1
    <2> HIDE DEF a, b
    <2>2. QED
      BY <1>6, <2>1, ReferencesStay
  <1>8. CASE IsMention(t, r)
    <2>1. r \in MentionsOf(t) /\ \A q \in MentionsOf(t) : q[2] = r[2] => q = r
      BY <1>2, <1>4, <1>8 DEF MentionsOf
    <2>2. (CHOOSE q \in MentionsOf(t) : q[2] = r[2]) = r
      BY <2>1
    <2>3. ReferencesUpTo(t)[r[2]] = Append(ReferencesUpTo(t)[b], WordOf(t, r))
      <3>1. \E q \in MentionsOf(t) : q[2] = r[2]
        BY <2>1, Zenon
      <3>2. ReferencesUpTo(t)[r[2]] =
              IF \E q \in MentionsOf(t) : q[2] = r[2]
                THEN Append(ReferencesUpTo(t)[b], WordOf(t, CHOOSE q \in MentionsOf(t) : q[2] = r[2]))
                ELSE ReferencesUpTo(t)[b]
        BY <1>2, ReferencesStep, Zenon
      <3>3. QED
        BY <2>2, <3>1, <3>2, Zenon
    <2>4. QED
      BY <1>5, <1>7, <1>8, <2>3
  <1>9. CASE ~IsMention(t, r)
    <2>1. \A q \in MentionsOf(t) : q[2] # r[2]
      BY <1>2, <1>4, <1>9 DEF MentionsOf
    <2>2. ReferencesUpTo(t)[r[2]] = ReferencesUpTo(t)[b]
      BY <1>2, <2>1, ReferencesStep
    <2>3. QED
      BY <1>5, <1>7, <1>9, <2>2
  <1>10. QED
    BY <1>8, <1>9

----------------------------------------------------------------------------
\* Counting: the newlines, and the words include, up to a position.

LinesTo(t, p) == Cardinality({k \in 1..Len(t.s) : k <= p /\ t.s[k] = Newline})

Includes(t) == {u \in Identifiers(t) : WordOf(t, u) = IncludeWord}

IncludesTo(t, p) == Cardinality({u \in Includes(t) : u[2] <= p})

Counted(t, p) == LinesTo(t, p) + IncludesTo(t, p)

\* A set that has a member more.
LEMMA MoreMembers ==
  ASSUME NEW S, IsFiniteSet(S), NEW T, T \subseteq S
  PROVE  /\ Cardinality(T) \in Nat /\ Cardinality(S) \in Nat
         /\ Cardinality(T) <= Cardinality(S)
         /\ \A x \in S \ T : Cardinality(T) + 1 <= Cardinality(S)
  <1>1. /\ IsFiniteSet(T) /\ Cardinality(T) <= Cardinality(S)
    BY FS_Subset
  <1>2. Cardinality(T) \in Nat /\ Cardinality(S) \in Nat
    BY <1>1, FS_CardinalityType
  <1>3. ASSUME NEW x \in S \ T PROVE Cardinality(T) + 1 <= Cardinality(S)
    <2>1. Cardinality(T \cup {x}) = Cardinality(T) + 1
      BY <1>1, FS_AddElement
    <2>2. Cardinality(T \cup {x}) <= Cardinality(S)
      <3>1. T \cup {x} \subseteq S
        OBVIOUS
      <3>2. QED
        BY <3>1, FS_Subset
    <2>3. QED
      BY <2>1, <2>2
  <1>4. QED
    BY <1>1, <1>2, <1>3

\* The numbers grow with the position, and with what is counted.
LEMMA CountsGrow ==
  ASSUME NEW t, TextLayout(t), NEW p \in Int, NEW q \in Int, p <= q
  PROVE  /\ LinesTo(t, p) \in Nat /\ LinesTo(t, q) \in Nat /\ LinesTo(t, p) <= LinesTo(t, q)
         /\ IncludesTo(t, p) \in Nat /\ IncludesTo(t, q) \in Nat
         /\ IncludesTo(t, p) <= IncludesTo(t, q)
         /\ p < q /\ q \in 1..Len(t.s) /\ t.s[q] = Newline => LinesTo(t, p) + 1 <= LinesTo(t, q)
         /\ \A u \in Includes(t) :
               p < u[2] /\ u[2] <= q => IncludesTo(t, p) + 1 <= IncludesTo(t, q)
  <1> DEFINE n == Len(t.s)
             Lp == {k \in 1..n : k <= p /\ t.s[k] = Newline}
             Lq == {k \in 1..n : k <= q /\ t.s[k] = Newline}
             Ip == {u \in Includes(t) : u[2] <= p}
             Iq == {u \in Includes(t) : u[2] <= q}
  <1>1. n \in Nat
    BY DEF TextLayout
  <1>2. IsFiniteSet(1..n)
    BY <1>1, FS_Interval
  <1>3. IsFiniteSet(Lq) /\ Lp \subseteq Lq
    <2>1. Lq \subseteq 1..n
      OBVIOUS
    <2>2. Lp \subseteq Lq
      BY <1>1
    <2>3. QED
      BY <1>2, <2>1, <2>2, FS_Subset
  <1>4. Includes(t) \subseteq (1..n) \X (1..n)
    <2>1. SUFFICES ASSUME NEW u \in Includes(t) PROVE u \in (1..n) \X (1..n)
      OBVIOUS
    <2>2. u = <<u[1], u[2]>> /\ u[1] \in 1..n /\ u[2] \in 1..n
      BY RunIs DEF Includes, Identifiers
    <2> HIDE DEF n
    <2>3. QED
      BY <2>2
  <1>5. IsFiniteSet(Iq) /\ Ip \subseteq Iq
    <2>1. IsFiniteSet((1..n) \X (1..n))
      BY <1>2, FS_Product
    <2>2. Iq \subseteq (1..n) \X (1..n)
      BY <1>4
    <2>3. \A u \in Includes(t) : u[2] \in Nat
      BY RunIs DEF Includes, Identifiers
    <2>4. Ip \subseteq Iq
      BY <2>3
    <2> HIDE DEF Iq, Ip
    <2>5. QED
      BY <2>1, <2>2, <2>4, FS_Subset
  <1>6. p < q /\ q \in 1..n /\ t.s[q] = Newline => q \in Lq \ Lp
    OBVIOUS
  <1>7. \A u \in Includes(t) : p < u[2] /\ u[2] <= q => u \in Iq \ Ip
    <2>1. \A u \in Includes(t) : u[2] \in Nat
      BY RunIs DEF Includes, Identifiers
    <2>2. QED
      BY <2>1
  <1>8. /\ LinesTo(t, p) = Cardinality(Lp) /\ LinesTo(t, q) = Cardinality(Lq)
        /\ IncludesTo(t, p) = Cardinality(Ip) /\ IncludesTo(t, q) = Cardinality(Iq)
    BY DEF LinesTo, IncludesTo
  <1> HIDE DEF Lp, Lq, Ip, Iq
  <1>9. QED
    BY <1>3, <1>5, <1>6, <1>7, <1>8, MoreMembers

----------------------------------------------------------------------------
\* What the scan has found up to a position.

\* The texts on which the scan is exact, words aside.
Exact(t) == ~LineLost(t) /\ ~IndentedDirective(t)

\* No identifier lies across position q.
Apart(t, q) == \A r \in Identifiers(t) : r[2] <= q \/ q < r[1]

\* The line at q has a directive before; it has an include directive; it has
\* no code yet.
InDirective(t, q) == \E h \in Directives(t) : h <= q /\ SameLine(t, h, q + 1)
NotIncluding(t, q) == \A u \in IncludeWords(t) : u[2] <= q => ~SameLine(t, u[2], q + 1)
LineStart(t, q) == \A k \in t.code : k <= q => ~SameLine(t, k, q + 1)

\* The scan knows where the lines start, if there is a directive.
ColumnOK(t, q) ==
    /\ col = 0 => LineStart(t, q)
    /\ Directives(t) # {} /\ LineStart(t, q) => col = 0

\* What holds between two identifiers, or before the one that is being read.
Before(t, q) ==
    /\ Apart(t, q)
    /\ Exact(t) => /\ Found = ReferencesUpTo(t)[q]
                   /\ NotIncluding(t, q)
                   /\ in_preprocessor <=> InDirective(t, q)

MainAt(t, p) ==
    /\ Before(t, p)
    /\ lnr <= Counted(t, p)
    /\ Exact(t) => ColumnOK(t, p)

\* No code lies at the positions from p + 1 to q.
NoneIn(t, p, q) == \A k \in t.code : ~(p < k /\ k <= q)

\* What SameLine says of the ends of the lines.
LEMMA SameLineIs ==
  ASSUME NEW t, TextLayout(t), NEW i \in Int, NEW k \in Int
  PROVE  /\ SameLine(t, i, k) <=> \A e \in t.ends : ~(i <= e /\ e < k)
         /\ SameLine(t, i, k + 1) <=> \A e \in t.ends : ~(i <= e /\ e <= k)
  <1>1. \A e \in t.ends : e \in Int
    BY DEF TextLayout
  <1>2. QED
    BY <1>1 DEF SameLine

\* Directives are code, and in an exact text with one all lines end in code.
LEMMA DirectiveFacts ==
  ASSUME NEW t, TextLayout(t)
  PROVE  /\ \A h \in Directives(t) : h \in t.code /\ h \in 1..Len(t.s) /\ t.s[h] = Hash
         /\ Exact(t) /\ Directives(t) # {} => t.ends \subseteq t.code
         /\ \A u \in IncludeWords(t) : /\ u \in Identifiers(t) /\ u \in Runs(t)
                                       /\ Directives(t) # {}
         /\ Len(t.s) \in Nat
         /\ \A k \in t.code : k \in 1..Len(t.s) /\ k \in Nat
         /\ \A e \in t.ends : e \in 1..Len(t.s) /\ e \in Nat /\ t.s[e] \in Chars
  BY DEF Directives, Exact, LineLost, IncludeWords, Identifiers, TextLayout

\* Where a '#' is a directive.
LEMMA HashStarts ==
  ASSUME NEW t, TextLayout(t), NEW q \in t.code, t.s[q] = Hash
  PROVE  /\ LineStart(t, q - 1) => q \in Directives(t)
         /\ Exact(t) /\ q \in Directives(t) => LineStart(t, q - 1)
  <1>1. q \in Nat /\ q >= 1 /\ q - 1 \in Int /\ \A k \in t.code : k \in Int
    BY DirectiveFacts
  <1>2. \A k \in t.code : k < q <=> k <= q - 1
    BY <1>1
  <1>3. \A k \in t.code : SameLine(t, k, (q - 1) + 1) <=> SameLine(t, k, q)
    <2>1. (q - 1) + 1 = q
      BY <1>1
    <2>2. QED
      BY <2>1
  <1>4. LineStart(t, q - 1) => q \in Directives(t)
    BY <1>2, <1>3 DEF LineStart, Directives
  <1>5. Exact(t) /\ q \in Directives(t) => LineStart(t, q - 1)
    BY <1>2, <1>3 DEF LineStart, Exact, IndentedDirective
  <1>6. QED
    BY <1>4, <1>5

\* Where no line ends and no directive starts the line stays the same.
LEMMA LineStays ==
  ASSUME NEW t, TextLayout(t), NEW p \in Nat, NEW q \in Nat, p <= q,
         \A e \in t.ends : ~(p < e /\ e <= q)
  PROVE  /\ \A k \in Int : k <= p => (SameLine(t, k, q + 1) <=> SameLine(t, k, p + 1))
         /\ (\A h \in Directives(t) : ~(p < h /\ h <= q)) =>
               (InDirective(t, q) <=> InDirective(t, p))
         /\ NoneIn(t, p, q) => (LineStart(t, q) <=> LineStart(t, p))
  <1>1. /\ \A e \in t.ends : e \in Nat
        /\ \A k \in t.code : k \in Nat
        /\ \A h \in Directives(t) : h \in Nat
    BY DirectiveFacts
  <1>2. ASSUME NEW k \in Int, k <= p
        PROVE  SameLine(t, k, q + 1) <=> SameLine(t, k, p + 1)
    <2>1. k \in Int /\ p \in Int /\ q \in Int
      OBVIOUS
    <2>2. SameLine(t, k, q + 1) <=> \A e \in t.ends : ~(k <= e /\ e <= q)
      BY <2>1, SameLineIs
    <2>3. SameLine(t, k, p + 1) <=> \A e \in t.ends : ~(k <= e /\ e <= p)
      BY <2>1, SameLineIs
    <2>4. QED
      BY <1>1, <1>2, <2>2, <2>3
  <1>3. ASSUME \A h \in Directives(t) : ~(p < h /\ h <= q)
        PROVE  InDirective(t, q) <=> InDirective(t, p)
    <2>1. \A h \in Directives(t) : h <= q <=> h <= p
      BY <1>1, <1>3
    <2>2. \A h \in Directives(t) : h <= p => (SameLine(t, h, q + 1) <=> SameLine(t, h, p + 1))
      BY <1>1, <1>2
    <2>3. QED
      BY <2>1, <2>2 DEF InDirective
  <1>4. ASSUME NoneIn(t, p, q) PROVE LineStart(t, q) <=> LineStart(t, p)
    <2>1. \A k \in t.code : k <= q <=> k <= p
      BY <1>1, <1>4 DEF NoneIn
    <2>2. \A k \in t.code : k <= p => (SameLine(t, k, q + 1) <=> SameLine(t, k, p + 1))
      BY <1>1, <1>2
    <2>3. QED
      BY <2>1, <2>2 DEF LineStart
  <1>5. QED
    BY <1>2, <1>3, <1>4

\* A line that has ended stays ended.
LEMMA LineLeft ==
  ASSUME NEW t, TextLayout(t), NEW p \in Nat, NEW q \in Nat, p <= q, NEW k \in Int,
         SameLine(t, k, q + 1)
  PROVE  SameLine(t, k, p + 1)
  <1>1. /\ SameLine(t, k, q + 1) <=> \A e \in t.ends : ~(k <= e /\ e <= q)
        /\ SameLine(t, k, p + 1) <=> \A e \in t.ends : ~(k <= e /\ e <= p)
    BY SameLineIs
  <1>2. \A e \in t.ends : e \in Nat
    BY DirectiveFacts
  <1>3. QED
    BY <1>1, <1>2

\* Comments and literals do not matter between two identifiers.
LEMMA MainSkips ==
  ASSUME NEW t, TextLayout(t), NEW p \in Nat, NEW q \in p..Len(t.s), MainAt(t, p),
         NoneIn(t, p, q), lnr \in Nat
  PROVE  MainAt(t, q)
  <1>1. /\ q \in Nat /\ p <= q /\ p \in 0..Len(t.s)
        /\ \A k \in t.code : k \in Nat /\ (k <= q => k <= p)
    BY DirectiveFacts DEF NoneIn
  <1>2. ASSUME NEW r \in Identifiers(t)
        PROVE  /\ r[1] \in t.code /\ r[2] \in t.code
               /\ r[1] \in Nat /\ r[2] \in Nat /\ r[1] <= r[2]
    BY RunIs DEF Identifiers
  <1>3. Apart(t, q)
    <2>1. SUFFICES ASSUME NEW r \in Identifiers(t) PROVE r[2] <= q \/ q < r[1]
      BY DEF Apart
    <2>2. r[2] <= p \/ p < r[1]
      BY DEF MainAt, Before, Apart
    <2>3. QED
      BY <1>1, <1>2, <2>2
  <1>4. lnr <= Counted(t, q)
    <2>1. lnr <= Counted(t, p)
      BY DEF MainAt
    <2>2. QED
      BY <1>1, <2>1, CountsGrow DEF Counted
  <1>5. ASSUME Exact(t)
        PROVE  /\ Found = ReferencesUpTo(t)[q]
               /\ NotIncluding(t, q)
               /\ in_preprocessor <=> InDirective(t, q)
               /\ ColumnOK(t, q)
    <2>1. /\ Found = ReferencesUpTo(t)[p] /\ NotIncluding(t, p)
          /\ in_preprocessor <=> InDirective(t, p)
          /\ ColumnOK(t, p)
      BY <1>5 DEF MainAt, Before
    <2>2. ReferencesUpTo(t)[q] = ReferencesUpTo(t)[p]
      <3>1. \A r \in MentionsOf(t) : ~(p < r[2] /\ r[2] <= q)
        BY <1>2 DEF NoneIn, MentionsOf
      <3>2. QED
        BY <1>1, <3>1, ReferencesStay
    <2>3. NotIncluding(t, q)
      <3>1. SUFFICES ASSUME NEW u \in IncludeWords(t), u[2] <= q, SameLine(t, u[2], q + 1)
                     PROVE  FALSE
        BY DEF NotIncluding
      <3>2. u[2] <= p /\ u[2] \in Int
        BY <1>1, <1>2, <3>1, DirectiveFacts
      <3>3. SameLine(t, u[2], p + 1)
        BY <1>1, <3>1, <3>2, LineLeft
      <3>4. QED
        BY <2>1, <3>2, <3>3 DEF NotIncluding
    <2>4. CASE Directives(t) = {}
      <3>1. ~InDirective(t, p) /\ ~InDirective(t, q)
        BY <2>4 DEF InDirective
      <3>2. LineStart(t, p) => LineStart(t, q)
        <4>1. SUFFICES ASSUME LineStart(t, p), NEW k \in t.code, k <= q, SameLine(t, k, q + 1)
                       PROVE  FALSE
          BY DEF LineStart
        <4>2. k <= p /\ k \in Int /\ SameLine(t, k, p + 1)
          BY <1>1, <4>1, LineLeft
        <4>3. QED
          BY <4>1, <4>2 DEF LineStart
      <3>3. QED
        BY <2>1, <2>2, <2>3, <2>4, <3>1, <3>2 DEF ColumnOK
    <2>5. CASE Directives(t) # {}
      <3>1. t.ends \subseteq t.code /\ \A h \in Directives(t) : h \in t.code
        BY <1>5, <2>5, DirectiveFacts
      <3>2. \A e \in t.ends : ~(p < e /\ e <= q)
        BY <3>1 DEF NoneIn
      <3>3. \A h \in Directives(t) : ~(p < h /\ h <= q)
        BY <3>1 DEF NoneIn
      <3>4. /\ InDirective(t, q) <=> InDirective(t, p)
            /\ LineStart(t, q) <=> LineStart(t, p)
        BY <1>1, <3>2, <3>3, LineStays
      <3>5. QED
        BY <2>1, <2>2, <2>3, <3>4 DEF ColumnOK
    <2>6. QED
      BY <2>4, <2>5
  <1>6. QED
    BY <1>3, <1>4, <1>5 DEF MainAt, Before

----------------------------------------------------------------------------
\* Where the scan is in a text t, for each place of the program: p is the
\* last position that cf_getc went through.

\* The texts whose identifiers the scan tells apart.
Plain(t) == TextLayout(t) /\ ~Glued(t) /\ ~LetteredNumber(t)

\* All code is behind p, but for a '/' at the end, which cf_next drops.
AtEnd(t, p) == \A k \in t.code : k > p => t.s[k] = Slash

\* What was so before the word r, and how it is used.
Entered(t, b) ==
    /\ Before(t, b - 1)
    /\ lnr <= Counted(t, b - 1)
    /\ col > 0

TypeWanted(t, r) == IF IsCalled(t, r) THEN {"FUNCTION", "KEYWORD"} ELSE Types \ {"FUNCTION"}

\* The characters of an identifier up to e are in idbuf.
IdentFrom(t, b, e, p) ==
    /\ b <= e /\ e <= p
    /\ idbuf = SubSeq(t.s, b, e)
    /\ \A k \in b..e : IdentAt(t, k)
    /\ ~IdentAt(t, b - 1)
    /\ is_identifier_start(t.s[b])
    /\ NoneIn(t, e, p)
    /\ Entered(t, b)

\* The identifier r is in idbuf, with white space behind it.
SpaceAt(t, r, p) ==
    /\ idbuf = WordOf(t, r) /\ r[2] <= p
    /\ Entered(t, r[1])
    /\ Blank(t, r[2], p + 1)

\* The next character behind the white space is in c.
WordAt(t, r, p) ==
    /\ idbuf = WordOf(t, r) /\ r[2] <= p
    /\ Entered(t, r[1])
    /\ \/ c = EOF /\ AtEnd(t, p) /\ Blank(t, r[2], p + 1)
       \/ /\ c # EOF /\ p \in t.code /\ r[2] < p /\ t.s[p] = c /\ ~isspace(c)
          /\ Blank(t, r[2], p)

\* The line of an #include is skipped.
IncludeAt(t, r, p) ==
    /\ idbuf = IncludeWord /\ idbuf = WordOf(t, r) /\ r[2] <= p
    /\ Before(t, r[1] - 1)
    /\ lnr <= Counted(t, r[1] - 1)
    /\ Exact(t) => /\ r \in IncludeWords(t)
                   /\ SameLine(t, r[2], p + 1)
                   /\ find_type = TypeWanted(t, r)

\* The identifier r is about to be looked up.
LookupAt(t, r, p) ==
    /\ idbuf = WordOf(t, r) /\ r[2] <= p
    /\ Apart(t, p)
    /\ lnr <= LinesTo(t, p) + IncludesTo(t, r[1] - 1)
    /\ c = Newline => idbuf = IncludeWord
    /\ c = EOF => AtEnd(t, p)
    /\ Exact(t) =>
          /\ Found = ReferencesUpTo(t)[r[1] - 1]
          /\ NotIncluding(t, r[1] - 1)
          /\ find_type = TypeWanted(t, r)
          /\ \A q \in Identifiers(t) : r[2] < q[2] /\ q[2] <= p => ~IsMention(t, q)
          /\ NotIncluding(t, p)
          /\ in_preprocessor <=> InDirective(t, p)
          /\ ColumnOK(t, p)

\* The text has been scanned.
DoneAt(t) ==
    /\ lnr <= Counted(t, Len(t.s))
    /\ Exact(t) /\ ~IncludeUnfinished(t) => Found = References(t)

PlaceIn(t, p) ==
    /\ pc = "main" => MainAt(t, p)
    /\ pc = "ident" => \E b, e \in t.code : IdentFrom(t, b, e, p)
    /\ pc = "space" => \E r \in Identifiers(t) : SpaceAt(t, r, p)
    /\ pc = "word" => \E r \in Identifiers(t) : WordAt(t, r, p)
    /\ pc = "include" => \E r \in Identifiers(t) : IncludeAt(t, r, p)
    /\ pc = "lookup" => \E r \in Identifiers(t) : LookupAt(t, r, p)
    /\ pc = "done" => DoneAt(t)

\* What an identifier is.
LEMMA IdentifierIs ==
  ASSUME NEW t, TextLayout(t), NEW r \in Identifiers(t)
  PROVE  /\ r \in Runs(t) /\ r = <<r[1], r[2]>>
         /\ r[1] \in t.code /\ r[2] \in t.code
         /\ r[1] \in 1..Len(t.s) /\ r[2] \in 1..Len(t.s) /\ r[1] \in Nat /\ r[2] \in Nat
         /\ r[1] <= r[2] /\ r[1] - 1 \in 0..Len(t.s) /\ r[1] - 1 \in Nat
         /\ \A k \in r[1]..r[2] : k \in t.code /\ is_identifier(t.s[k])
         /\ is_identifier_start(t.s[r[1]])
         /\ Len(t.s) \in Nat
  <1>1. r \in Runs(t) /\ is_identifier_start(t.s[r[1]])
    BY DEF Identifiers
  <1>2. Len(t.s) \in Nat
    BY DEF TextLayout
  <1>3. QED
    BY <1>1, <1>2, RunIs

\* Of two identifiers one is before the other.
LEMMA IdentifiersApart ==
  ASSUME NEW t, TextLayout(t), NEW r \in Identifiers(t), NEW q \in Identifiers(t), q # r
  PROVE  q[2] < r[1] \/ r[2] < q[1]
  <1>1. /\ r \in Runs(t) /\ q \in Runs(t)
        /\ r[1] \in Nat /\ r[2] \in Nat /\ q[1] \in Nat /\ q[2] \in Nat
    BY IdentifierIs
  <1>2. ~(r[1] <= q[2] /\ q[1] <= r[2])
    BY <1>1, RunsApart
  <1>3. QED
    BY <1>1, <1>2

\* A character of code that no identifier starts with: no identifier lies
\* across it or ends there.
LEMMA OtherChar ==
  ASSUME NEW t, TextLayout(t), NEW q \in t.code, Apart(t, q - 1),
         ~is_identifier_start(t.s[q])
  PROVE  /\ Apart(t, q) /\ \A r \in Identifiers(t) : r[2] # q
         /\ ReferencesUpTo(t)[q] = ReferencesUpTo(t)[q - 1]
         /\ NotIncluding(t, q - 1) => NotIncluding(t, q)
  <1>1. q \in 1..Len(t.s) /\ q \in Nat /\ Len(t.s) \in Nat /\ q - 1 \in Nat /\ q - 1 \in 0..Len(t.s)
    BY DirectiveFacts
  <1>2. ASSUME NEW r \in Identifiers(t) PROVE (r[2] <= q \/ q < r[1]) /\ r[2] # q
    <2>1. /\ r[1] \in Nat /\ r[2] \in Nat /\ r[1] <= r[2] /\ is_identifier_start(t.s[r[1]])
      BY IdentifierIs
    <2>2. r[1] # q
      BY <2>1
    <2>3. r[2] <= q - 1 \/ q - 1 < r[1]
      BY DEF Apart
    <2>4. QED
      BY <1>1, <2>1, <2>2, <2>3
  <1>3. ReferencesUpTo(t)[q] = ReferencesUpTo(t)[q - 1]
    <2>1. \A r \in MentionsOf(t) : r[2] # q /\ r[2] \in Nat
      BY <1>2, IdentifierIs DEF MentionsOf
    <2>2. \A r \in MentionsOf(t) : ~(q - 1 < r[2] /\ r[2] <= q)
      BY <1>1, <2>1
    <2>3. q \in (q - 1)..Len(t.s)
      BY <1>1
    <2>4. QED
      BY <1>1, <2>2, <2>3, ReferencesStay
  <1>4. ASSUME NotIncluding(t, q - 1) PROVE NotIncluding(t, q)
    <2>1. SUFFICES ASSUME NEW u \in IncludeWords(t), u[2] <= q, SameLine(t, u[2], q + 1)
                   PROVE  FALSE
      BY DEF NotIncluding
    <2>2. u[2] # q /\ u[2] \in Nat
      BY <1>2, IdentifierIs, DirectiveFacts
    <2>3. u[2] <= q - 1 /\ u[2] \in Int /\ q - 1 <= q
      BY <1>1, <2>1, <2>2
    <2>4. SameLine(t, u[2], (q - 1) + 1)
      BY <1>1, <2>1, <2>3, LineLeft
    <2>5. QED
      BY <1>4, <2>3, <2>4 DEF NotIncluding
  <1>5. QED
    BY <1>2, <1>3, <1>4 DEF Apart

\* Behind the end of a line nothing of it counts.
LEMMA LineEnds ==
  ASSUME NEW t, TextLayout(t), NEW q \in t.ends
  PROVE  /\ NotIncluding(t, q) /\ ~InDirective(t, q) /\ LineStart(t, q)
         /\ \A k \in Int : k <= q => ~SameLine(t, k, q + 1)
  <1>1. q \in Int /\ q \in Nat
    BY DirectiveFacts
  <1>2. ASSUME NEW k \in Int, k <= q PROVE ~SameLine(t, k, q + 1)
    <2>1. SameLine(t, k, q + 1) <=> \A e \in t.ends : ~(k <= e /\ e <= q)
      BY <1>1, SameLineIs
    <2>2. QED
      BY <1>1, <1>2, <2>1
  <1>3. NotIncluding(t, q)
    <2>1. \A u \in IncludeWords(t) : u[2] \in Int
      BY IdentifierIs, DirectiveFacts
    <2>2. QED
      BY <1>2, <2>1 DEF NotIncluding
  <1>4. ~InDirective(t, q)
    BY <1>2, DirectiveFacts DEF InDirective
  <1>5. LineStart(t, q)
    BY <1>2, DirectiveFacts DEF LineStart
  <1>6. QED
    BY <1>2, <1>3, <1>4, <1>5

\* Behind the end of the code there is nothing to find.
LEMMA NothingBehind ==
  ASSUME NEW t, TextLayout(t), NEW p \in 0..Len(t.s), AtEnd(t, p)
  PROVE  /\ References(t) = ReferencesUpTo(t)[p]
         /\ Counted(t, p) \in Nat /\ Counted(t, Len(t.s)) \in Nat
         /\ Counted(t, p) <= Counted(t, Len(t.s))
  <1>1. Len(t.s) \in Nat /\ Len(t.s) \in p..Len(t.s) /\ p \in Int /\ Len(t.s) \in Int
    BY DEF TextLayout
  <1>2. \A r \in MentionsOf(t) : ~(p < r[2] /\ r[2] <= Len(t.s))
    <2>1. SUFFICES ASSUME NEW r \in MentionsOf(t), p < r[2] PROVE FALSE
      OBVIOUS
    <2>2. r[2] \in t.code /\ is_identifier(t.s[r[2]]) /\ r[2] > p
      BY <1>1, <2>1, IdentifierIs DEF MentionsOf
    <2>3. QED
      BY <2>2, CharFacts DEF AtEnd
  <1>3. References(t) = ReferencesUpTo(t)[p]
    BY <1>1, <1>2, ReferencesStay DEF References
  <1>4. QED
    BY <1>1, <1>3, CountsGrow DEF Counted

----------------------------------------------------------------------------
\* The main loop.

\* It takes a newline.
LEMMA MainLine ==
  ASSUME NEW t, TextLayout(t), NEW q \in t.code, MainAt(t, q - 1), lnr \in Nat,
         t.s[q] = Newline, lnr' = lnr + 1, col' = 0, in_preprocessor' = FALSE,
         Found' = Found
  PROVE  MainAt(t, q)'
  <1>1. q \in 1..Len(t.s) /\ q \in Int /\ q - 1 \in Int /\ q - 1 < q /\ q - 1 <= q /\ q \in t.ends
    BY DirectiveFacts DEF TextLayout
  <1>2. ~is_identifier_start(t.s[q])
    BY CharFacts
  <1>3. /\ Apart(t, q) /\ ReferencesUpTo(t)[q] = ReferencesUpTo(t)[q - 1]
    BY <1>2, OtherChar DEF MainAt, Before
  <1>4. NotIncluding(t, q) /\ ~InDirective(t, q) /\ LineStart(t, q)
    BY <1>1, LineEnds
  <1>5. lnr + 1 <= Counted(t, q)
    <2>1. lnr <= LinesTo(t, q - 1) + IncludesTo(t, q - 1)
      BY DEF MainAt, Counted
    <2>2. /\ LinesTo(t, q - 1) \in Nat /\ LinesTo(t, q) \in Nat
          /\ IncludesTo(t, q - 1) \in Nat /\ IncludesTo(t, q) \in Nat
          /\ LinesTo(t, q - 1) + 1 <= LinesTo(t, q)
          /\ IncludesTo(t, q - 1) <= IncludesTo(t, q)
      BY <1>1, CountsGrow
    <2>3. QED
      BY <2>1, <2>2 DEF Counted
  <1>6. Exact(t) => Found' = ReferencesUpTo(t)[q]
    BY <1>3 DEF MainAt, Before
  <1>7. ColumnOK(t, q)'
    BY <1>4 DEF ColumnOK
  <1>8. QED
    BY <1>3, <1>4, <1>5, <1>6, <1>7 DEF MainAt, Before

\* It takes a character that starts no identifier.
LEMMA MainOther ==
  ASSUME NEW t, TextLayout(t), NEW q \in t.code, MainAt(t, q - 1), lnr \in Nat, col \in Nat,
         t.s[q] # Newline, ~is_identifier_start(t.s[q]), lnr' = lnr, col' = col + 1,
         in_preprocessor' <=> (t.s[q] = Hash /\ col' = 1) \/ in_preprocessor,
         Found' = Found
  PROVE  MainAt(t, q)'
  <1>1. /\ q \in 1..Len(t.s) /\ q \in Int /\ q \in Nat /\ q - 1 \in Int /\ q - 1 \in Nat
        /\ q - 1 < q /\ q - 1 <= q /\ q \notin t.ends /\ q <= q
    BY DirectiveFacts DEF TextLayout
  <1>2. /\ Apart(t, q) /\ ReferencesUpTo(t)[q] = ReferencesUpTo(t)[q - 1]
        /\ NotIncluding(t, q - 1) => NotIncluding(t, q)
    BY OtherChar DEF MainAt, Before
  <1>3. lnr <= Counted(t, q)
    <2>1. lnr <= LinesTo(t, q - 1) + IncludesTo(t, q - 1)
      BY DEF MainAt, Counted
    <2>2. /\ LinesTo(t, q - 1) \in Nat /\ LinesTo(t, q) \in Nat
          /\ IncludesTo(t, q - 1) \in Nat /\ IncludesTo(t, q) \in Nat
          /\ LinesTo(t, q - 1) <= LinesTo(t, q)
          /\ IncludesTo(t, q - 1) <= IncludesTo(t, q)
      BY <1>1, CountsGrow
    <2>3. QED
      BY <2>1, <2>2 DEF Counted
  <1>4. \A e \in t.ends : ~(q - 1 < e /\ e <= q)
    <2>1. \A e \in t.ends : e \in Nat /\ e # q
      BY <1>1, DirectiveFacts
    <2>2. QED
      BY <1>1, <2>1
  <1>5. SameLine(t, q, q + 1)
    <2>1. \A e \in t.ends : ~(q <= e /\ e <= q)
      <3>1. \A e \in t.ends : e \in Nat /\ e # q
        BY <1>1, DirectiveFacts
      <3>2. QED
        BY <1>1, <3>1
    <2>2. QED
      BY <1>1, <2>1, SameLineIs
  <1>6. ~LineStart(t, q)
    BY <1>1, <1>5 DEF LineStart
  <1>7. ColumnOK(t, q)'
    <2>1. col' # 0
      OBVIOUS
    <2>2. QED
      BY <1>6, <2>1 DEF ColumnOK
  <1>8. ASSUME Exact(t) PROVE in_preprocessor' <=> InDirective(t, q)
    <2>1. (in_preprocessor <=> InDirective(t, q - 1)) /\ ColumnOK(t, q - 1)
      BY <1>8 DEF MainAt, Before
    <2>2. CASE q \in Directives(t)
      <3>1. InDirective(t, q)
        BY <1>1, <1>5, <2>2 DEF InDirective
      <3>2. t.s[q] = Hash
        BY <2>2, DirectiveFacts
      <3>3. LineStart(t, q - 1)
        BY <1>8, <2>2, <3>2, HashStarts
      <3>4. col = 0
        BY <2>1, <2>2, <3>3 DEF ColumnOK
      <3>5. col' = 1
        BY <3>4
      <3>6. QED
        BY <3>1, <3>2, <3>5
    <2>3. CASE q \notin Directives(t)
      <3>1. \A h \in Directives(t) : h \in Nat /\ h # q
        BY <2>3, DirectiveFacts
      <3>2. \A h \in Directives(t) : ~(q - 1 < h /\ h <= q)
        BY <1>1, <3>1
      <3>3. InDirective(t, q) <=> InDirective(t, q - 1)
        BY <1>1, <1>4, <3>2, LineStays
      <3>4. ~(t.s[q] = Hash /\ col' = 1)
        <4>1. SUFFICES ASSUME t.s[q] = Hash, col' = 1 PROVE FALSE
          OBVIOUS
        <4>2. col = 0
          BY <4>1
        <4>3. LineStart(t, q - 1)
          BY <2>1, <4>2 DEF ColumnOK
        <4>4. QED
          BY <2>3, <4>1, <4>3, HashStarts
      <3>5. QED
        BY <2>1, <3>3, <3>4
    <2>4. QED
      BY <2>2, <2>3
  <1>9. Exact(t) => Found' = ReferencesUpTo(t)[q] /\ NotIncluding(t, q)
    BY <1>2 DEF MainAt, Before
  <1>10. QED
    BY <1>2, <1>3, <1>7, <1>8, <1>9 DEF MainAt, Before

\* A part of a text, one character after the other.
LEMMA PartGrows ==
  ASSUME NEW s \in Seq(Chars), NEW b \in 1..Len(s), NEW e \in b..Len(s)
  PROVE  /\ SubSeq(s, e, e) = <<s[e]>>
         /\ e < Len(s) => SubSeq(s, b, e + 1) = Append(SubSeq(s, b, e), s[e + 1])
  <1>1. e \in 1..Len(s) /\ s[e] \in Chars /\ Len(s) \in Nat /\ b \in Nat /\ e \in Nat
    OBVIOUS
  <1>2. SubSeq(s, e, e) = <<s[e]>>
    <2>1. ASSUME NEW d \in e..Len(s)
          PROVE  /\ SubSeq(s, e, d) \in Seq(Chars) /\ Len(SubSeq(s, e, d)) = (d - e) + 1
                 /\ \A i \in 1..((d - e) + 1) : SubSeq(s, e, d)[i] = s[(e + i) - 1]
      <3>1. e <= d /\ d \in Nat /\ \A i \in e..d : s[i] \in Chars
        BY <1>1
      <3>2. QED
        BY <1>1, <3>1, SubSeqProperties
    <2>2. e \in e..Len(s) /\ (e - e) + 1 = 1 /\ (e + 1) - 1 = e /\ 1 \in 1..1
      BY <1>1
    <2>3. /\ SubSeq(s, e, e) \in Seq(Chars) /\ Len(SubSeq(s, e, e)) = 1
          /\ SubSeq(s, e, e)[1] = s[e]
      BY <2>1, <2>2
    <2>4. <<s[e]>> \in Seq(Chars) /\ Len(<<s[e]>>) = 1 /\ <<s[e]>>[1] = s[e]
      BY <1>1
    <2>5. \A i \in 1..1 : SubSeq(s, e, e)[i] = <<s[e]>>[i]
      <3>1. \A i \in 1..1 : i = 1
        OBVIOUS
      <3>2. QED
        BY <2>3, <2>4, <3>1
    <2>6. QED
      BY <2>3, <2>4, <2>5, SeqEqual
  <1>3. ASSUME e < Len(s) PROVE SubSeq(s, b, e + 1) = Append(SubSeq(s, b, e), s[e + 1])
    <2> DEFINE u == SubSeq(s, b, e)
               v == SubSeq(s, b, e + 1)
               w == Append(u, s[e + 1])
               m == (e - b) + 1
    <2>1. /\ e + 1 \in 1..Len(s) /\ s[e + 1] \in Chars /\ b <= e /\ b <= e + 1 /\ m \in Nat
          /\ ((e + 1) - b) + 1 = m + 1 /\ (b + (m + 1)) - 1 = e + 1
      BY <1>1, <1>3
    <2>2. \A i \in b..(e + 1) : s[i] \in Chars
      BY <1>1, <2>1
    <2>3. /\ u \in Seq(Chars) /\ Len(u) = m
          /\ \A i \in 1..m : u[i] = s[(b + i) - 1]
      <3>1. \A i \in b..e : s[i] \in Chars
        BY <1>1
      <3>2. QED
        BY <1>1, <2>1, <3>1, SubSeqProperties
    <2>4. /\ v \in Seq(Chars) /\ Len(v) = m + 1
          /\ \A i \in 1..(m + 1) : v[i] = s[(b + i) - 1]
      BY <1>1, <2>1, <2>2, SubSeqProperties
    <2> HIDE DEF u, v
    <2>5. /\ w \in Seq(Chars) /\ Len(w) = m + 1
          /\ \A i \in 1..m : w[i] = u[i]
          /\ w[m + 1] = s[e + 1]
      <3>1. m = Len(u) /\ u \in Seq(Chars) /\ s[e + 1] \in Chars
        BY <2>1, <2>3
      <3>2. ASSUME NEW x \in Chars
            PROVE  /\ Append(u, x) \in Seq(Chars) /\ Len(Append(u, x)) = Len(u) + 1
                   /\ \A i \in 1..Len(u) : Append(u, x)[i] = u[i]
                   /\ Append(u, x)[Len(u) + 1] = x
        BY <3>1, AppendProperties
      <3>3. /\ w \in Seq(Chars) /\ Len(w) = Len(u) + 1
            /\ \A i \in 1..Len(u) : w[i] = u[i]
            /\ w[Len(u) + 1] = s[e + 1]
        BY <3>1, <3>2, Zenon
      <3> HIDE DEF w, m
      <3>4. QED
        BY <3>1, <3>3
    <2> HIDE DEF w, m
    <2>6. \A i \in 1..(m + 1) : i \in 1..m \/ i = m + 1
      BY <2>1
    <2>7. ASSUME NEW i \in 1..(m + 1) PROVE v[i] = w[i]
      <3>1. v[i] = s[(b + i) - 1]
        BY <2>4
      <3>2. CASE i \in 1..m
        BY <2>3, <2>5, <3>1, <3>2
      <3>3. CASE i = m + 1
        <4>1. v[m + 1] = s[(b + (m + 1)) - 1]
          BY <3>1, <3>3
        <4>2. v[m + 1] = s[e + 1]
          BY <2>1, <4>1
        <4>3. QED
          BY <2>5, <3>3, <4>2
      <3>4. QED
        BY <2>6, <3>2, <3>3
    <2>8. v = w
      BY <2>4, <2>5, <2>7, SeqEqual
    <2>9. QED
      BY <2>8 DEF v, w, u
  <1>4. QED
    BY <1>2, <1>3

\* It takes the start of an identifier.
LEMMA MainWord ==
  ASSUME NEW t, Plain(t), NEW q \in t.code, MainAt(t, q - 1), col \in Nat,
         is_identifier_start(t.s[q]), lnr' = lnr, col' = col + 1,
         in_preprocessor' = in_preprocessor, Found' = Found, idbuf' = <<t.s[q]>>
  PROVE  IdentFrom(t, q, q, q)'
  <1>1. TextLayout(t) /\ ~LetteredNumber(t)
    BY DEF Plain
  <1>2. q \in 1..Len(t.s) /\ q \in Nat /\ t.s \in Seq(Chars)
    BY <1>1, DirectiveFacts DEF TextLayout
  <1>3. IdentAt(t, q)
    BY CharFacts DEF IdentAt
  <1>4. ~IdentAt(t, q - 1)
    <2>1. SUFFICES ASSUME IdentAt(t, q - 1) PROVE FALSE
      OBVIOUS
    <2>2. PICK r \in Runs(t) : r[1] <= q /\ q <= r[2]
      BY <1>1, <1>3, RunThrough
    <2>3. /\ r[1] \in Nat /\ r[2] \in Nat /\ ~IdentAt(t, r[1] - 1)
      BY <1>1, RunIs
    <2>4. r[1] <= q - 1
      <3>1. r[1] # q
        BY <2>1, <2>3
      <3>2. QED
        BY <1>2, <2>2, <2>3, <3>1
    <2>5. r \notin Identifiers(t)
      <3>1. ~(r[2] <= q - 1 \/ q - 1 < r[1])
        BY <1>2, <2>2, <2>3, <2>4
      <3>2. QED
        BY <3>1 DEF MainAt, Before, Apart
    <2>6. q \in r[1]..r[2]
      BY <1>2, <2>2, <2>3
    <2>7. QED
      BY <1>1, <2>5, <2>6 DEF LetteredNumber
  <1>5. \A k \in q..q : IdentAt(t, k)
    <2>1. \A k \in q..q : k = q
      BY <1>2
    <2>2. QED
      BY <1>3, <2>1
  <1>6. idbuf' = SubSeq(t.s, q, q)
    <2>1. q \in q..Len(t.s)
      BY <1>2
    <2>2. QED
      BY <1>2, <2>1, PartGrows
  <1>7. NoneIn(t, q, q)
    BY <1>1, <1>2, DirectiveFacts DEF NoneIn
  <1>8. Entered(t, q)'
    <2>1. col' > 0
      OBVIOUS
    <2>2. QED
      BY <2>1 DEF MainAt, Entered, Before
  <1>9. q <= q
    BY <1>2
  <1>10. QED
    BY <1>4, <1>5, <1>6, <1>7, <1>8, <1>9 DEF IdentFrom

----------------------------------------------------------------------------
\* Inside an identifier, and behind it.

\* Comments and literals do not matter in the other places that read.
LEMMA ReadingSkips ==
  ASSUME NEW t, TextLayout(t), NEW p \in Nat, NEW q \in p..Len(t.s), NoneIn(t, p, q)
  PROVE  /\ \A b, e \in t.code : IdentFrom(t, b, e, p) => IdentFrom(t, b, e, q)
         /\ \A r \in Identifiers(t) : SpaceAt(t, r, p) => SpaceAt(t, r, q)
         /\ \A r \in Identifiers(t) : IncludeAt(t, r, p) => IncludeAt(t, r, q)
  <1>1. q \in Nat /\ p <= q /\ \A k \in t.code : k \in Nat /\ ~(p < k /\ k <= q)
    BY DirectiveFacts DEF NoneIn
  <1>2. ASSUME NEW b \in t.code, NEW e \in t.code, IdentFrom(t, b, e, p)
        PROVE  IdentFrom(t, b, e, q)
    <2>1. NoneIn(t, e, q)
      BY <1>1, <1>2 DEF IdentFrom, NoneIn
    <2>2. e <= q
      BY <1>1, <1>2 DEF IdentFrom
    <2>3. QED
      BY <1>2, <2>1, <2>2 DEF IdentFrom
  <1>3. ASSUME NEW r \in Identifiers(t), SpaceAt(t, r, p) PROVE SpaceAt(t, r, q)
    <2>1. Blank(t, r[2], q + 1)
      <3>1. \A n \in t.code : n < q + 1 => n < p + 1
        BY <1>1
      <3>2. QED
        BY <1>3, <3>1 DEF SpaceAt, Blank
    <2>2. r[2] <= q
      BY <1>1, <1>3, IdentifierIs DEF SpaceAt
    <2>3. QED
      BY <1>3, <2>1, <2>2 DEF SpaceAt
  <1>4. ASSUME NEW r \in Identifiers(t), IncludeAt(t, r, p) PROVE IncludeAt(t, r, q)
    <2>1. r[2] \in Int /\ r[2] <= p /\ r[2] <= q
      BY <1>1, <1>4, IdentifierIs DEF IncludeAt
    <2>2. Exact(t) => SameLine(t, r[2], q + 1)
      <3>1. SUFFICES ASSUME Exact(t) PROVE SameLine(t, r[2], q + 1)
        OBVIOUS
      <3>2. r \in IncludeWords(t) /\ SameLine(t, r[2], p + 1)
        BY <1>4, <3>1 DEF IncludeAt
      <3>3. t.ends \subseteq t.code
        BY <3>1, <3>2, DirectiveFacts
      <3>4. \A e \in t.ends : ~(p < e /\ e <= q)
        BY <1>1, <3>3
      <3>5. \A k \in Int : k <= p => (SameLine(t, k, q + 1) <=> SameLine(t, k, p + 1))
        BY <1>1, <3>4, LineStays
      <3>6. QED
        BY <2>1, <3>2, <3>5
    <2>3. QED
      BY <1>4, <2>1, <2>2 DEF IncludeAt
  <1>5. QED
    BY <1>2, <1>3, <1>4

\* What the steps behind the start of an identifier leave as it is.
Kept == UNCHANGED <<lnr, in_preprocessor, ref_inc_table>>

\* They stay in the state in which the identifier was entered.
LEMMA EnteredKept ==
  ASSUME NEW t, NEW b, Entered(t, b), Kept, col' > 0
  PROVE  Entered(t, b)'
  BY DEF Entered, Kept, Before, Found

\* The next character of code, when it goes on with an identifier, is right
\* behind it.
LEMMA IdentGrows ==
  ASSUME NEW t, Plain(t), NEW b \in t.code, NEW e \in t.code, NEW q \in t.code,
         IdentFrom(t, b, e, q - 1), is_identifier(t.s[q]),
         Kept, col \in Nat, col' = col + 1, idbuf' = Append(idbuf, t.s[q])
  PROVE  IdentFrom(t, b, q, q)'
  <1>1. TextLayout(t) /\ ~Glued(t)
    BY DEF Plain
  <1>2. /\ q \in 1..Len(t.s) /\ q \in Nat /\ b \in 1..Len(t.s) /\ e \in 1..Len(t.s)
        /\ b \in Nat /\ e \in Nat /\ Len(t.s) \in Nat
        /\ t.s \in Seq(Chars) /\ \A k \in t.code : k \in Nat
    BY <1>1, DirectiveFacts DEF TextLayout
  <1>3. /\ b <= e /\ e <= q - 1 /\ NoneIn(t, e, q - 1)
        /\ idbuf = SubSeq(t.s, b, e) /\ \A k \in b..e : IdentAt(t, k)
        /\ ~IdentAt(t, b - 1) /\ is_identifier_start(t.s[b]) /\ Entered(t, b)
    BY DEF IdentFrom
  <1>4. q = e + 1
    <2>1. SUFFICES ASSUME q # e + 1 PROVE FALSE
      OBVIOUS
    <2>2. e + 1 < q
      BY <1>2, <1>3, <2>1
    <2>3. ((e + 1)..(q - 1)) \cap t.code = {}
      <3>1. \A k \in (e + 1)..(q - 1) : e < k /\ k <= q - 1
        BY <1>2
      <3>2. QED
        BY <1>3, <3>1 DEF NoneIn
    <2>4. is_identifier(t.s[e])
      <3>1. e \in b..e
        BY <1>2, <1>3
      <3>2. QED
        BY <1>3, <3>1 DEF IdentAt
    <2>5. QED
      BY <1>1, <2>2, <2>3, <2>4 DEF Glued
  <1>5. idbuf' = SubSeq(t.s, b, q)
    <2>1. e \in b..Len(t.s) /\ e < Len(t.s)
      BY <1>2, <1>3, <1>4
    <2>2. QED
      BY <1>2, <1>3, <1>4, <2>1, PartGrows
  <1>6. \A k \in b..q : IdentAt(t, k)
    <2>1. \A k \in b..q : k \in b..e \/ k = q
      BY <1>2, <1>4
    <2>2. IdentAt(t, q)
      BY DEF IdentAt
    <2>3. QED
      BY <1>3, <2>1, <2>2
  <1>7. NoneIn(t, q, q) /\ b <= q /\ q <= q
    BY <1>2, <1>3 DEF NoneIn
  <1>8. Entered(t, b)'
    <2>1. col' > 0
      OBVIOUS
    <2>2. QED
      BY <1>3, <2>1, EnteredKept
  <1>9. QED
    BY <1>3, <1>5, <1>6, <1>7, <1>8 DEF IdentFrom

\* An identifier ends where none of its characters follows.
LEMMA IdentEnds ==
  ASSUME NEW t, TextLayout(t), NEW b \in t.code, NEW e \in t.code, NEW p,
         IdentFrom(t, b, e, p), ~IdentAt(t, e + 1)
  PROVE  <<b, e>> \in Identifiers(t) /\ idbuf = WordOf(t, <<b, e>>)
  <1>1. <<b, e>> \in t.code \X t.code /\ <<b, e>>[1] = b /\ <<b, e>>[2] = e
    OBVIOUS
  <1>2. QED
    BY <1>1 DEF IdentFrom, Runs, Identifiers, WordOf

\* White space behind an identifier, or another character.
LEMMA IdentStops ==
  ASSUME NEW t, TextLayout(t), NEW b \in t.code, NEW e \in t.code, NEW q \in t.code,
         IdentFrom(t, b, e, q - 1), ~is_identifier(t.s[q]),
         Kept, UNCHANGED <<col, idbuf>>, c' = t.s[q]
  PROVE  \E r \in Identifiers(t) : IF isspace(t.s[q]) THEN SpaceAt(t, r, q)'
                                                      ELSE WordAt(t, r, q)'
  <1>1. /\ q \in Nat /\ b \in Nat /\ e \in Nat /\ \A k \in t.code : k \in Nat
        /\ q \in 1..Len(t.s) /\ t.s \in Seq(Chars)
    BY DirectiveFacts DEF TextLayout
  <1>2. e <= q - 1 /\ NoneIn(t, e, q - 1) /\ Entered(t, b) /\ col > 0
    BY DEF IdentFrom, Entered
  <1>3. ~IdentAt(t, e + 1)
    <2>1. SUFFICES ASSUME IdentAt(t, e + 1) PROVE FALSE
      OBVIOUS
    <2>2. e + 1 \in t.code /\ is_identifier(t.s[e + 1])
      BY <2>1 DEF IdentAt
    <2>3. e + 1 # q
      BY <2>2
    <2>4. e < e + 1 /\ e + 1 <= q - 1
      BY <1>1, <1>2, <2>3
    <2>5. QED
      BY <1>2, <2>2, <2>4 DEF NoneIn
  <1>4. PICK r \in Identifiers(t) : r = <<b, e>> /\ idbuf = WordOf(t, r)
    BY <1>3, IdentEnds
  <1>5. r[1] = b /\ r[2] = e /\ r[2] <= q /\ r[2] < q
    BY <1>1, <1>2, <1>4
  <1>6. Entered(t, r[1])'
    BY <1>2, <1>5, EnteredKept
  <1>7. Blank(t, r[2], q)
    <2>1. \A n \in t.code : ~(e < n /\ n < q)
      BY <1>1, <1>2 DEF NoneIn
    <2>2. QED
      BY <1>5, <2>1 DEF Blank
  <1>8. CASE isspace(t.s[q])
    <2>1. Blank(t, r[2], q + 1)
      <3>1. \A n \in t.code : n < q + 1 => n < q \/ n = q
        BY <1>1
      <3>2. QED
        BY <1>7, <1>8, <3>1 DEF Blank
    <2>2. SpaceAt(t, r, q)'
      BY <1>4, <1>5, <1>6, <2>1 DEF SpaceAt
    <2>3. QED
      BY <1>8, <2>2
  <1>9. CASE ~isspace(t.s[q])
    <2>1. c' # EOF
      <3>1. t.s[q] \in Chars
        BY <1>1
      <3>2. QED
        BY <3>1, EOFNotChar
    <2>2. WordAt(t, r, q)'
      BY <1>4, <1>5, <1>6, <1>7, <1>9, <2>1 DEF WordAt
    <2>3. QED
      BY <1>9, <2>2
  <1>10. QED
    BY <1>8, <1>9

\* The end of the text right behind an identifier.
LEMMA IdentAtEnd ==
  ASSUME NEW t, TextLayout(t), NEW b \in t.code, NEW e \in t.code, NEW p \in Nat,
         IdentFrom(t, b, e, p), AtEnd(t, p), Kept, UNCHANGED <<col, idbuf>>, c' = EOF
  PROVE  \E r \in Identifiers(t) : WordAt(t, r, p)'
  <1>1. b \in Nat /\ e \in Nat /\ \A k \in t.code : k \in Nat
    BY DirectiveFacts
  <1>2. e <= p /\ NoneIn(t, e, p) /\ Entered(t, b) /\ col > 0
    BY DEF IdentFrom, Entered
  <1>3. ~IdentAt(t, e + 1)
    <2>1. SUFFICES ASSUME IdentAt(t, e + 1) PROVE FALSE
      OBVIOUS
    <2>2. e + 1 \in t.code /\ is_identifier(t.s[e + 1])
      BY <2>1 DEF IdentAt
    <2>3. e < e + 1 /\ (e + 1 <= p \/ e + 1 > p)
      BY <1>1
    <2>4. e + 1 > p
      BY <1>2, <2>2, <2>3 DEF NoneIn
    <2>5. QED
      BY <2>2, <2>4, CharFacts DEF AtEnd
  <1>4. PICK r \in Identifiers(t) : r = <<b, e>> /\ idbuf = WordOf(t, r)
    BY <1>3, IdentEnds
  <1>5. r[1] = b /\ r[2] = e /\ r[2] <= p
    BY <1>1, <1>2, <1>4
  <1>6. Entered(t, r[1])'
    BY <1>2, <1>5, EnteredKept
  <1>7. Blank(t, r[2], p + 1)
    <2>1. \A n \in t.code : ~(e < n /\ n < p + 1)
      BY <1>1, <1>2 DEF NoneIn
    <2>2. QED
      BY <1>5, <2>1 DEF Blank
  <1>8. WordAt(t, r, p)'
    BY <1>4, <1>5, <1>6, <1>7 DEF WordAt
  <1>9. QED
    BY <1>8

\* The white space goes on, or ends.
LEMMA SpaceGoesOn ==
  ASSUME NEW t, TextLayout(t), NEW r \in Identifiers(t), NEW q \in t.code,
         SpaceAt(t, r, q - 1), Kept, UNCHANGED idbuf, col \in Nat, col' = col + 1,
         c' = t.s[q]
  PROVE  IF isspace(t.s[q]) THEN SpaceAt(t, r, q)' ELSE WordAt(t, r, q)'
  <1>1. /\ q \in Nat /\ r[2] \in Nat /\ \A k \in t.code : k \in Nat
        /\ q \in 1..Len(t.s) /\ t.s \in Seq(Chars)
    BY DirectiveFacts, IdentifierIs DEF TextLayout
  <1>2. /\ idbuf' = WordOf(t, r) /\ r[2] <= q /\ r[2] < q
    BY <1>1 DEF SpaceAt
  <1>3. Entered(t, r[1])'
    <2>1. col' > 0
      OBVIOUS
    <2>2. QED
      BY <2>1, EnteredKept DEF SpaceAt
  <1>4. Blank(t, r[2], q)
    <2>1. (q - 1) + 1 = q
      BY <1>1
    <2>2. QED
      BY <2>1 DEF SpaceAt
  <1>5. CASE isspace(t.s[q])
    <2>1. Blank(t, r[2], q + 1)
      <3>1. \A n \in t.code : n < q + 1 => n < q \/ n = q
        BY <1>1
      <3>2. QED
        BY <1>4, <1>5, <3>1 DEF Blank
    <2>2. QED
      BY <1>2, <1>3, <1>5, <2>1 DEF SpaceAt
  <1>6. CASE ~isspace(t.s[q])
    <2>1. c' # EOF
      <3>1. t.s[q] \in Chars
        BY <1>1
      <3>2. QED
        BY <3>1, EOFNotChar
    <2>2. WordAt(t, r, q)'
      BY <1>2, <1>3, <1>4, <1>6, <2>1 DEF WordAt
    <2>3. QED
      BY <1>6, <2>2
  <1>7. QED
    BY <1>5, <1>6

\* The end of the text in the white space behind an identifier.
LEMMA SpaceAtEnd ==
  ASSUME NEW t, NEW r \in Identifiers(t), NEW p,
         SpaceAt(t, r, p), AtEnd(t, p), Kept, UNCHANGED idbuf, col \in Nat, col' = col + 1,
         c' = EOF
  PROVE  WordAt(t, r, p)'
  <1>1. Entered(t, r[1])'
    <2>1. col' > 0
      OBVIOUS
    <2>2. QED
      BY <2>1, EnteredKept DEF SpaceAt
  <1>2. QED
    BY <1>1 DEF SpaceAt, WordAt

----------------------------------------------------------------------------
\* A complete identifier.

\* A '(' is the next character if and only if the identifier is called.
LEMMA CallSeen ==
  ASSUME NEW t, TextLayout(t), NEW r \in Identifiers(t), NEW p \in Nat, WordAt(t, r, p)
  PROVE  c = LParen <=> IsCalled(t, r)
  <1>1. r[2] \in Nat /\ \A k \in t.code : k \in Nat
    BY DirectiveFacts, IdentifierIs
  <1>2. CASE c = EOF /\ AtEnd(t, p) /\ Blank(t, r[2], p + 1)
    <2>1. c # LParen
      BY <1>2, CharFacts
    <2>2. ASSUME NEW k \in t.code, k > r[2], t.s[k] = LParen PROVE FALSE
      <3>1. k > p \/ k < p + 1
        BY <1>1
      <3>2. CASE k > p
        BY <1>2, <2>2, <3>2, CharFacts DEF AtEnd
      <3>3. CASE k < p + 1
        <4>1. r[2] < k
          BY <1>1, <2>2
        <4>2. QED
          BY <1>2, <2>2, <3>3, <4>1, CharFacts DEF Blank
      <3>4. QED
        BY <3>1, <3>2, <3>3
    <2>3. QED
      BY <2>1, <2>2 DEF IsCalled
  <1>3. CASE /\ p \in t.code /\ r[2] < p /\ t.s[p] = c /\ ~isspace(c)
             /\ Blank(t, r[2], p)
    <2>1. ASSUME c = LParen PROVE IsCalled(t, r)
      <3>1. p > r[2]
        BY <1>1, <1>3
      <3>2. QED
        BY <1>3, <2>1, <3>1 DEF IsCalled
    <2>2. ASSUME IsCalled(t, r) PROVE c = LParen
      <3>1. PICK k \in t.code : k > r[2] /\ t.s[k] = LParen /\ Blank(t, r[2], k)
        BY <2>2 DEF IsCalled
      <3>2. ~(k < p)
        <4>1. SUFFICES ASSUME k < p PROVE FALSE
          OBVIOUS
        <4>2. r[2] < k
          BY <1>1, <3>1
        <4>3. QED
          BY <1>3, <3>1, <4>1, <4>2, CharFacts DEF Blank
      <3>3. ~(p < k)
        BY <1>3, <3>1 DEF Blank
      <3>4. k = p
        BY <1>1, <3>2, <3>3
      <3>5. QED
        BY <1>3, <3>1, <3>4
    <2>3. QED
      BY <2>1, <2>2
  <1>4. QED
    BY <1>2, <1>3 DEF WordAt

\* No line ends right behind an identifier, in an exact text with directives.
LEMMA NoEndBehind ==
  ASSUME NEW t, TextLayout(t), NEW r \in Identifiers(t), NEW z \in Nat,
         Exact(t), Directives(t) # {}, NotIncluding(t, r[1] - 1),
         \A e \in t.ends : r[2] < e /\ e <= z => Blank(t, r[2], e)
  PROVE  \A e \in t.ends : ~(r[1] <= e /\ e <= z)
  <1>1. SUFFICES ASSUME NEW e \in t.ends, r[1] <= e, e <= z PROVE FALSE
    OBVIOUS
  <1>2. /\ r[1] \in Nat /\ r[2] \in Nat /\ r[1] - 1 \in Nat /\ (r[1] - 1) + 1 = r[1]
        /\ e \in Nat /\ t.ends \subseteq t.code
    BY DirectiveFacts, IdentifierIs
  <1>3. e \in t.code /\ t.s[e] = Newline
    BY <1>1, <1>2 DEF TextLayout
  <1>4. r[2] < e
    <2>1. SUFFICES ASSUME ~(r[2] < e) PROVE FALSE
      OBVIOUS
    <2>2. e \in r[1]..r[2]
      BY <1>1, <1>2, <2>1
    <2>3. QED
      BY <1>3, <2>2, IdentifierIs, CharFacts
  <1>5. ~InInclude(t, r)
    <2>1. SUFFICES ASSUME NEW u \in IncludeWords(t), u[2] < r[1], SameLine(t, u[2], r[1])
                   PROVE  FALSE
      BY DEF InInclude
    <2>2. u[2] \in Nat
      BY IdentifierIs, DirectiveFacts
    <2>3. u[2] <= r[1] - 1
      BY <1>2, <2>1, <2>2
    <2>4. QED
      BY <1>2, <2>1, <2>3 DEF NotIncluding
  <1>6. LineLost(t)
    BY <1>1, <1>3, <1>4, <1>5 DEF LineLost
  <1>7. QED
    BY <1>6 DEF Exact

\* Where the scan goes on behind an identifier: the start of another one is
\* put back.
Resumes(p, z) == z = IF is_identifier_start(c) THEN p - 1 ELSE p

\* What lies between the identifier and that place.
LEMMA BehindWord ==
  ASSUME NEW t, TextLayout(t), NEW r \in Identifiers(t), NEW p \in 0..Len(t.s),
         WordAt(t, r, p), NEW z, Resumes(p, z)
  PROVE  /\ z \in Nat /\ z \in Int /\ z \in 0..Len(t.s) /\ r[2] <= z /\ z <= p
         /\ c # Newline
         /\ \A k \in t.code : r[2] < k /\ k < p => isspace(t.s[k])
         /\ \A q \in Identifiers(t) : q[1] <= z => q[2] <= r[2]
         /\ Apart(t, z)
         /\ Exact(t) /\ Directives(t) # {} =>
               \A e \in t.ends : ~(r[1] <= e /\ e <= z)
  <1>1. /\ r[1] \in Nat /\ r[2] \in Nat /\ r[1] - 1 \in Nat /\ r[2] <= p /\ p \in Nat
        /\ Len(t.s) \in Nat
        /\ \A k \in t.code : k \in Nat
    BY DirectiveFacts, IdentifierIs DEF WordAt
  <1>2. ASSUME NEW k \in t.code, r[2] < k, k < p PROVE isspace(t.s[k])
    <2>1. k < p + 1
      BY <1>1, <1>2
    <2>2. QED
      BY <1>2, <2>1 DEF WordAt, Blank
  <1>3. c # Newline
    BY CharFacts DEF WordAt
  <1>4. c # EOF => p \in t.code /\ r[2] < p /\ t.s[p] = c
    BY DEF WordAt
  <1>5. /\ z = p \/ (z = p - 1 /\ c # EOF)
        /\ c # EOF /\ is_identifier_start(t.s[p]) => z = p - 1
    BY <1>4, CharFacts DEF Resumes
  <1>6. z \in Nat /\ z \in Int /\ z \in 0..Len(t.s) /\ r[2] <= z /\ z <= p
    BY <1>1, <1>4, <1>5
  <1>7. ASSUME NEW k \in t.code, r[2] < k, k <= z PROVE ~is_identifier_start(t.s[k])
    <2>1. CASE k < p
      BY <1>2, <1>7, <2>1, CharFacts
    <2>2. CASE k = p
      <3>1. CASE c = EOF
        <4>1. Blank(t, r[2], p + 1) /\ p < p + 1
          BY <1>1, <3>1 DEF WordAt
        <4>2. QED
          BY <1>7, <2>2, <4>1, CharFacts DEF Blank
      <3>2. CASE c # EOF
        <4>1. z # p - 1
          BY <1>1, <1>6, <1>7, <2>2
        <4>2. QED
          BY <1>5, <2>2, <3>2, <4>1
      <3>3. QED
        BY <3>1, <3>2
    <2>3. QED
      BY <1>1, <1>6, <1>7, <2>1, <2>2
  <1>8. ASSUME NEW q \in Identifiers(t), q[1] <= z PROVE q[2] <= r[2]
    <2>1. /\ q[1] \in Nat /\ q[2] \in Nat /\ q[1] <= q[2] /\ q[1] \in t.code
          /\ is_identifier_start(t.s[q[1]]) /\ r[1] <= r[2]
      BY IdentifierIs
    <2>2. ~(r[2] < q[1])
      BY <1>7, <1>8, <2>1
    <2>3. q = r \/ q[2] < r[1]
      BY <2>2, IdentifiersApart
    <2>4. QED
      BY <1>1, <2>1, <2>3
  <1>9. Apart(t, z)
    <2>1. SUFFICES ASSUME NEW q \in Identifiers(t) PROVE q[2] <= z \/ z < q[1]
      BY DEF Apart
    <2>2. q[1] \in Nat /\ q[2] \in Nat
      BY IdentifierIs
    <2>3. QED
      BY <1>1, <1>6, <1>8, <2>2
  <1>10. ASSUME Exact(t), Directives(t) # {}
         PROVE  \A e \in t.ends : ~(r[1] <= e /\ e <= z)
    <2>1. ASSUME NEW e \in t.ends, r[2] < e, e <= z PROVE Blank(t, r[2], e)
      <3>1. e \in t.code /\ e \in Nat /\ t.s[e] = Newline /\ t.s[e] # c
        BY <1>3, <1>10, DirectiveFacts DEF TextLayout
      <3>2. CASE c = EOF
        <4>1. Blank(t, r[2], p + 1)
          BY <3>2 DEF WordAt
        <4>2. \A n \in t.code : n < e => n < p + 1
          BY <1>1, <1>6, <2>1, <3>1
        <4>3. QED
          BY <4>1, <4>2 DEF Blank
      <3>3. CASE c # EOF
        <4>1. e # p
          BY <1>4, <3>1, <3>3
        <4>2. \A n \in t.code : n < e => n < p
          BY <1>1, <1>6, <2>1, <3>1, <4>1
        <4>3. QED
          BY <1>2, <4>2 DEF Blank
      <3>4. QED
        BY <3>2, <3>3
    <2>2. NotIncluding(t, r[1] - 1)
      BY <1>10 DEF WordAt, Entered, Before
    <2>3. QED
      BY <1>6, <1>10, <2>1, <2>2, NoEndBehind
  <1>11. QED
    BY <1>2, <1>3, <1>6, <1>8, <1>9, <1>10

\* The word include in a directive: the line is skipped.
LEMMA WordIsInclude ==
  ASSUME NEW t, TextLayout(t), NEW r \in Identifiers(t), NEW p \in 0..Len(t.s),
         WordAt(t, r, p), NEW z, Resumes(p, z), Kept, UNCHANGED idbuf,
         find_type' = (IF c = LParen THEN {"FUNCTION", "KEYWORD"} ELSE Types \ {"FUNCTION"}),
         in_preprocessor, idbuf = IncludeWord
  PROVE  IncludeAt(t, r, z)'
  <1>1. /\ r[1] \in Nat /\ r[2] \in Nat /\ r[1] - 1 \in Nat /\ (r[1] - 1) + 1 = r[1]
        /\ r[1] <= r[2] /\ r[2] \in Int /\ p \in Nat
    BY IdentifierIs
  <1>2. z \in Int /\ r[2] <= z
    BY BehindWord
  <1>3. /\ idbuf = WordOf(t, r) /\ Before(t, r[1] - 1) /\ lnr <= Counted(t, r[1] - 1)
    BY DEF WordAt, Entered
  <1>4. Before(t, r[1] - 1)'
    BY <1>3 DEF Before, Kept, Found
  <1>5. find_type' = TypeWanted(t, r)
    BY <1>1, CallSeen DEF TypeWanted
  <1>6. ASSUME Exact(t) PROVE r \in IncludeWords(t) /\ SameLine(t, r[2], z + 1)
    <2>1. InDirective(t, r[1] - 1)
      BY <1>3, <1>6 DEF Before
    <2>2. PICK h \in Directives(t) : h <= r[1] - 1 /\ SameLine(t, h, r[1])
      BY <1>1, <2>1 DEF InDirective
    <2>3. h < r[1]
      BY <1>1, <2>2, DirectiveFacts
    <2>4. r \in IncludeWords(t)
      BY <1>3, <2>2, <2>3 DEF IncludeWords
    <2>5. \A e \in t.ends : ~(r[1] <= e /\ e <= z) /\ e \in Nat
      BY <1>6, <2>2, BehindWord, DirectiveFacts
    <2>6. \A e \in t.ends : ~(r[2] <= e /\ e <= z)
      BY <1>1, <2>5
    <2>7. QED
      BY <1>1, <1>2, <2>4, <2>6, SameLineIs
  <1>7. QED
    BY <1>2, <1>3, <1>4, <1>5, <1>6 DEF IncludeAt, Kept

\* Any other identifier is looked up.
LEMMA WordToFind ==
  ASSUME NEW t, TextLayout(t), NEW r \in Identifiers(t), NEW p \in 0..Len(t.s),
         WordAt(t, r, p), NEW z, Resumes(p, z), Kept, UNCHANGED <<idbuf, c, col>>,
         find_type' = (IF c = LParen THEN {"FUNCTION", "KEYWORD"} ELSE Types \ {"FUNCTION"}),
         ~(in_preprocessor /\ idbuf = IncludeWord), lnr \in Nat
  PROVE  LookupAt(t, r, z)'
  <1>1. /\ r[1] \in Nat /\ r[2] \in Nat /\ r[1] - 1 \in Nat /\ (r[1] - 1) + 1 = r[1]
        /\ r[1] <= r[2] /\ r[2] \in Int /\ r[2] \in t.code /\ p \in Nat /\ r[1] - 1 \in Int
    BY IdentifierIs
  <1>2. z \in Int /\ z \in Nat /\ r[2] <= z /\ z <= p /\ c # Newline /\ Apart(t, z)
        /\ \A q \in Identifiers(t) : q[1] <= z => q[2] <= r[2]
    BY BehindWord
  <1>3. /\ idbuf = WordOf(t, r) /\ Before(t, r[1] - 1) /\ lnr <= Counted(t, r[1] - 1) /\ col > 0
    BY DEF WordAt, Entered
  <1>4. r[1] - 1 <= z
    BY <1>1, <1>2
  <1>5. lnr <= LinesTo(t, z) + IncludesTo(t, r[1] - 1)
    <2>1. lnr <= LinesTo(t, r[1] - 1) + IncludesTo(t, r[1] - 1)
      BY <1>3 DEF Counted
    <2>2. /\ LinesTo(t, r[1] - 1) \in Nat /\ LinesTo(t, z) \in Nat
          /\ IncludesTo(t, r[1] - 1) \in Nat /\ LinesTo(t, r[1] - 1) <= LinesTo(t, z)
      BY <1>1, <1>2, <1>4, CountsGrow
    <2>3. QED
      BY <2>1, <2>2
  <1>6. c = EOF => AtEnd(t, z)
    <2>1. c = EOF => AtEnd(t, p) /\ ~is_identifier_start(c)
      BY CharFacts DEF WordAt
    <2>2. QED
      BY <2>1 DEF Resumes
  <1>7. find_type' = TypeWanted(t, r)
    BY <1>1, CallSeen DEF TypeWanted
  <1>8. ASSUME Exact(t)
        PROVE  /\ Found' = ReferencesUpTo(t)[r[1] - 1]
               /\ NotIncluding(t, r[1] - 1)
               /\ \A q \in Identifiers(t) : r[2] < q[2] /\ q[2] <= z => ~IsMention(t, q)
               /\ NotIncluding(t, z)
               /\ in_preprocessor' <=> InDirective(t, z)
               /\ ColumnOK(t, z)'
    <2>1. /\ Found = ReferencesUpTo(t)[r[1] - 1] /\ NotIncluding(t, r[1] - 1)
          /\ in_preprocessor <=> InDirective(t, r[1] - 1)
      BY <1>3, <1>8 DEF Before
    <2>2. Found' = Found /\ in_preprocessor' = in_preprocessor
      BY DEF Kept, Found
    <2>3. ASSUME NEW q \in Identifiers(t), r[2] < q[2], q[2] <= z PROVE FALSE
      <3>1. q[1] \in Nat /\ q[2] \in Nat /\ q[1] <= q[2]
        BY IdentifierIs
      <3>2. q[1] <= z
        BY <1>2, <2>3, <3>1
      <3>3. q[2] <= r[2]
        BY <1>2, <3>2
      <3>4. QED
        BY <1>1, <2>3, <3>1, <3>3
    <2>4. NotIncluding(t, z)
      <3>1. SUFFICES ASSUME NEW u \in IncludeWords(t), u[2] <= z, SameLine(t, u[2], z + 1)
                     PROVE  FALSE
        BY DEF NotIncluding
      <3>2. u \in Identifiers(t) /\ u[1] \in Nat /\ u[2] \in Nat /\ u[1] <= u[2]
        BY IdentifierIs, DirectiveFacts
      <3>3. u # r
        <4>1. SUFFICES ASSUME r \in IncludeWords(t) PROVE FALSE
          BY <3>1
        <4>2. PICK h \in Directives(t) : h < r[1] /\ SameLine(t, h, r[1])
          BY <4>1 DEF IncludeWords
        <4>3. h <= r[1] - 1
          BY <1>1, <4>2, DirectiveFacts
        <4>4. InDirective(t, r[1] - 1)
          BY <1>1, <4>2, <4>3 DEF InDirective
        <4>5. idbuf = IncludeWord
          BY <1>3, <4>1 DEF IncludeWords
        <4>6. QED
          BY <2>1, <4>4, <4>5
      <3>4. u[1] <= z
        BY <1>2, <3>1, <3>2
      <3>5. u[2] <= r[2]
        BY <1>2, <3>2, <3>4
      <3>6. u[2] < r[1]
        BY <1>1, <3>2, <3>3, <3>5, IdentifiersApart
      <3>7. u[2] <= r[1] - 1 /\ u[2] \in Int
        BY <1>1, <3>2, <3>6
      <3>8. SameLine(t, u[2], (r[1] - 1) + 1)
        BY <1>1, <1>2, <1>4, <3>1, <3>7, LineLeft
      <3>9. QED
        BY <2>1, <3>7, <3>8 DEF NotIncluding
    <2>5. CASE Directives(t) = {}
      <3>1. ~InDirective(t, r[1] - 1) /\ ~InDirective(t, z)
        BY <2>5 DEF InDirective
      <3>2. col' # 0
        BY <1>3
      <3>3. ColumnOK(t, z)'
        BY <2>5, <3>2 DEF ColumnOK
      <3>4. QED
        BY <2>1, <2>2, <2>3, <2>4, <3>1, <3>3
    <2>6. CASE Directives(t) # {}
      <3>1. \A e \in t.ends : ~(r[1] <= e /\ e <= z) /\ e \in Nat
        BY <1>8, <2>6, BehindWord, DirectiveFacts
      <3>2. /\ \A e \in t.ends : ~(r[1] - 1 < e /\ e <= z)
            /\ \A e \in t.ends : ~(r[2] <= e /\ e <= z)
        BY <1>1, <3>1
      <3>3. SameLine(t, r[2], z + 1)
        BY <1>1, <1>2, <3>2, SameLineIs
      <3>4. ASSUME NEW h \in Directives(t), r[1] - 1 < h, h <= z PROVE FALSE
        <4>1. h \in t.code /\ h \in Nat /\ t.s[h] = Hash
          BY DirectiveFacts
        <4>2. r[2] < h
          <5>1. SUFFICES ASSUME ~(r[2] < h) PROVE FALSE
            OBVIOUS
          <5>2. h \in r[1]..r[2]
            BY <1>1, <3>4, <4>1, <5>1
          <5>3. QED
            BY <4>1, <5>2, IdentifierIs, CharFacts
        <4>3. SameLine(t, r[2], h)
          <5>1. \A e \in t.ends : ~(r[2] <= e /\ e < h)
            BY <1>1, <1>2, <3>1, <3>2, <3>4, <4>1
          <5>2. h \in Int
            BY <4>1
          <5>3. QED
            BY <1>1, <5>1, <5>2, SameLineIs
        <4>4. isspace(t.s[r[2]])
          BY <1>1, <4>2, <4>3 DEF Directives
        <4>5. r[2] \in r[1]..r[2]
          BY <1>1
        <4>6. QED
          BY <4>4, <4>5, IdentifierIs, CharFacts
      <3>5. InDirective(t, z) <=> InDirective(t, r[1] - 1)
        BY <1>1, <1>2, <1>4, <3>2, <3>4, LineStays
      <3>6. ~LineStart(t, z)
        BY <1>1, <1>2, <3>3 DEF LineStart
      <3>7. ColumnOK(t, z)'
        <4>1. col' # 0
          BY <1>3
        <4>2. QED
          BY <3>6, <4>1 DEF ColumnOK
      <3>8. QED
        BY <2>1, <2>2, <2>3, <2>4, <3>5, <3>7
    <2>7. QED
      BY <2>5, <2>6
  <1>9. QED
    BY <1>2, <1>3, <1>5, <1>6, <1>7, <1>8 DEF LookupAt, Kept

----------------------------------------------------------------------------
\* The line of an #include.

\* No identifier of that line is a mention.
LEMMA IncludedNot ==
  ASSUME NEW t, TextLayout(t), NEW r \in IncludeWords(t), NEW z \in Int,
         SameLine(t, r[2], z), NEW q \in Identifiers(t), r[2] < q[2], q[2] <= z
  PROVE  ~IsMention(t, q)
  <1>1. /\ r \in Identifiers(t) /\ r[1] \in Nat /\ r[2] \in Nat /\ r[1] <= r[2]
        /\ q[1] \in Nat /\ q[2] \in Nat /\ q[1] <= q[2] /\ r[2] \in Int /\ q[1] \in Int
    BY IdentifierIs, DirectiveFacts
  <1>2. r[2] < q[1]
    BY <1>1, IdentifiersApart
  <1>3. SameLine(t, r[2], q[1])
    <2>1. \A e \in t.ends : ~(r[2] <= e /\ e < z) /\ e \in Nat
      BY <1>1, SameLineIs, DirectiveFacts
    <2>2. \A e \in t.ends : ~(r[2] <= e /\ e < q[1])
      BY <1>1, <2>1
    <2>3. QED
      BY <1>1, <2>2, SameLineIs
  <1>4. QED
    BY <1>2, <1>3 DEF IsMention, InInclude

\* A character of the line.
LEMMA IncludeGoesOn ==
  ASSUME NEW t, TextLayout(t), NEW r \in Identifiers(t), NEW q \in t.code,
         IncludeAt(t, r, q - 1), t.s[q] # Newline, Kept, UNCHANGED <<idbuf, find_type>>
  PROVE  IncludeAt(t, r, q)'
  <1>1. /\ q \in Nat /\ q - 1 \in Nat /\ q - 1 <= q /\ q \notin t.ends
        /\ r[2] \in Int /\ r[2] <= q - 1 /\ r[2] <= q
    BY DirectiveFacts, IdentifierIs DEF IncludeAt, TextLayout
  <1>2. \A e \in t.ends : ~(q - 1 < e /\ e <= q)
    <2>1. \A e \in t.ends : e \in Nat /\ e # q
      BY <1>1, DirectiveFacts
    <2>2. QED
      BY <1>1, <2>1
  <1>3. \A k \in Int : k <= q - 1 => (SameLine(t, k, q + 1) <=> SameLine(t, k, (q - 1) + 1))
    BY <1>1, <1>2, LineStays
  <1>4. Exact(t) => SameLine(t, r[2], q + 1)
    BY <1>1, <1>3 DEF IncludeAt
  <1>5. Before(t, r[1] - 1)'
    BY DEF IncludeAt, Before, Kept, Found
  <1>6. QED
    BY <1>1, <1>4, <1>5 DEF IncludeAt, Kept

\* The end of the line: the word include is looked up.
LEMMA IncludeLine ==
  ASSUME NEW t, TextLayout(t), NEW r \in Identifiers(t), NEW q \in t.code,
         IncludeAt(t, r, q - 1), t.s[q] = Newline, c' = Newline,
         lnr \in Nat, lnr' = lnr + 1, col' = 0, in_preprocessor' = FALSE,
         UNCHANGED <<idbuf, find_type, ref_inc_table>>
  PROVE  LookupAt(t, r, q)'
  <1>1. /\ q \in Nat /\ q \in Int /\ q - 1 \in Nat /\ (q - 1) + 1 = q /\ q \in 1..Len(t.s)
        /\ q \in t.ends /\ r[1] \in Nat /\ r[1] <= r[2]
        /\ r[2] \in Int /\ r[2] <= q - 1 /\ r[2] <= q /\ r[1] - 1 \in Int /\ r[1] - 1 < q
        /\ r[1] - 1 <= q
    <2>1. q \in 1..Len(t.s) /\ Len(t.s) \in Nat
      BY DirectiveFacts
    <2>2. q \in t.ends
      BY <2>1 DEF TextLayout
    <2>3. r[1] \in Nat /\ r[2] \in Nat /\ r[1] <= r[2]
      BY IdentifierIs
    <2>4. r[2] <= q - 1
      BY DEF IncludeAt
    <2>5. QED
      BY <2>1, <2>2, <2>3, <2>4
  <1>2. Apart(t, q)
    <2>1. SUFFICES ASSUME NEW u \in Identifiers(t), ~(u[2] <= q \/ q < u[1]) PROVE FALSE
      BY DEF Apart
    <2>2. u[1] \in Nat /\ u[2] \in Nat
      BY IdentifierIs
    <2>3. q \in u[1]..u[2]
      BY <1>1, <2>1, <2>2
    <2>4. QED
      BY <2>3, IdentifierIs, CharFacts
  <1>3. lnr' <= LinesTo(t, q) + IncludesTo(t, r[1] - 1)
    <2>1. lnr <= LinesTo(t, r[1] - 1) + IncludesTo(t, r[1] - 1)
      BY DEF IncludeAt, Counted
    <2>2. /\ LinesTo(t, r[1] - 1) \in Nat /\ LinesTo(t, q) \in Nat
          /\ IncludesTo(t, r[1] - 1) \in Nat /\ LinesTo(t, r[1] - 1) + 1 <= LinesTo(t, q)
      BY <1>1, CountsGrow
    <2>3. QED
      BY <2>1, <2>2
  <1>4. NotIncluding(t, q) /\ ~InDirective(t, q) /\ LineStart(t, q)
    BY <1>1, LineEnds
  <1>5. ColumnOK(t, q)'
    BY <1>4 DEF ColumnOK
  <1>6. ASSUME Exact(t)
        PROVE  /\ Found' = ReferencesUpTo(t)[r[1] - 1]
               /\ NotIncluding(t, r[1] - 1)
               /\ find_type' = TypeWanted(t, r)
               /\ \A u \in Identifiers(t) : r[2] < u[2] /\ u[2] <= q => ~IsMention(t, u)
    <2>1. /\ Found = ReferencesUpTo(t)[r[1] - 1] /\ NotIncluding(t, r[1] - 1)
          /\ r \in IncludeWords(t) /\ SameLine(t, r[2], q) /\ find_type = TypeWanted(t, r)
      BY <1>1, <1>6 DEF IncludeAt, Before
    <2>2. Found' = Found
      BY DEF Found
    <2>3. \A u \in Identifiers(t) : r[2] < u[2] /\ u[2] <= q => ~IsMention(t, u)
      BY <1>1, <2>1, IncludedNot
    <2>4. QED
      BY <2>1, <2>2, <2>3
  <1>7. /\ idbuf' = WordOf(t, r) /\ idbuf' = IncludeWord /\ c' # EOF
    BY CharFacts DEF IncludeAt
  <1>8. QED
    BY <1>1, <1>2, <1>3, <1>4, <1>5, <1>6, <1>7 DEF LookupAt

\* The end of the text.
LEMMA IncludeAtEnd ==
  ASSUME NEW t, TextLayout(t), NEW r \in Identifiers(t), NEW p \in 0..Len(t.s),
         IncludeAt(t, r, p), AtEnd(t, p), lnr \in Nat, Kept
  PROVE  DoneAt(t)'
  <1> DEFINE n == Len(t.s)
  <1>1. /\ r[1] - 1 \in Int /\ r[2] \in Nat /\ r[2] \in Int /\ n \in Nat /\ p \in Nat
        /\ r[1] - 1 <= n /\ r[2] <= p /\ n \in r[2]..n /\ p <= n
    BY IdentifierIs DEF IncludeAt
  <1>2. lnr' <= Counted(t, n)
    <2>1. lnr <= LinesTo(t, r[1] - 1) + IncludesTo(t, r[1] - 1)
      BY DEF IncludeAt, Counted
    <2>2. /\ LinesTo(t, r[1] - 1) \in Nat /\ LinesTo(t, n) \in Nat
          /\ IncludesTo(t, r[1] - 1) \in Nat /\ IncludesTo(t, n) \in Nat
          /\ LinesTo(t, r[1] - 1) <= LinesTo(t, n)
          /\ IncludesTo(t, r[1] - 1) <= IncludesTo(t, n)
      BY <1>1, CountsGrow
    <2>3. lnr' = lnr
      BY DEF Kept
    <2> HIDE DEF n
    <2>4. QED
      BY <2>1, <2>2, <2>3 DEF Counted
  <1>3. ASSUME Exact(t), ~IncludeUnfinished(t) PROVE Found' = References(t)
    <2>1. /\ Found' = ReferencesUpTo(t)[r[1] - 1]
          /\ r \in IncludeWords(t) /\ SameLine(t, r[2], p + 1)
          /\ WordOf(t, r) = IncludeWord
      BY <1>3 DEF IncludeAt, Before, Kept, Found
    <2>2. SameLine(t, r[2], n + 1)
      <3>1. \A e \in t.ends : e \in t.code /\ t.s[e] = Newline /\ e \in Nat
        BY <1>3, <2>1, DirectiveFacts DEF TextLayout
      <3>2. \A e \in t.ends : ~(e > p)
        BY <3>1, CharFacts DEF AtEnd
      <3>3. \A e \in t.ends : ~(p < e /\ e <= n)
        BY <1>1, <3>1, <3>2
      <3>4. \A k \in Int : k <= p => (SameLine(t, k, n + 1) <=> SameLine(t, k, p + 1))
        BY <1>1, <3>3, LineStays
      <3>5. QED
        BY <1>1, <2>1, <3>4
    <2>3. IncludeWord \notin DOMAIN IdTable
      BY <1>3, <2>1, <2>2 DEF IncludeUnfinished
    <2>4. ~IsMention(t, r)
      BY <2>1, <2>3 DEF IsMention, Wanted, id_find
    <2>5. \A q \in Identifiers(t) : r[2] < q[2] /\ q[2] <= n => ~IsMention(t, q)
      <3>1. \A q \in Identifiers(t) : q[2] <= n => q[2] <= n + 1
        BY <1>1, IdentifierIs
      <3>2. n + 1 \in Int
        BY <1>1
      <3> HIDE DEF n
      <3>3. QED
        BY <2>1, <2>2, <3>1, <3>2, IncludedNot
    <2>6. ReferencesUpTo(t)[n] = ReferencesUpTo(t)[r[1] - 1]
      BY <1>1, <2>4, <2>5, ReferencesPast
    <2>7. QED
      BY <2>1, <2>6 DEF References
  <1>4. QED
    BY <1>2, <1>3 DEF DoneAt

----------------------------------------------------------------------------
\* The look-up.

\* The references are those up to the place where the scan goes on.
LEMMA LookupDone ==
  ASSUME NEW t, TextLayout(t), NEW r \in Identifiers(t), NEW p \in 0..Len(t.s),
         LookupAt(t, r, p), lnr \in Nat, lnr' = CountLine,
         UNCHANGED <<col, in_preprocessor>>,
         Found' = IF Wanted(idbuf, find_type) THEN Append(Found, idbuf) ELSE Found
  PROVE  MainAt(t, p)'
  <1>1. /\ r[1] \in Nat /\ r[2] \in Nat /\ r[1] - 1 \in Nat /\ r[1] - 1 \in Int
        /\ (r[1] - 1) + 1 = r[1] /\ r[1] <= r[2] /\ r[2] <= p /\ p \in Int
        /\ r[1] - 1 <= p /\ r[1] - 1 < r[2] /\ p \in r[2]..Len(t.s)
        /\ idbuf = WordOf(t, r)
    BY IdentifierIs DEF LookupAt
  <1>2. lnr' <= Counted(t, p)
    <2>1. lnr <= LinesTo(t, p) + IncludesTo(t, r[1] - 1)
      BY DEF LookupAt
    <2>2. /\ LinesTo(t, p) \in Nat /\ IncludesTo(t, r[1] - 1) \in Nat
          /\ IncludesTo(t, p) \in Nat /\ IncludesTo(t, r[1] - 1) <= IncludesTo(t, p)
          /\ r \in Includes(t) => IncludesTo(t, r[1] - 1) + 1 <= IncludesTo(t, p)
      BY <1>1, CountsGrow
    <2>3. CASE c = Newline
      <3>1. r \in Includes(t)
        BY <1>1, <2>3 DEF LookupAt, Includes
      <3>2. lnr' = lnr + 1
        BY <2>3 DEF CountLine
      <3>3. QED
        BY <2>1, <2>2, <3>1, <3>2 DEF Counted
    <2>4. CASE c # Newline
      <3>1. lnr' = lnr
        BY <2>4 DEF CountLine
      <3>2. QED
        BY <2>1, <2>2, <3>1 DEF Counted
    <2>5. QED
      BY <2>3, <2>4
  <1>3. ASSUME Exact(t)
        PROVE  /\ Found' = ReferencesUpTo(t)[p] /\ NotIncluding(t, p)
               /\ in_preprocessor' <=> InDirective(t, p)
               /\ ColumnOK(t, p)'
    <2>1. /\ Found = ReferencesUpTo(t)[r[1] - 1]
          /\ NotIncluding(t, r[1] - 1)
          /\ find_type = TypeWanted(t, r)
          /\ \A q \in Identifiers(t) : r[2] < q[2] /\ q[2] <= p => ~IsMention(t, q)
          /\ NotIncluding(t, p)
          /\ in_preprocessor <=> InDirective(t, p)
          /\ ColumnOK(t, p)
      BY <1>3 DEF LookupAt
    <2>2. ~InInclude(t, r)
      <3>1. SUFFICES ASSUME NEW u \in IncludeWords(t), u[2] < r[1], SameLine(t, u[2], r[1])
                     PROVE  FALSE
        BY DEF InInclude
      <3>2. u[2] \in Nat
        BY IdentifierIs, DirectiveFacts
      <3>3. u[2] <= r[1] - 1
        BY <1>1, <3>1, <3>2
      <3>4. QED
        BY <1>1, <2>1, <3>1, <3>3 DEF NotIncluding
    <2>3. IsMention(t, r) <=> Wanted(idbuf, find_type)
      BY <1>1, <2>1, <2>2 DEF IsMention, TypeWanted
    <2>4. ReferencesUpTo(t)[p] =
            IF IsMention(t, r) THEN Append(ReferencesUpTo(t)[r[1] - 1], WordOf(t, r))
                               ELSE ReferencesUpTo(t)[r[1] - 1]
      BY <1>1, <2>1, ReferencesPast
    <2>5. Found' = ReferencesUpTo(t)[p]
      BY <1>1, <2>1, <2>3, <2>4
    <2>6. ColumnOK(t, p)'
      BY <2>1 DEF ColumnOK
    <2>7. QED
      BY <2>1, <2>5, <2>6
  <1>4. Apart(t, p)
    BY DEF LookupAt
  <1>5. QED
    BY <1>2, <1>3, <1>4 DEF MainAt, Before

----------------------------------------------------------------------------
\* The steps of the scan, place by place.

\* cf_getc has returned chr and stands at q.
GotTo(t, chr, q) ==
    \/ chr = EOF /\ PlaceIn(t, q) /\ AtEnd(t, q)
    \/ chr # EOF /\ q \in t.code /\ t.s[q] = chr /\ PlaceIn(t, q - 1)

\* A character in the main loop.
LEMMA MainPlace ==
  ASSUME ScanInv, NEW t, Plain(t), NEW q \in 0..Len(t.s), NEW chr, GotTo(t, chr, q),
         MainChar, c' = chr
  PROVE  PlaceIn(t, q)'
  <1>1. TextLayout(t) /\ lnr \in Nat /\ col \in Nat /\ in_preprocessor \in BOOLEAN /\ pc = "main"
        /\ Found' = Found
    BY DEF Plain, ScanInv, TypeOK, MainChar, Found
  <1>2. IF chr = EOF
          THEN pc' = "done" /\ UNCHANGED <<lnr, col, in_preprocessor, idbuf>>
          ELSE /\ lnr' = IF chr = Newline THEN lnr + 1 ELSE lnr
               /\ col' = IF chr = Newline THEN 0 ELSE col + 1
               /\ in_preprocessor' = \/ chr = Hash /\ col' = 1
                                     \/ chr # Newline /\ in_preprocessor
               /\ pc' = IF is_identifier_start(chr) THEN "ident" ELSE "main"
               /\ idbuf' = IF is_identifier_start(chr) THEN <<chr>> ELSE idbuf
    BY DEF MainChar
  <1>3. CASE chr = EOF
    <2>1. MainAt(t, q) /\ AtEnd(t, q)
      BY <1>1, <1>3 DEF GotTo, PlaceIn
    <2>2. lnr' = lnr
      BY <1>2, <1>3
    <2>3. DoneAt(t)'
      BY <1>1, <2>1, <2>2, NothingBehind DEF MainAt, Before, DoneAt
    <2>4. pc' = "done"
      BY <1>2, <1>3
    <2>5. QED
      BY <2>3, <2>4 DEF PlaceIn
  <1>4. CASE chr # EOF
    <2>1. q \in t.code /\ t.s[q] = chr /\ MainAt(t, q - 1)
      BY <1>1, <1>4 DEF GotTo, PlaceIn
    <2>2. CASE chr = Newline
      <3>1. lnr' = lnr + 1 /\ col' = 0 /\ chr # Hash /\ ~is_identifier_start(chr)
        BY <1>2, <1>4, <2>2, CharFacts
      <3>2. in_preprocessor' = FALSE /\ pc' = "main"
        BY <1>2, <1>4, <2>2, <3>1, Zenon
      <3>3. MainAt(t, q)'
        BY <1>1, <2>1, <2>2, <3>1, <3>2, MainLine
      <3>4. QED
        BY <3>2, <3>3 DEF PlaceIn
    <2>3. CASE chr # Newline /\ ~is_identifier_start(chr)
      <3>1. lnr' = lnr /\ col' = col + 1 /\ pc' = "main"
        BY <1>2, <1>4, <2>3
      <3>2. in_preprocessor' <=> (chr = Hash /\ col' = 1) \/ in_preprocessor
        BY <1>2, <1>4, <2>3, Zenon
      <3>3. MainAt(t, q)'
        BY <1>1, <2>1, <2>3, <3>1, <3>2, MainOther
      <3>4. QED
        BY <3>1, <3>3 DEF PlaceIn
    <2>4. CASE is_identifier_start(chr)
      <3>1. chr # Newline /\ chr # Hash
        BY <2>4, CharFacts
      <3>2. lnr' = lnr /\ col' = col + 1 /\ pc' = "ident" /\ idbuf' = <<chr>>
        BY <1>2, <1>4, <2>4, <3>1
      <3>3. in_preprocessor' = in_preprocessor
        BY <1>1, <1>2, <1>4, <3>1, Zenon
      <3>4. IdentFrom(t, q, q, q)'
        BY <1>1, <2>1, <2>4, <3>2, <3>3, MainWord
      <3>5. QED
        BY <2>1, <3>2, <3>4 DEF PlaceIn
    <2>5. QED
      BY <2>2, <2>3, <2>4
  <1>5. QED
    BY <1>3, <1>4

\* A character behind the start of an identifier.
LEMMA IdentPlace ==
  ASSUME ScanInv, NEW t, Plain(t), NEW q \in 0..Len(t.s), NEW chr, GotTo(t, chr, q),
         IdentChar, c' = chr
  PROVE  PlaceIn(t, q)'
  <1>1. TextLayout(t) /\ col \in Nat /\ pc = "ident" /\ Kept /\ q \in Nat
    BY DirectiveFacts DEF Plain, ScanInv, TypeOK, IdentChar, Kept
  <1>2. IF Overruns(idbuf) THEN pc' = "undefined" /\ UNCHANGED <<idbuf, col>>
        ELSE IF is_identifier(chr)
          THEN idbuf' = Append(idbuf, chr) /\ col' = col + 1 /\ UNCHANGED pc
          ELSE /\ pc' = IF isspace(chr) THEN "space" ELSE "word"
               /\ UNCHANGED <<idbuf, col>>
    BY DEF IdentChar
  <1>3. CASE Overruns(idbuf)
    <2>1. pc' = "undefined"
      BY <1>2, <1>3
    <2>2. QED
      BY <2>1 DEF PlaceIn
  <1>4. CASE ~Overruns(idbuf) /\ chr = EOF
    <2>1. ~is_identifier(chr) /\ ~isspace(chr)
      BY <1>4, CharFacts
    <2>2. pc' = "word" /\ UNCHANGED <<idbuf, col>>
      BY <1>2, <1>4, <2>1
    <2>3. AtEnd(t, q) /\ \E b, e \in t.code : IdentFrom(t, b, e, q)
      BY <1>1, <1>4 DEF GotTo, PlaceIn
    <2>4. \E r \in Identifiers(t) : WordAt(t, r, q)'
      BY <1>1, <1>4, <2>2, <2>3, IdentAtEnd
    <2>5. QED
      BY <2>2, <2>4 DEF PlaceIn
  <1>5. CASE ~Overruns(idbuf) /\ chr # EOF
    <2>1. q \in t.code /\ t.s[q] = chr
      BY <1>1, <1>5 DEF GotTo
    <2>2. PICK b, e \in t.code : IdentFrom(t, b, e, q - 1)
      BY <1>1, <1>5 DEF GotTo, PlaceIn
    <2>3. CASE is_identifier(chr)
      <3>1. idbuf' = Append(idbuf, chr) /\ col' = col + 1 /\ pc' = "ident"
        BY <1>1, <1>2, <1>5, <2>3
      <3>2. IdentFrom(t, b, q, q)'
        BY <1>1, <2>1, <2>2, <2>3, <3>1, IdentGrows
      <3>3. QED
        BY <2>1, <3>1, <3>2 DEF PlaceIn
    <2>4. CASE ~is_identifier(chr)
      <3>1. pc' = (IF isspace(chr) THEN "space" ELSE "word") /\ UNCHANGED <<idbuf, col>>
        BY <1>2, <1>5, <2>4
      <3>2. PICK r \in Identifiers(t) : IF isspace(t.s[q]) THEN SpaceAt(t, r, q)'
                                                           ELSE WordAt(t, r, q)'
        BY <1>1, <2>1, <2>2, <2>4, <3>1, IdentStops
      <3>3. CASE isspace(chr)
        BY <2>1, <3>1, <3>2, <3>3 DEF PlaceIn
      <3>4. CASE ~isspace(chr)
        BY <2>1, <3>1, <3>2, <3>4 DEF PlaceIn
      <3>5. QED
        BY <3>3, <3>4
    <2>5. QED
      BY <2>3, <2>4
  <1>6. QED
    BY <1>3, <1>4, <1>5

\* A character behind white space.
LEMMA SpacePlace ==
  ASSUME ScanInv, NEW t, Plain(t), NEW q \in 0..Len(t.s), NEW chr, GotTo(t, chr, q),
         SpaceChar, c' = chr
  PROVE  PlaceIn(t, q)'
  <1>1. /\ TextLayout(t) /\ col \in Nat /\ pc = "space" /\ Kept /\ UNCHANGED idbuf
        /\ col' = col + 1 /\ pc' = IF isspace(chr) THEN "space" ELSE "word"
    BY DEF Plain, ScanInv, TypeOK, SpaceChar, Kept
  <1>2. CASE chr = EOF
    <2>1. AtEnd(t, q) /\ \E r \in Identifiers(t) : SpaceAt(t, r, q)
      BY <1>1, <1>2 DEF GotTo, PlaceIn
    <2>2. pc' = "word"
      BY <1>1, <1>2, CharFacts
    <2>3. \E r \in Identifiers(t) : WordAt(t, r, q)'
      BY <1>1, <1>2, <2>1, SpaceAtEnd
    <2>4. QED
      BY <2>2, <2>3 DEF PlaceIn
  <1>3. CASE chr # EOF
    <2>1. q \in t.code /\ t.s[q] = chr
      BY <1>3 DEF GotTo
    <2>2. PICK r \in Identifiers(t) : SpaceAt(t, r, q - 1)
      BY <1>1, <1>3 DEF GotTo, PlaceIn
    <2>3. IF isspace(t.s[q]) THEN SpaceAt(t, r, q)' ELSE WordAt(t, r, q)'
      BY <1>1, <2>1, <2>2, SpaceGoesOn
    <2>4. CASE isspace(chr)
      BY <1>1, <2>1, <2>3, <2>4 DEF PlaceIn
    <2>5. CASE ~isspace(chr)
      BY <1>1, <2>1, <2>3, <2>5 DEF PlaceIn
    <2>6. QED
      BY <2>4, <2>5
  <1>4. QED
    BY <1>2, <1>3

\* A character of the line of an #include.
LEMMA IncludePlace ==
  ASSUME ScanInv, NEW t, Plain(t), NEW q \in 0..Len(t.s), NEW chr, GotTo(t, chr, q),
         IncludeChar, c' = chr
  PROVE  PlaceIn(t, q)'
  <1>1. /\ TextLayout(t) /\ lnr \in Nat /\ pc = "include"
        /\ UNCHANGED <<idbuf, find_type, ref_inc_table>> /\ pc' = AfterSkipped(chr)
        /\ IF chr = Newline
             THEN lnr' = lnr + 1 /\ col' = 0 /\ in_preprocessor' = FALSE
             ELSE UNCHANGED <<lnr, col, in_preprocessor>>
    BY DEF Plain, ScanInv, TypeOK, IncludeChar
  <1>2. CASE chr = EOF
    <2>1. PICK r \in Identifiers(t) : IncludeAt(t, r, q) /\ AtEnd(t, q)
      BY <1>1, <1>2 DEF GotTo, PlaceIn
    <2>2. chr # Newline
      BY <1>2, CharFacts
    <2>3. pc' = "done"
      BY <1>1, <1>2, <2>2 DEF AfterSkipped
    <2>4. Kept
      BY <1>1, <2>2 DEF Kept
    <2>5. DoneAt(t)'
      BY <1>1, <2>1, <2>4, IncludeAtEnd
    <2>6. QED
      BY <2>3, <2>5 DEF PlaceIn
  <1>3. CASE chr # EOF
    <2>1. q \in t.code /\ t.s[q] = chr
      BY <1>3 DEF GotTo
    <2>2. PICK r \in Identifiers(t) : IncludeAt(t, r, q - 1)
      BY <1>1, <1>3 DEF GotTo, PlaceIn
    <2>3. CASE chr = Newline
      <3>1. pc' = "lookup" /\ lnr' = lnr + 1 /\ col' = 0 /\ in_preprocessor' = FALSE
        BY <1>1, <1>3, <2>3 DEF AfterSkipped
      <3>2. LookupAt(t, r, q)'
        BY <1>1, <2>1, <2>2, <2>3, <3>1, IncludeLine
      <3>3. QED
        BY <3>1, <3>2 DEF PlaceIn
    <2>4. CASE chr # Newline
      <3>1. pc' = "include" /\ Kept
        BY <1>1, <1>3, <2>4 DEF AfterSkipped, Kept
      <3>2. IncludeAt(t, r, q)'
        BY <1>1, <2>1, <2>2, <2>4, <3>1, IncludeGoesOn
      <3>3. QED
        BY <3>1, <3>2 DEF PlaceIn
    <2>5. QED
      BY <2>3, <2>4
  <1>4. QED
    BY <1>2, <1>3

\* The end of an identifier.
LEMMA WordPlace ==
  ASSUME ScanInv, NEW t, Plain(t), NEW p \in 0..Len(t.s), PlaceIn(t, p), WordEnd,
         NEW z, Resumes(p, z)
  PROVE  PlaceIn(t, z)'
  <1>1. /\ TextLayout(t) /\ lnr \in Nat /\ pc = "word" /\ Kept /\ UNCHANGED <<idbuf, c, col>>
        /\ find_type' = IF c = LParen THEN {"FUNCTION", "KEYWORD"} ELSE Types \ {"FUNCTION"}
    BY DEF Plain, ScanInv, TypeOK, WordEnd, Kept
  <1>2. pc' = AfterWord
    <2>1. Len(ccv) <= 1 /\ Len(ccv) \in Nat
      BY <1>1, UnreadType DEF ScanInv, RoomToUnget
    <2>2. ~(Len(ccv) >= NLOOKAHEAD)
      BY <2>1 DEF NLOOKAHEAD
    <2>3. QED
      BY <2>2 DEF WordEnd, cf_ungetc
  <1>3. PICK r \in Identifiers(t) : WordAt(t, r, p)
    BY <1>1 DEF PlaceIn
  <1>4. CASE in_preprocessor /\ idbuf = IncludeWord
    <2>1. pc' = "include"
      BY <1>2, <1>4 DEF AfterWord
    <2>2. IncludeAt(t, r, z)'
      BY <1>1, <1>3, <1>4, WordIsInclude
    <2>3. QED
      BY <2>1, <2>2 DEF PlaceIn
  <1>5. CASE ~(in_preprocessor /\ idbuf = IncludeWord)
    <2>1. pc' = "lookup"
      BY <1>2, <1>5 DEF AfterWord
    <2>2. LookupAt(t, r, z)'
      BY <1>1, <1>3, <1>5, WordToFind
    <2>3. QED
      BY <2>1, <2>2 DEF PlaceIn
  <1>6. QED
    BY <1>4, <1>5

\* The look-up.
LEMMA LookupPlace ==
  ASSUME ScanInv, NEW t, Plain(t), NEW p \in 0..Len(t.s), PlaceIn(t, p), Lookup
  PROVE  PlaceIn(t, p)'
  <1>1. /\ TextLayout(t) /\ lnr \in Nat /\ pc = "lookup" /\ lnr' = CountLine
        /\ UNCHANGED <<col, in_preprocessor, c>> /\ lnr' \in Nat
        /\ pc' = "undefined" \/ pc' = IF c = EOF THEN "done" ELSE "main"
    BY DEF Plain, ScanInv, TypeOK, Lookup, CountLine
  <1>2. Found' = IF Wanted(idbuf, find_type) THEN Append(Found, idbuf) ELSE Found
    <2>1. ref_inc_table \in Seq(Ref) /\ Len(ref_inc_table) \in Nat
      BY DEF ScanInv, TypeOK
    <2>2. CASE ~Wanted(idbuf, find_type)
      BY <2>2 DEF Lookup, Found
    <2>3. CASE Wanted(idbuf, find_type)
      <3> DEFINE x == [ref_sym |-> idbuf, inc_sym |-> IdTable[idbuf].src1, ref_lnr |-> lnr]
                 n == Len(ref_inc_table)
      <3>1. ref_inc_table' = Append(ref_inc_table, x) /\ x.ref_sym = idbuf
        BY <2>3 DEF Lookup
      <3>2. x \in Ref
        <4>1. idbuf \in DOMAIN IdTable
          BY <2>3 DEF Wanted, id_find
        <4>2. QED
          BY <1>1, <4>1 DEF Ref
      <3> HIDE DEF x
      <3>3. /\ Len(ref_inc_table') = n + 1 /\ ref_inc_table'[n + 1] = x
            /\ \A i \in 1..n : ref_inc_table'[i] = ref_inc_table[i]
        BY <2>1, <3>1, <3>2
      <3> DEFINE W == DOMAIN IdTable
                 f == Found'
                 g == Append(Found, idbuf)
      <3>4. Found = [i \in 1..n |-> ref_inc_table[i].ref_sym] /\ Found \in Seq(W) /\ Len(Found) = n
        <4>1. Found = [i \in 1..n |-> ref_inc_table[i].ref_sym]
          BY DEF Found
        <4>2. \A i \in 1..n : ref_inc_table[i].ref_sym \in W
          <5>1. \A i \in 1..n : ref_inc_table[i] \in Ref
            BY <2>1
          <5>2. \A x1 \in Ref : x1.ref_sym \in W
            BY DEF Ref
          <5>3. QED
            BY <5>1, <5>2
        <4> HIDE DEF W
        <4>3. QED
          BY <2>1, <4>1, <4>2
      <3>5. f = [i \in 1..(n + 1) |-> ref_inc_table'[i].ref_sym]
        BY <3>3 DEF Found
      <3>6. idbuf \in W
        BY <2>3 DEF Wanted, id_find
      <3> HIDE DEF W, f
      <3>7. /\ g \in Seq(W) /\ Len(g) = n + 1 /\ g[n + 1] = idbuf
            /\ \A i \in 1..n : g[i] = Found[i]
        BY <3>4, <3>6
      <3> HIDE DEF g
      <3>8. ASSUME NEW i \in 1..(n + 1) PROVE f[i] = g[i]
        <4>1. CASE i = n + 1
          BY <3>1, <3>3, <3>5, <3>7, <4>1
        <4>2. CASE i # n + 1
          <5>1. i \in 1..n
            BY <2>1, <4>2
          <5>2. QED
            BY <3>3, <3>4, <3>5, <3>7, <5>1
        <4>3. QED
          BY <4>1, <4>2
      <3>9. f \in Seq(W) /\ Len(f) = n + 1
        <4>1. \A i \in 1..(n + 1) : f[i] \in W
          BY <2>1, <3>7, <3>8
        <4>2. n + 1 \in Nat
          BY <2>1
        <4> HIDE DEF n
        <4>3. QED
          BY <3>5, <4>1, <4>2
      <3>10. f = g
        BY <3>7, <3>8, <3>9, SeqEqual
      <3>11. QED
        BY <2>3, <3>10 DEF f, g
    <2>4. QED
      BY <2>2, <2>3
  <1>3. PICK r \in Identifiers(t) : LookupAt(t, r, p)
    BY <1>1 DEF PlaceIn
  <1>4. MainAt(t, p)'
    BY <1>1, <1>2, <1>3, LookupDone
  <1>5. CASE pc' = "undefined"
    BY <1>5 DEF PlaceIn
  <1>6. CASE pc' = "main"
    BY <1>4, <1>6 DEF PlaceIn
  <1>7. CASE pc' = "done" /\ c = EOF
    <2>1. AtEnd(t, p)
      BY <1>3, <1>7 DEF LookupAt
    <2>2. DoneAt(t)'
      BY <1>1, <1>4, <2>1, NothingBehind DEF MainAt, Before, DoneAt
    <2>3. QED
      BY <1>7, <2>2 DEF PlaceIn
  <1>8. QED
    BY <1>1, <1>5, <1>6, <1>7

----------------------------------------------------------------------------
\* The scan in the file.  What it has done so far is right for every text that
\* the file may still turn out to be.

Continues(T) ==
    /\ T \in Seq(Chars) /\ Extends(src, T)
    /\ state = "S_EOF" => T = src
    /\ NoSlashQuote(T) /\ Plain(Layout(T))

PlacesRight ==
    \A T : Continues(T) => \E p \in 0..Len(src) : At(p) /\ PlaceIn(Layout(T), p)

FindInv == CauseInv /\ PlacesRight

\* What is known of such a text: where libcf has given its characters away
\* they have the classes that the whole text calls for.
LEMMA ContinuesIs ==
  ASSUME CauseInv, NEW T, Continues(T)
  PROVE  /\ TextLayout(Layout(T)) /\ Layout(T).s = T /\ Layout(T).code = Code(T)
         /\ Len(T) \in Nat /\ Len(src) \in Nat /\ Len(src) <= Len(T)
         /\ NoSlashQuote(src)
         /\ \A k \in 1..Len(src) : k < Len(src) \/ ~Holds =>
               T[k] = src[k] /\ (k \in Code(T) <=> k \in Code(src))
  <1>1. T \in Seq(Chars) /\ Extends(src, T) /\ NoSlashQuote(T)
    BY DEF Continues
  <1>2. /\ Len(T) \in Nat /\ Len(src) \in Nat /\ Len(src) <= Len(T)
        /\ \A k \in 1..Len(src) : T[k] = src[k]
    BY <1>1 DEF Extends
  <1>3. NoSlashQuote(src)
    BY <1>1, SlashQuoteStays
  <1>4. ASSUME NEW k \in 1..Len(src), k < Len(src) \/ ~Holds
        PROVE  T[k] = src[k] /\ (k \in Code(T) <=> k \in Code(src))
    <2>1. CASE state = "S_EOF"
      BY <2>1 DEF Continues
    <2>2. CASE state # "S_EOF"
      <3>1. Reads(src, state)
        BY <1>3, <2>2 DEF CauseInv, ReadsSource
      <3>2. ClassOf(T)[k] = ClassOf(src)[k]
        BY <1>1, <1>4, <3>1, Settled DEF Holds
      <3>3. k \in 1..Len(T)
        BY <1>2
      <3>4. QED
        BY <1>2, <3>2, <3>3 DEF Code
    <2>3. QED
      BY <2>1, <2>2
  <1>5. QED
    BY <1>1, <1>2, <1>3, <1>4, LayoutOfText

\* A place is at most as far as that.
LEMMA AtSettled ==
  ASSUME Unread \in Nat, Len(src) \in Nat, NEW p \in 0..Len(src), At(p),
         NEW k \in 1..(p + Unread)
  PROVE  k \in 1..Len(src) /\ (k < Len(src) \/ ~Holds)
  <1>1. CASE state = "S_EOF"
    BY <1>1 DEF At, Holds
  <1>2. CASE state # "S_EOF"
    <2>1. Holds <=> p + Unread # Len(src)
      BY <1>2 DEF At
    <2>2. p + Unread \in {Len(src) - 1, Len(src)} /\ p + Unread \in Nat
      BY DEF At
    <2>3. ASSUME p + Unread = Len(src) - 1 PROVE k < Len(src)
      BY <2>3
    <2>4. QED
      BY <2>1, <2>2, <2>3
  <1>3. QED
    BY <1>1, <1>2

\* The places that read stay right where there is no code.
LEMMA PlaceSkips ==
  ASSUME ScanInv, NEW t, TextLayout(t), NEW p \in Nat, NEW q \in p..Len(t.s),
         NoneIn(t, p, q), PlaceIn(t, p), pc \in Reading
  PROVE  PlaceIn(t, q)
  <1>1. lnr \in Nat
    BY DEF ScanInv, TypeOK
  <1>2. pc \in {"main", "ident", "space", "include"}
    BY DEF Reading
  <1>3. CASE pc = "main"
    BY <1>1, <1>3, MainSkips DEF PlaceIn
  <1>4. CASE pc = "ident"
    BY <1>4, ReadingSkips DEF PlaceIn
  <1>5. CASE pc = "space"
    BY <1>5, ReadingSkips DEF PlaceIn
  <1>6. CASE pc = "include"
    BY <1>6, ReadingSkips DEF PlaceIn
  <1>7. QED
    BY <1>2, <1>3, <1>4, <1>5, <1>6

\* A step that changes none of the variables of the scan keeps the place.
LEMMA PlaceKept ==
  ASSUME NEW t, NEW p, PlaceIn(t, p), UNCHANGED <<pc, locals>>
  PROVE  PlaceIn(t, p)'
  <1>1. UNCHANGED <<pc, c, idbuf, lnr, col, in_preprocessor, find_type, ref_inc_table>>
    BY DEF locals
  <1>2. Found' = Found
    BY <1>1 DEF Found
  <1>3. /\ \A q : Before(t, q)' <=> Before(t, q)
        /\ \A q : ColumnOK(t, q)' <=> ColumnOK(t, q)
    BY <1>1, <1>2 DEF Before, ColumnOK
  <1>4. MainAt(t, p)' <=> MainAt(t, p)
    BY <1>1, <1>3 DEF MainAt
  <1>5. \A b : Entered(t, b)' <=> Entered(t, b)
    BY <1>1, <1>3 DEF Entered
  <1>6. \A b, e : IdentFrom(t, b, e, p)' <=> IdentFrom(t, b, e, p)
    BY <1>1, <1>5 DEF IdentFrom
  <1>7. \A r : SpaceAt(t, r, p)' <=> SpaceAt(t, r, p)
    BY <1>1, <1>5 DEF SpaceAt
  <1>8. \A r : WordAt(t, r, p)' <=> WordAt(t, r, p)
    BY <1>1, <1>5 DEF WordAt
  <1>9. \A r : IncludeAt(t, r, p)' <=> IncludeAt(t, r, p)
    BY <1>1, <1>3 DEF IncludeAt
  <1>10. \A r : LookupAt(t, r, p)' <=> LookupAt(t, r, p)
    BY <1>1, <1>2, <1>3 DEF LookupAt
  <1>11. DoneAt(t)' <=> DoneAt(t)
    BY <1>1, <1>2 DEF DoneAt
  <1>12. QED
    BY <1>1, <1>4, <1>6, <1>7, <1>8, <1>9, <1>10, <1>11 DEF PlaceIn

\* cf_getc in such a text.
LEMMA GetcPlace ==
  ASSUME CauseInv, NEW T, Continues(T), NEW p \in 0..Len(src), At(p),
         PlaceIn(Layout(T), p), pc \in Reading, NEW chr, cf_getc(chr)
  PROVE  \E q \in 0..Len(src) : At(q)' /\ q \in 0..Len(T) /\ GotTo(Layout(T), chr, q)
  <1> DEFINE t == Layout(T)
  <1>1. /\ TextLayout(t) /\ t.s = T /\ t.code = Code(T)
        /\ Len(T) \in Nat /\ Len(src) \in Nat /\ Len(src) <= Len(T)
        /\ \A k \in 1..Len(src) : k < Len(src) \/ ~Holds =>
              T[k] = src[k] /\ (k \in Code(T) <=> k \in Code(src))
    BY ContinuesIs
  <1> HIDE DEF t
  <1>2. ScanInv /\ UNCHANGED <<state, src>> /\ Unread' \in Nat
    <2>1. ScanInv
      BY DEF CauseInv
    <2>2. ccv' \in Seq(SuperChar) /\ Len(ccv') \in Nat
      BY <2>1, GetcShortens DEF CFilterTypeOK
    <2>3. Marked' => Len(ccv') # 0
      BY <2>2 DEF Marked
    <2>4. Unread' \in Nat
      BY <2>2, <2>3 DEF Unread
    <2>5. QED
      BY <2>1, <2>4 DEF cf_getc
  <1>3. PICK q \in p..Len(src) : Got(chr, p, q)
    BY <1>2, GetcAt
  <1>4. q \in 0..Len(src) /\ q \in Nat /\ p \in Nat /\ p <= q /\ q \in 0..Len(T) /\ At(q)'
    BY <1>1, <1>3 DEF Got
  <1>5. ASSUME NEW k \in 1..q
        PROVE  k \in 1..Len(src) /\ t.s[k] = src[k] /\ (k \in t.code <=> k \in Code(src))
    <2>1. k \in 1..Len(src)
      BY <1>1, <1>4
    <2>2. k < Len(src) \/ ~Holds
      <3>1. CASE state = "S_EOF"
        BY <3>1 DEF Holds
      <3>2. CASE state # "S_EOF"
        <4>1. Holds <=> q + Unread' # Len(src)
          BY <1>2, <1>4, <3>2 DEF At, Holds
        <4>2. q + Unread' \in {Len(src) - 1, Len(src)}
          BY <1>2, <1>4 DEF At
        <4>3. ASSUME q + Unread' = Len(src) - 1 PROVE k < Len(src)
          <5>1. k \in Nat /\ k <= q /\ Unread' \in Nat /\ Len(src) \in Nat /\ q \in Nat
            BY <1>1, <1>2, <1>4
          <5>2. QED
            BY <4>3, <5>1
        <4>4. QED
          BY <4>1, <4>2, <4>3
      <3>3. QED
        BY <3>1, <3>2
    <2>3. QED
      BY <1>1, <2>1, <2>2
  <1>6. \A k \in t.code : k \in Nat /\ k >= 1 /\ k <= Len(T)
    BY <1>1, DirectiveFacts
  <1>7. CASE chr = EOF /\ state = "S_EOF" /\ Unread' = 0 /\ NoCode(src, p + 1, q)
    <2>1. NoneIn(t, p, q)
      <3>1. SUFFICES ASSUME NEW k \in t.code, p < k, k <= q PROVE FALSE
        BY DEF NoneIn
      <3>2. k \in 1..q /\ k \in (p + 1)..q
        BY <1>4, <1>6, <3>1
      <3>3. QED
        BY <1>5, <1>7, <3>1, <3>2 DEF NoCode
    <2>2. PlaceIn(t, q)
      <3>1. PlaceIn(t, p) /\ q \in p..Len(t.s)
        BY <1>1, <1>4 DEF t
      <3>2. QED
        BY <1>1, <1>2, <1>4, <2>1, <3>1, PlaceSkips
    <2>3. AtEnd(t, q)
      <3>1. SUFFICES ASSUME NEW k \in t.code, k > q PROVE t.s[k] = Slash
        BY DEF AtEnd
      <3>2. T = src
        BY <1>7 DEF Continues
      <3>3. q + 0 \in {Len(src) - 1, Len(src)} /\ (q + 0 # Len(src) => src[Len(src)] = Slash)
        BY <1>2, <1>4, <1>7 DEF At
      <3>4. k = Len(src) /\ q + 0 # Len(src)
        BY <1>1, <1>4, <1>6, <3>1, <3>2, <3>3
      <3>5. QED
        BY <1>1, <3>2, <3>3, <3>4
    <2>4. GotTo(t, chr, q)
      BY <1>7, <2>2, <2>3 DEF GotTo
    <2>5. QED
      BY <1>4, <2>4 DEF t
  <1>8. CASE chr # EOF /\ q \in Code(src) /\ q > p /\ src[q] = chr /\ NoCode(src, p + 1, q - 1)
    <2>1. q \in 1..q /\ q - 1 \in p..Len(T)
      BY <1>1, <1>4, <1>8
    <2>2. q \in t.code /\ t.s[q] = chr
      BY <1>5, <1>8, <2>1
    <2>3. NoneIn(t, p, q - 1)
      <3>1. SUFFICES ASSUME NEW k \in t.code, p < k, k <= q - 1 PROVE FALSE
        BY DEF NoneIn
      <3>2. k \in 1..q /\ k \in (p + 1)..(q - 1)
        BY <1>4, <1>6, <3>1
      <3>3. QED
        BY <1>5, <1>8, <3>1, <3>2 DEF NoCode
    <2>4. PlaceIn(t, q - 1)
      <3>1. PlaceIn(t, p) /\ q - 1 \in p..Len(t.s)
        BY <1>1, <2>1 DEF t
      <3>2. QED
        BY <1>1, <1>2, <1>4, <2>3, <3>1, PlaceSkips
    <2>5. GotTo(t, chr, q)
      BY <1>8, <2>2, <2>4 DEF GotTo
    <2>6. QED
      BY <1>4, <2>5 DEF t
  <1>9. QED
    BY <1>3, <1>7, <1>8 DEF Got

\* The initial state: the scan is at the beginning of whatever text.
LEMMA FindInit == Init => FindInv
  <1> SUFFICES ASSUME Init PROVE FindInv
    OBVIOUS
  <1>1. CauseInv /\ ScanInv
    BY CauseInit DEF CauseInv
  <1>2. /\ src = <<>> /\ Len(src) = 0 /\ ccv = <<>> /\ state = "S_START" /\ pc = "main"
        /\ lnr = 0 /\ col = 0 /\ in_preprocessor = FALSE /\ Found = <<>>
    <2>1. /\ src = <<>> /\ ccv = <<>> /\ state = "S_START" /\ pc = "main"
          /\ lnr = 0 /\ col = 0 /\ in_preprocessor = FALSE /\ ref_inc_table = <<>>
      BY DEF Init, cf_init
    <2>2. Found = <<>>
      BY <2>1 DEF Found
    <2>3. QED
      BY <2>1, <2>2
  <1>3. At(0)
    <2>1. ~Marked /\ Unread = 0 /\ ~Holds
      BY <1>2 DEF Marked, Unread, Holds
    <2>2. QED
      BY <1>2, <2>1 DEF At
  <1>4. ASSUME NEW T, Continues(T) PROVE PlaceIn(Layout(T), 0)
    <2> DEFINE t == Layout(T)
    <2>1. TextLayout(t)
      BY <1>1, <1>4, ContinuesIs
    <2> HIDE DEF t
    <2>2. /\ \A k \in t.code : k \in Nat /\ k >= 1
          /\ \A r \in Identifiers(t) : r[1] \in Nat /\ r[1] >= 1 /\ r[2] \in Nat /\ r[2] >= 1
          /\ \A u \in IncludeWords(t) : u \in Identifiers(t)
          /\ \A h \in Directives(t) : h \in t.code
      BY <2>1, DirectiveFacts, IdentifierIs
    <2>3. Apart(t, 0) /\ NotIncluding(t, 0) /\ ~InDirective(t, 0) /\ LineStart(t, 0)
      BY <2>2 DEF Apart, NotIncluding, InDirective, LineStart
    <2>4. ReferencesUpTo(t)[0] = <<>>
      BY <2>1, ReferencesStep
    <2>5. lnr <= Counted(t, 0)
      <3>1. LinesTo(t, 0) \in Nat /\ IncludesTo(t, 0) \in Nat
        BY <2>1, CountsGrow
      <3>2. QED
        BY <1>2, <3>1 DEF Counted
    <2>6. ColumnOK(t, 0)
      BY <1>2, <2>3 DEF ColumnOK
    <2>7. MainAt(t, 0)
      BY <1>2, <2>3, <2>4, <2>5, <2>6 DEF MainAt, Before
    <2>8. QED
      BY <1>2, <2>7 DEF PlaceIn, t
  <1>5. QED
    BY <1>1, <1>2, <1>3, <1>4 DEF FindInv, PlacesRight

\* A text that goes on from the next state goes on from this one.
LEMMA ContinuesBack ==
  ASSUME Extends(src, src'), state = "S_EOF" => state' = "S_EOF" /\ src' = src,
         NEW T, Continues(T)'
  PROVE  Continues(T)
  <1>1. /\ T \in Seq(Chars) /\ Extends(src', T) /\ (state' = "S_EOF" => T = src')
        /\ NoSlashQuote(T) /\ Plain(Layout(T))
    BY DEF Continues
  <1>2. Extends(src, T)
    BY <1>1 DEF Extends
  <1>3. QED
    BY <1>1, <1>2 DEF Continues

\* A step that leaves the file and the array alone stays at its place.
LEMMA AtKept ==
  ASSUME NEW p, At(p), UNCHANGED <<state, src, ccv>>
  PROVE  At(p)'
  <1>1. (Marked' <=> Marked) /\ Unread' = Unread
    BY DEF Marked, Unread
  <1>2. QED
    BY <1>1 DEF At, Holds

\* Every step keeps the places right.
LEMMA FindNext == FindInv /\ [Next]_vars => FindInv'
  <1> SUFFICES ASSUME FindInv, [Next]_vars PROVE FindInv'
    OBVIOUS
  <1>1. CauseInv /\ CauseInv' /\ ScanInv /\ PlacesRight
    BY CauseNext DEF FindInv, CauseInv
  <1>2. Unread \in Nat /\ Len(src) \in Nat /\ src \in Seq(Chars)
    BY <1>1, UnreadType
  \* It is enough to look at one text, from this state on.
  <1>3. ASSUME Extends(src, src'), state = "S_EOF" => state' = "S_EOF" /\ src' = src,
               ASSUME NEW T, Continues(T), Continues(T)', NEW p \in 0..Len(src), At(p),
                      PlaceIn(Layout(T), p)
               PROVE  \E q \in 0..Len(src') : At(q)' /\ PlaceIn(Layout(T), q)'
        PROVE  FindInv'
    <2>1. ASSUME NEW T, Continues(T)'
          PROVE  \E q \in 0..Len(src') : At(q)' /\ PlaceIn(Layout(T), q)'
      <3>1. Continues(T)
        BY <1>3, <2>1, ContinuesBack
      <3>2. PICK p \in 0..Len(src) : At(p) /\ PlaceIn(Layout(T), p)
        BY <1>1, <3>1 DEF PlacesRight
      <3>3. QED
        BY <1>3, <2>1, <3>1, <3>2
    <2>2. QED
      BY <1>1, <2>1 DEF FindInv, PlacesRight
  <1>4. src' = src => Extends(src, src')
    BY <1>2 DEF Extends
  <1>5. ASSUME NEW chr \in Chars \cup {EOF}, Fill(chr) PROVE FindInv'
    <2>1. pc' = pc /\ pc \in Reading /\ UNCHANGED locals
      BY <1>1, <1>5 DEF Fill, CauseInv, ScanInv, NeverExits
    <2>2. CASE cf_eof(chr)
      <3>1. src' = src /\ state' = "S_EOF"
        BY <1>5, <2>2 DEF Fill, cf_eof
      <3>2. ASSUME NEW T, NEW p \in 0..Len(src), At(p), PlaceIn(Layout(T), p)
            PROVE  \E q \in 0..Len(src') : At(q)' /\ PlaceIn(Layout(T), q)'
        BY <1>5, <2>1, <2>2, <3>1, <3>2, FillEndAt, PlaceKept
      <3>3. QED
        BY <1>3, <1>4, <3>1, <3>2
    <2>3. CASE chr # EOF /\ CharStep(chr)
      <3>1. state # "S_EOF"
        BY <1>1, <2>3, CharStepPushes DEF ScanInv
      <3>2. src' = Append(src, chr)
        BY <1>5, <2>3, <3>1 DEF Fill
      <3>3. Extends(src, src') /\ Len(src') = Len(src) + 1
        BY <1>2, <2>3, <3>2 DEF Extends
      <3>4. ASSUME NEW T, Continues(T)', NEW p \in 0..Len(src), At(p), PlaceIn(Layout(T), p)
            PROVE  \E q \in 0..Len(src') : At(q)' /\ PlaceIn(Layout(T), q)'
        <4>1. NoSlashQuote(src')
          BY <3>4, SlashQuoteStays DEF Continues
        <4>2. At(p)'
          BY <1>1, <1>5, <2>3, <3>4, <4>1, FillCharAt DEF CauseInv
        <4>3. PlaceIn(Layout(T), p)'
          BY <2>1, <3>4, PlaceKept
        <4>4. p \in 0..Len(src')
          BY <1>2, <3>3
        <4>5. QED
          BY <4>2, <4>3, <4>4
      <3>5. QED
        BY <1>3, <3>1, <3>3, <3>4
    <2>4. QED
      BY <1>5, <2>2, <2>3, NextCases DEF Fill
  <1>6. CASE FillChar
    BY <1>5, <1>6, ScannerChars DEF FillChar
  <1>7. CASE FillEOF
    BY <1>5, <1>7 DEF FillEOF
  <1>8. CASE SkipNonCode
    <2>1. UNCHANGED <<state, src, pc, locals>> /\ pc \in Reading
      BY <1>8 DEF SkipNonCode
    <2>2. ASSUME NEW T, Continues(T), NEW p \in 0..Len(src), At(p), PlaceIn(Layout(T), p)
          PROVE  \E q \in 0..Len(src') : At(q)' /\ PlaceIn(Layout(T), q)'
      <3> DEFINE t == Layout(T)
      <3>1. PICK q \in 0..Len(src) : q = p + Unread /\ At(q)' /\ NoCode(src, p + 1, q)
        BY <1>1, <1>8, <2>2, SkipAt
      <3>2. /\ TextLayout(t) /\ t.s = T /\ t.code = Code(T) /\ Len(T) \in Nat
            /\ Len(src) <= Len(T)
            /\ \A k \in 1..Len(src) : k < Len(src) \/ ~Holds =>
                  (k \in t.code <=> k \in Code(src))
        BY <1>1, <2>2, ContinuesIs
      <3>3. p \in Nat /\ q \in p..Len(t.s)
        BY <1>2, <3>1, <3>2
      <3>4. NoneIn(t, p, q)
        <4>1. SUFFICES ASSUME NEW k \in t.code, p < k, k <= q PROVE FALSE
          BY DEF NoneIn
        <4>2. k \in Nat /\ k >= 1
          BY <3>2, DirectiveFacts
        <4>3. k \in 1..(p + Unread) /\ k \in (p + 1)..q
          BY <1>2, <3>1, <4>1, <4>2
        <4>4. k \in 1..Len(src) /\ (k < Len(src) \/ ~Holds)
          BY <1>2, <2>2, <4>3, AtSettled
        <4>5. k \in Code(src)
          BY <3>2, <4>1, <4>4
        <4>6. QED
          BY <3>1, <4>3, <4>5 DEF NoCode
      <3>5. PlaceIn(t, q)
        BY <1>1, <2>1, <2>2, <3>2, <3>3, <3>4, PlaceSkips
      <3>6. PlaceIn(t, q)'
        BY <2>1, <3>5, PlaceKept
      <3>7. QED
        BY <2>1, <3>1, <3>6
    <2>3. QED
      BY <1>3, <1>4, <2>1, <2>2
  \* The four places that take a character.
  <1>9. ASSUME NEW chr, cf_getc(chr), pc \in Reading,
               ASSUME NEW t, Plain(t), NEW q \in 0..Len(t.s), GotTo(t, chr, q)
               PROVE  PlaceIn(t, q)'
        PROVE  FindInv'
    <2>1. UNCHANGED <<state, src>>
      BY <1>9 DEF cf_getc
    <2>2. ASSUME NEW T, Continues(T), NEW p \in 0..Len(src), At(p), PlaceIn(Layout(T), p)
          PROVE  \E q \in 0..Len(src') : At(q)' /\ PlaceIn(Layout(T), q)'
      <3>1. PICK q \in 0..Len(src) : At(q)' /\ q \in 0..Len(T) /\ GotTo(Layout(T), chr, q)
        BY <1>1, <1>9, <2>2, GetcPlace
      <3>2. Plain(Layout(T)) /\ Layout(T).s = T
        BY <1>1, <2>2, ContinuesIs DEF Continues
      <3>3. PlaceIn(Layout(T), q)'
        BY <1>9, <3>1, <3>2
      <3>4. QED
        BY <2>1, <3>1, <3>3
    <2>3. QED
      BY <1>3, <1>4, <2>1, <2>2
  <1>10. CASE MainChar
    <2>1. PICK chr \in Chars \cup {EOF} : cf_getc(chr) /\ c' = chr
      BY <1>10 DEF MainChar
    <2>2. pc \in Reading
      BY <1>10 DEF MainChar, Reading
    <2>3. QED
      BY <1>1, <1>9, <1>10, <2>1, <2>2, MainPlace
  <1>11. CASE IdentChar
    <2>1. PICK chr \in Chars \cup {EOF} : cf_getc(chr) /\ c' = chr
      BY <1>11 DEF IdentChar
    <2>2. pc \in Reading
      BY <1>11 DEF IdentChar, Reading
    <2>3. QED
      BY <1>1, <1>9, <1>11, <2>1, <2>2, IdentPlace
  <1>12. CASE SpaceChar
    <2>1. PICK chr \in Chars \cup {EOF} : cf_getc(chr) /\ c' = chr
      BY <1>12 DEF SpaceChar
    <2>2. pc \in Reading
      BY <1>12 DEF SpaceChar, Reading
    <2>3. QED
      BY <1>1, <1>9, <1>12, <2>1, <2>2, SpacePlace
  <1>13. CASE IncludeChar
    <2>1. PICK chr \in Chars \cup {EOF} : cf_getc(chr) /\ c' = chr
      BY <1>13 DEF IncludeChar
    <2>2. pc \in Reading
      BY <1>13 DEF IncludeChar, Reading
    <2>3. QED
      BY <1>1, <1>9, <1>13, <2>1, <2>2, IncludePlace
  <1>14. CASE WordEnd
    <2>1. UNCHANGED <<state, src>> /\ pc = "word"
      BY <1>14 DEF WordEnd
    <2>2. ASSUME NEW T, Continues(T), NEW p \in 0..Len(src), At(p), PlaceIn(Layout(T), p)
          PROVE  \E q \in 0..Len(src') : At(q)' /\ PlaceIn(Layout(T), q)'
      <3> DEFINE t == Layout(T)
      <3>1. /\ Plain(t) /\ t.s = T /\ t.code = Code(T) /\ Len(T) \in Nat
            /\ Len(src) <= Len(T)
            /\ \A k \in 1..Len(src) : k < Len(src) \/ ~Holds =>
                  T[k] = src[k] /\ (k \in Code(T) <=> k \in Code(src))
        BY <1>1, <2>2, ContinuesIs DEF Continues
      <3>2. p \in 0..Len(t.s) /\ p \in Nat
        BY <1>2, <3>1
      <3>3. CASE is_identifier_start(c)
        <4>1. p \in t.code /\ t.s[p] = c
          <5>1. PICK r \in Identifiers(t) : WordAt(t, r, p)
            BY <2>1, <2>2 DEF PlaceIn
          <5>2. c # EOF
            BY <3>3, CharFacts
          <5>3. QED
            BY <5>1, <5>2 DEF WordAt
        <4>2. p \in 1..(p + Unread)
          <5>1. p \in 1..Len(T)
            BY <3>1, <4>1 DEF Code
          <5>2. QED
            BY <1>2, <3>2, <5>1
        <4>3. p \in 1..Len(src) /\ (p < Len(src) \/ ~Holds)
          BY <1>2, <2>2, <4>2, AtSettled
        <4>4. p \in Code(src) /\ src[p] = c
          BY <3>1, <4>1, <4>3
        <4>5. ClassOf(src)[p] = "CC_CODE"
          BY <4>4 DEF Code
        <4>6. ccv' = <<[chr |-> c, ccl |-> "CC_CODE"]>> \o ccv
          <5>1. Len(ccv) <= 1 /\ Len(ccv) \in Nat
            BY <1>1, <2>1, UnreadType DEF ScanInv, RoomToUnget
          <5>2. QED
            BY <1>14, <3>3, <5>1 DEF WordEnd, cf_ungetc, NLOOKAHEAD
        <4>7. PICK z \in 0..Len(src) : z = p - 1
          BY <1>2, <4>3
        <4>8. At(z)'
          BY <1>1, <2>1, <2>2, <4>3, <4>4, <4>5, <4>6, <4>7, UngotAt
        <4>9. Resumes(p, z)
          BY <3>3, <4>7 DEF Resumes
        <4>10. PlaceIn(t, z)'
          BY <1>1, <1>14, <2>2, <3>1, <3>2, <4>9, WordPlace
        <4>11. QED
          BY <2>1, <4>8, <4>10
      <3>4. CASE ~is_identifier_start(c)
        <4>1. ccv' = ccv
          BY <1>14, <3>4 DEF WordEnd
        <4>2. At(p)'
          BY <2>1, <2>2, <4>1, AtKept
        <4>3. Resumes(p, p)
          BY <3>4 DEF Resumes
        <4>4. PlaceIn(t, p)'
          BY <1>1, <1>14, <2>2, <3>1, <3>2, <4>3, WordPlace
        <4>5. QED
          BY <2>1, <4>2, <4>4
      <3>5. QED
        BY <3>3, <3>4
    <2>3. QED
      BY <1>3, <1>4, <2>1, <2>2
  <1>15. CASE Lookup
    <2>1. UNCHANGED <<state, src, ccv>>
      BY <1>15 DEF Lookup
    <2>2. ASSUME NEW T, Continues(T), NEW p \in 0..Len(src), At(p), PlaceIn(Layout(T), p)
          PROVE  \E q \in 0..Len(src') : At(q)' /\ PlaceIn(Layout(T), q)'
      <3>1. Plain(Layout(T)) /\ Layout(T).s = T /\ Len(T) \in Nat /\ Len(src) <= Len(T)
        BY <1>1, <2>2, ContinuesIs DEF Continues
      <3>2. p \in 0..Len(Layout(T).s)
        BY <1>2, <3>1
      <3>3. PlaceIn(Layout(T), p)'
        BY <1>1, <1>15, <2>2, <3>1, <3>2, LookupPlace
      <3>4. QED
        BY <2>1, <2>2, <3>3, AtKept
    <2>3. QED
      BY <1>3, <1>4, <2>1, <2>2
  <1>16. CASE UNCHANGED vars
    <2>1. UNCHANGED <<state, src, ccv>> /\ UNCHANGED <<pc, locals>>
      BY <1>16 DEF vars, locals
    <2>2. ASSUME NEW T, NEW p \in 0..Len(src), At(p), PlaceIn(Layout(T), p)
          PROVE  \E q \in 0..Len(src') : At(q)' /\ PlaceIn(Layout(T), q)'
      BY <2>1, <2>2, AtKept, PlaceKept
    <2>3. QED
      BY <1>3, <1>4, <2>1, <2>2
  <1>17. QED
    BY <1>6, <1>7, <1>8, <1>10, <1>11, <1>12, <1>13, <1>14, <1>15, <1>16 DEF Next

\* The text that was read is one that the file may be: at the end it is.
LEMMA DoneRight ==
  ASSUME FindInv, pc = "done", NoSlashQuote(src), ~Glued(Layout(src)),
         ~LetteredNumber(Layout(src))
  PROVE  TextLayout(Layout(src)) /\ Layout(src).s = src /\ DoneAt(Layout(src))
  <1>1. ScanInv /\ src \in Seq(Chars) /\ Len(src) \in Nat
    BY UnreadType DEF FindInv, CauseInv
  <1>2. TextLayout(Layout(src)) /\ Layout(src).s = src
    BY <1>1, LayoutOfText
  <1>3. Continues(src)
    BY <1>1, <1>2 DEF Continues, Extends, Plain
  <1>4. \E p \in 0..Len(src) : PlaceIn(Layout(src), p)
    BY <1>3 DEF FindInv, PlacesRight
  <1>5. QED
    BY <1>2, <1>4 DEF PlaceIn

\* For every text without the named exceptions, every identifier table and
\* every alphabet: the scan records exactly the identifiers that the text
\* mentions in code outside of #include directives, in their order.
THEOREM ScanFindsMentions == Spec => []FindsMentions
  <1>1. ASSUME FindInv PROVE FindsMentions
    <2>1. SUFFICES ASSUME pc = "done", NoSlashQuote(src), ~Glued(Layout(src)),
                          ~LetteredNumber(Layout(src)), ~LineLost(Layout(src)),
                          ~IndentedDirective(Layout(src)), ~IncludeUnfinished(Layout(src))
                   PROVE  Found = References(Layout(src))
      BY DEF FindsMentions
    <2>2. DoneAt(Layout(src))
      BY <1>1, <2>1, DoneRight
    <2>3. QED
      BY <2>1, <2>2 DEF DoneAt, Exact
  <1>2. QED
    BY <1>1, FindInit, FindNext, PTL DEF Spec

\* The line numbers are never ahead of the text by more than the words
\* include in it, whatever the text, its directives included.
THEOREM ScanLinesNotAhead == Spec => []LinesNotAhead
  <1>1. ASSUME FindInv PROVE LinesNotAhead
    <2> DEFINE t == Layout(src)
               lines == Cardinality({k \in DOMAIN src : src[k] = Newline})
               words == Cardinality({u \in Identifiers(t) : WordOf(t, u) = IncludeWord})
    <2>1. SUFFICES ASSUME pc = "done", NoSlashQuote(src), ~Glued(t), ~LetteredNumber(t)
                   PROVE  lnr - lines <= words
      BY DEF LinesNotAhead
    <2>2. TextLayout(t) /\ t.s = src /\ DoneAt(t)
      BY <1>1, <2>1, DoneRight
    <2>3. src \in Seq(Chars) /\ Len(src) \in Nat /\ lnr \in Nat
      BY <1>1, UnreadType DEF FindInv, CauseInv, ScanInv, TypeOK
    <2> HIDE DEF t
    <2>4. LinesTo(t, Len(src)) = lines
      <3>1. {k \in 1..Len(src) : k <= Len(src) /\ src[k] = Newline}
              = {k \in DOMAIN src : src[k] = Newline}
        <4>1. DOMAIN src = 1..Len(src) /\ \A k \in 1..Len(src) : k <= Len(src)
          BY <2>3
        <4>2. QED
          BY <4>1
      <3>2. QED
        BY <2>2, <3>1 DEF LinesTo
    <2>5. IncludesTo(t, Len(src)) = words
      <3>1. \A u \in Includes(t) : u[2] <= Len(src)
        BY <2>2, <2>3, IdentifierIs DEF Includes
      <3>2. {u \in Includes(t) : u[2] <= Len(src)} = Includes(t)
        BY <3>1
      <3>3. QED
        BY <3>2 DEF IncludesTo, Includes
    <2>6. lines \in Nat /\ words \in Nat
      <3>1. Len(src) \in Int
        BY <2>3
      <3>2. LinesTo(t, Len(src)) \in Nat /\ IncludesTo(t, Len(src)) \in Nat
        BY <2>2, <2>3, <3>1, CountsGrow
      <3>3. QED
        BY <2>4, <2>5, <3>2
    <2>7. lnr <= lines + words
      BY <2>2, <2>4, <2>5 DEF DoneAt, Counted
    <2> HIDE DEF lines, words
    <2>8. QED
      BY <2>3, <2>6, <2>7
  <1>2. QED
    BY <1>1, FindInit, FindNext, PTL DEF Spec
=============================================================================
