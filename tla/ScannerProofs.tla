--------------------------- MODULE ScannerProofs ---------------------------
(***************************************************************************)
(* For every alphabet, identifier table and length of file: the scan keeps *)
(* its types, never exits because of libcf or of a full array, and leaves  *)
(* its arrays only for the causes that are known.                          *)
(***************************************************************************)
EXTENDS Mentions, CFilterProofs, FiniteSetTheorems

\* The array is filled only when it is empty, so it never holds more than two
\* super-characters; one of them at least has been taken when an identifier
\* ends, which is when a character is put back.
RoomToUnget ==
    /\ Len(ccv) <= 2
    /\ pc = "word" => Len(ccv) <= 1

ScanInv ==
    /\ CFInv
    /\ TypeOK
    /\ RoomToUnget
    /\ NeverExits

\* Identifier characters are characters, and EOF is none of them.
LEMMA ScannerChars ==
  /\ Letters \cup Digits \subseteq Chars
  /\ Alphabet \subseteq Chars
  /\ Newline \in Chars /\ Nul \in Chars
  BY ScannerAssumption DEF Chars, Special

\* The initial state.
LEMMA ScanInit == Init => ScanInv
  <1> SUFFICES ASSUME Init PROVE ScanInv
    OBVIOUS
  <1>1. CFInv
    BY InitEstablishes DEF Init
  <1>2. ccv = <<>>
    BY DEF Init, cf_init
  <1>3. RoomToUnget
    BY <1>2 DEF RoomToUnget
  <1>4. TypeOK
    <2>1. CFilterTypeOK
      BY <1>1 DEF CFInv
    <2>2. /\ idbuf \in Seq(Letters \cup Digits) /\ src \in Seq(Chars)
          /\ ref_inc_table \in Seq(Ref)
      BY DEF Init
    <2>3. /\ c \in Chars \cup {EOF} /\ lnr \in Nat /\ col \in Nat
          /\ in_preprocessor \in BOOLEAN /\ find_type \subseteq Types
          /\ pc \in Reading
      BY ScannerChars DEF Init, Reading
    <2>4. QED
      BY <2>1, <2>2, <2>3 DEF TypeOK
  <1>5. QED
    BY <1>1, <1>3, <1>4 DEF ScanInv, NeverExits, Init

\* A character that cf_getc returns is a character or EOF; the array gets
\* shorter and the state machine is left alone.
LEMMA GetcShortens ==
  ASSUME ScanInv, NEW chr, cf_getc(chr)
  PROVE  /\ chr \in Chars \cup {EOF}
         /\ CFInv' /\ CFilterTypeOK'
         /\ Len(ccv') <= 1 /\ Len(ccv') \in Nat
         /\ src' = src
  <1>1. ccv \in Seq(SuperChar) /\ Len(ccv) \in Nat /\ Len(ccv) <= 2
        /\ CodeAt # {} /\ CodeAt \subseteq 1..Len(ccv)
    BY DEF ScanInv, CFInv, CFilterTypeOK, RoomToUnget, cf_getc, CodeAt
  <1> DEFINE k == CHOOSE i \in CodeAt : \A j \in CodeAt : i <= j
  <1>2. /\ chr = (IF ccv[k].ccl = "CC_EOF" THEN EOF ELSE ccv[k].chr)
        /\ ccv' = SubSeq(ccv, k + 1, Len(ccv))
        /\ UNCHANGED <<state, cclass, err, rv, src>>
    BY DEF cf_getc
  <1>3. k \in 1..Len(ccv)
    <2>1. \E i \in CodeAt : \A j \in CodeAt : i <= j
      <3>1. CASE 1 \in CodeAt
        BY <1>1, <3>1
      <3>2. CASE 1 \notin CodeAt
        <4>1. \A j \in CodeAt : j = 2
          BY <1>1, <3>2
        <4>2. PICK i \in CodeAt : TRUE
          BY <1>1
        <4>3. i = 2 /\ \A j \in CodeAt : i <= j
          BY <4>1
        <4>4. QED
          BY <4>3
      <3>3. QED
        BY <3>1, <3>2
    <2>2. k \in CodeAt
      BY <2>1
    <2>3. QED
      BY <1>1, <2>2
  <1> HIDE DEF k
  <1>4. ccv[k] \in SuperChar
    BY <1>1, <1>3
  <1>5. ccv' \in Seq(SuperChar) /\ Len(ccv') = Len(ccv) - k
    BY <1>1, <1>2, <1>3
  <1>6. Len(ccv') <= 1 /\ Len(ccv') \in Nat
    BY <1>1, <1>3, <1>5
  <1>7. CFInv'
    BY <1>2, <1>5, <1>6 DEF ScanInv, CFInv, CFilterTypeOK, NLOOKAHEAD
  <1>8. QED
    BY <1>2, <1>4, <1>6, <1>7 DEF CFInv, SuperChar

\* Every step keeps the invariant.
LEMMA ScanNext == ScanInv /\ [Next]_vars => ScanInv'
  <1> SUFFICES ASSUME ScanInv, [Next]_vars PROVE ScanInv'
    OBVIOUS
  <1> USE DEF NeverExits
  <1>1. /\ CFInv /\ TypeOK /\ RoomToUnget /\ pc # "exit"
        /\ ccv \in Seq(SuperChar) /\ Len(ccv) \in Nat /\ Len(ccv) <= 2
    BY DEF ScanInv, TypeOK, CFilterTypeOK, RoomToUnget
  <1>2. ASSUME NEW chr \in Chars \cup {EOF}, Fill(chr) PROVE ScanInv'
    <2>1. CFInv' /\ Len(ccv') <= Len(ccv) + 2
      BY <1>1, <1>2, CallPreserves DEF Fill
    <2>2. Len(ccv) = 0 /\ Len(ccv') <= 2 /\ pc' = pc /\ pc \in Reading
      BY <1>1, <1>2, <2>1 DEF Fill, CFInv, CFilterTypeOK
    <2>3. RoomToUnget' /\ NeverExits'
      BY <1>1, <2>2 DEF RoomToUnget, Reading
    <2>4. src' \in Seq(Chars)
      BY <1>1, <1>2 DEF Fill, TypeOK
    <2>5. TypeOK'
      BY <1>1, <1>2, <2>1, <2>2, <2>4 DEF Fill, TypeOK, CFInv, locals
    <2>6. QED
      BY <2>1, <2>3, <2>5 DEF ScanInv
  <1>3. CASE FillChar
    BY <1>2, <1>3, ScannerChars DEF FillChar
  <1>4. CASE FillEOF
    BY <1>2, <1>4 DEF FillEOF
  <1>5. CASE SkipNonCode
    <2>1. ccv' = <<>> /\ pc' = pc
      BY <1>5 DEF SkipNonCode
    <2>2. CFInv'
      BY <1>1, <1>5, <2>1 DEF SkipNonCode, CFInv, CFilterTypeOK, NLOOKAHEAD
    <2>3. RoomToUnget'
      BY <2>1 DEF RoomToUnget
    <2>4. TypeOK'
      BY <1>1, <1>5, <2>2 DEF SkipNonCode, TypeOK, CFInv, locals
    <2>5. QED
      BY <1>1, <2>1, <2>2, <2>3, <2>4 DEF ScanInv
  \* The four places that read a character.
  <1>6. ASSUME NEW chr, cf_getc(chr), TypeOK', pc' # "exit" PROVE ScanInv'
    BY <1>6, GetcShortens DEF ScanInv, RoomToUnget
  <1>7. CASE MainChar
    <2>1. PICK chr \in Chars \cup {EOF} : MainChar!2!(chr)
      BY <1>7 DEF MainChar
    <2>2. /\ CFilterTypeOK' /\ src' = src
      BY <2>1, GetcShortens
    <2>3. TypeOK' /\ pc' # "exit"
      <3>1. idbuf' \in Seq(Letters \cup Digits)
        <4>1. idbuf' = idbuf \/ (chr \in Letters /\ idbuf' = <<chr>>)
          BY <2>1, Zenon DEF is_identifier_start
        <4>2. idbuf \in Seq(Letters \cup Digits)
          BY <1>1 DEF TypeOK
        <4>3. \A x \in Letters \cup Digits : <<x>> \in Seq(Letters \cup Digits)
          OBVIOUS
        <4>4. QED
          BY <4>1, <4>2, <4>3
      <3>2. pc' \in {"done", "ident", "main"} /\ c' \in Chars \cup {EOF}
        BY <2>1
      <3>3. lnr' \in Nat /\ col' \in Nat
        <4>1. lnr' \in {lnr, lnr + 1} /\ col' \in {col, 0, col + 1}
          BY <2>1, Zenon
        <4>2. QED
          BY <1>1, <4>1 DEF TypeOK
      <3>4. in_preprocessor' \in BOOLEAN
        BY <1>1, <2>1, Zenon DEF TypeOK
      <3>5. UNCHANGED <<find_type, ref_inc_table>>
        BY <1>7 DEF MainChar
      <3>6. QED
        BY <1>1, <2>2, <3>1, <3>2, <3>3, <3>4, <3>5 DEF TypeOK, Reading
    <2>4. QED
      BY <1>6, <2>1, <2>3
  <1>8. CASE IdentChar
    <2>1. PICK chr \in Chars \cup {EOF} : IdentChar!2!(chr)
      BY <1>8 DEF IdentChar
    <2>2. CFilterTypeOK' /\ src' = src
      BY <2>1, GetcShortens
    <2>3. TypeOK' /\ pc' # "exit"
      <3>1. idbuf' \in Seq(Letters \cup Digits)
        <4>1. idbuf' = idbuf \/ (chr \in Letters \cup Digits /\ idbuf' = Append(idbuf, chr))
          BY <2>1, Zenon DEF is_identifier
        <4>2. idbuf \in Seq(Letters \cup Digits)
          BY <1>1 DEF TypeOK
        <4>3. \A x \in Letters \cup Digits : Append(idbuf, x) \in Seq(Letters \cup Digits)
          BY <4>2
        <4>4. QED
          BY <4>1, <4>2, <4>3
      <3>2. /\ pc' \in {"ident", "space", "word", "undefined"} /\ c' \in Chars \cup {EOF}
            /\ col' \in Nat
        BY <1>1, <1>8, <2>1 DEF IdentChar, TypeOK
      <3>3. UNCHANGED <<lnr, in_preprocessor, find_type, ref_inc_table>>
        BY <1>8 DEF IdentChar
      <3>4. QED
        BY <1>1, <2>2, <3>1, <3>2, <3>3 DEF TypeOK, Reading
    <2>4. QED
      BY <1>6, <2>1, <2>3
  <1>9. CASE SpaceChar
    <2>1. PICK chr \in Chars \cup {EOF} : SpaceChar!2!(chr)
      BY <1>9 DEF SpaceChar
    <2>2. CFilterTypeOK' /\ src' = src
      BY <2>1, GetcShortens
    <2>3. TypeOK' /\ pc' # "exit"
      BY <1>1, <1>9, <2>1, <2>2 DEF SpaceChar, TypeOK, Reading
    <2>4. QED
      BY <1>6, <2>1, <2>3
  <1>10. CASE IncludeChar
    <2>1. PICK chr \in Chars \cup {EOF} : IncludeChar!2!(chr)
      BY <1>10 DEF IncludeChar
    <2>2. CFilterTypeOK' /\ src' = src
      BY <2>1, GetcShortens
    <2>3. TypeOK' /\ pc' # "exit"
      <3>1. /\ pc' \in {"lookup", "done", "include"} /\ c' \in Chars \cup {EOF}
            /\ lnr' \in Nat /\ col' \in Nat
        BY <1>1, <2>1 DEF TypeOK, AfterSkipped
      <3>2. in_preprocessor' \in BOOLEAN
        BY <1>1, <2>1, Zenon DEF TypeOK
      <3>3. UNCHANGED <<idbuf, find_type, ref_inc_table>>
        BY <1>10 DEF IncludeChar
      <3>4. QED
        BY <1>1, <2>2, <3>1, <3>2, <3>3 DEF TypeOK, Reading
    <2>4. QED
      BY <1>6, <2>1, <2>3
  <1>11. CASE WordEnd
    <2>1. Len(ccv) <= 1
      BY <1>1, <1>11 DEF WordEnd, RoomToUnget
    <2>2. pc' \in {"include", "lookup"}
      BY <1>1, <1>11, <2>1 DEF WordEnd, cf_ungetc, AfterWord, NLOOKAHEAD
    <2>3. ccv' \in Seq(SuperChar) /\ Len(ccv') <= 2
      <3>1. CASE ccv' = ccv
        BY <1>1, <3>1
      <3>2. CASE is_identifier_start(c)
        <4>1. ccv' = <<[chr |-> c, ccl |-> "CC_CODE"]>> \o ccv
          BY <1>1, <1>11, <2>1, <3>2 DEF WordEnd, cf_ungetc, AfterWord, NLOOKAHEAD
        <4>2. [chr |-> c, ccl |-> "CC_CODE"] \in SuperChar
          BY <3>2, ScannerChars DEF is_identifier_start, SuperChar, CClass
        <4>3. QED
          BY <1>1, <2>1, <4>1, <4>2
      <3>3. QED
        BY <1>11, <3>1, <3>2 DEF WordEnd
    <2>4. CFInv'
      BY <1>1, <1>11, <2>3 DEF WordEnd, CFInv, CFilterTypeOK, NLOOKAHEAD
    <2>5. find_type' \subseteq Types
      BY <1>11 DEF WordEnd, Types
    <2>6. TypeOK'
      BY <1>1, <1>11, <2>2, <2>4, <2>5 DEF WordEnd, TypeOK, CFInv, Reading
    <2>7. QED
      BY <2>2, <2>3, <2>4, <2>6 DEF ScanInv, RoomToUnget
  <1>12. CASE Lookup
    <2>1. UNCHANGED <<state, cclass, err, ccv, rv, src, c, idbuf, col,
                      in_preprocessor, find_type>>
      BY <1>12 DEF Lookup
    <2>2. CFInv'
      BY <1>1, <2>1 DEF CFInv, CFilterTypeOK
    <2>3. pc' \in {"main", "done", "undefined"} /\ lnr' \in Nat
      BY <1>1, <1>12 DEF Lookup, CountLine, TypeOK
    <2>4. ref_inc_table' \in Seq(Ref)
      <3>1. CASE Wanted(idbuf, find_type)
        <4> DEFINE r == [ref_sym |-> idbuf, inc_sym |-> IdTable[idbuf].src1,
                         ref_lnr |-> lnr]
        <4>1. idbuf \in DOMAIN IdTable /\ lnr \in Nat
          BY <1>1, <3>1 DEF Wanted, id_find, TypeOK
        <4>2. r \in Ref
          BY <4>1 DEF Ref
        <4>3. ref_inc_table' = Append(ref_inc_table, r)
          BY <1>12, <3>1 DEF Lookup
        <4> HIDE DEF r
        <4>4. QED
          BY <1>1, <4>2, <4>3 DEF TypeOK
      <3>2. CASE ~Wanted(idbuf, find_type)
        BY <1>1, <1>12, <3>2 DEF Lookup, TypeOK
      <3>3. QED
        BY <3>1, <3>2
    <2>5. TypeOK'
      BY <1>1, <2>1, <2>2, <2>3, <2>4 DEF TypeOK, CFInv, Reading
    <2>6. QED
      BY <1>1, <2>1, <2>2, <2>3, <2>5 DEF ScanInv, RoomToUnget
  <1>13. CASE UNCHANGED vars
    BY <1>1, <1>13 DEF vars, ScanInv, CFInv, CFilterTypeOK, TypeOK, RoomToUnget
  <1>14. QED
    BY <1>3, <1>4, <1>5, <1>7, <1>8, <1>9, <1>10, <1>11, <1>12, <1>13 DEF Next

\* Every variable of the scan keeps its type.
THEOREM ScanTypeOK == Spec => []TypeOK
  <1>1. ScanInv => TypeOK
    BY DEF ScanInv
  <1>2. QED
    BY <1>1, ScanInit, ScanNext, PTL DEF Spec

\* The scan of a file never ends in one of its exit() calls: the four places
\* of the array "ought to be enough" (incbot.c:713), and they are.
THEOREM ScanNeverExits == Spec => []NeverExits
  <1>1. ScanInv => NeverExits
    BY DEF ScanInv
  <1>2. QED
    BY <1>1, ScanInit, ScanNext, PTL DEF Spec

----------------------------------------------------------------------------
\* The positions of the code of a text.
Code(s) == {k \in 1..Len(s) : ClassOf(s)[k] = "CC_CODE"}

\* The code of a layout.
LEMMA LayoutIs ==
  ASSUME NEW s
  PROVE  Layout(s).code = Code(s) /\ Layout(s).s = s
  BY DEF Layout, Code

\* What is in the array: Unread super-characters of the text, and maybe the
\* mark of the end of the file.
Marked == ccv # <<>> /\ ccv[Len(ccv)].ccl = "CC_EOF"
Unread == IF Marked THEN Len(ccv) - 1 ELSE Len(ccv)

\* cf_getc has gone through the first p characters of the text.  The array
\* has the next ones, with the classes that the text calls for, up to the end
\* of the text or to a '/' at its end.
At(p) ==
    /\ p \in 0..Len(src)
    /\ p + Unread \in {Len(src) - 1, Len(src)}
    /\ p + Unread # Len(src) => src[Len(src)] = Slash
    /\ state # "S_EOF" => ~Marked /\ (Holds <=> p + Unread # Len(src))
    /\ \A i \in 1..Unread :
          ccv[i] = [chr |-> src[p + i], ccl |-> ClassOf(src)[p + i]]

\* No code lies at the positions from i to k.
NoCode(s, i, k) == \A j \in i..k : j \notin Code(s)

\* The characters of idbuf are the code from b to e, which is the last code
\* up to p.
RunAt(b, e, p) ==
    /\ b \in Code(src) /\ e \in Code(src) /\ b <= e /\ e <= p
    /\ \A k \in Code(src) : b <= k /\ k <= e => is_identifier(src[k])
    /\ Cardinality({k \in Code(src) : b <= k /\ k <= e}) = Len(idbuf)
    /\ NoCode(src, e + 1, p)

\* Where the scan is in the text: with an identifier in idbuf, and with a
\* character in c that cf_ungetc may have to put back.
ScannedTo(p) ==
    /\ At(p)
    /\ pc = "ident" => \E b, e \in Code(src) : RunAt(b, e, p)
    /\ pc = "word" /\ is_identifier_start(c) => p \in Code(src) /\ src[p] = c

ReadsSource ==
    NoSlashQuote(src) =>
        /\ state # "S_EOF" => Reads(src, state) /\ InnerClass(state, cclass)
        /\ \E p \in 0..Len(src) : ScannedTo(p)

CauseInv == ScanInv /\ ReadsSource /\ UndefinedHasCause

\* The initial state.
LEMMA CauseInit == Init => CauseInv
  <1> SUFFICES ASSUME Init PROVE CauseInv
    OBVIOUS
  <1>1. ScanInv
    BY ScanInit
  <1>2. src = <<>> /\ ccv = <<>> /\ state = "S_START" /\ pc = "main"
    BY DEF Init, cf_init
  <1>3. Reads(src, state) /\ InnerClass(state, cclass)
    BY <1>2 DEF Reads, InnerClass
  <1>4. ~Marked /\ Unread = 0 /\ ~Holds /\ Len(src) = 0
    BY <1>2 DEF Marked, Unread, Holds
  <1>5. ScannedTo(0) /\ 0 \in 0..Len(src)
    BY <1>2, <1>4 DEF ScannedTo, At
  <1>6. UndefinedHasCause
    BY <1>2 DEF UndefinedHasCause
  <1>7. QED
    BY <1>1, <1>3, <1>5, <1>6 DEF CauseInv, ReadsSource

\* What At(p) says of the array, in numbers.
LEMMA UnreadType ==
  ASSUME ScanInv
  PROVE  /\ ccv \in Seq(SuperChar) /\ Len(ccv) \in Nat /\ Len(ccv) <= 2
         /\ src \in Seq(Chars) /\ Len(src) \in Nat
         /\ Unread \in Nat
         /\ Marked => Len(ccv) = Unread + 1 /\ ccv[Unread + 1].ccl = "CC_EOF"
         /\ ~Marked => Len(ccv) = Unread
  <1>1. /\ ccv \in Seq(SuperChar) /\ Len(ccv) \in Nat /\ Len(ccv) <= 2
        /\ src \in Seq(Chars) /\ Len(src) \in Nat
    BY DEF ScanInv, TypeOK, CFilterTypeOK, RoomToUnget
  <1>2. CASE Marked
    <2>1. Len(ccv) # 0 /\ Unread = Len(ccv) - 1
      BY <1>1, <1>2 DEF Marked, Unread
    <2>2. (Len(ccv) - 1) + 1 = Len(ccv)
      BY <1>1
    <2>3. QED
      BY <1>1, <1>2, <2>1, <2>2 DEF Marked
  <1>3. CASE ~Marked
    BY <1>1, <1>3 DEF Unread
  <1>4. QED
    BY <1>1, <1>2, <1>3

\* The super-characters of the text are code where the text is.
LEMMA CodeInArray ==
  ASSUME ScanInv, NEW p, At(p), NEW i \in 1..Unread
  PROVE  /\ p + i \in 1..Len(src)
         /\ ccv[i].chr = src[p + i] /\ ccv[i].ccl # "CC_EOF"
         /\ i \in CodeAt <=> p + i \in Code(src)
  <1>1. Unread \in Nat /\ Len(src) \in Nat /\ i \in 1..Len(ccv)
    BY UnreadType
  <1>2. p + i \in 1..Len(src)
    BY <1>1 DEF At
  <1>3. ccv[i] = [chr |-> src[p + i], ccl |-> ClassOf(src)[p + i]]
    BY DEF At
  <1>4. ClassOf(src)[p + i] \in TextClass
    BY <1>2, ClassOfText
  <1>5. ccv[i].ccl \notin {"CC_EOF", "CC_ERR"}
    BY <1>3, <1>4 DEF TextClass
  <1>6. QED
    BY <1>1, <1>2, <1>3, <1>5 DEF CodeAt, IsCode, Code

\* cf_getc: it returns the next character of code, or EOF when there is none
\* up to the end of what libcf gave.
Got(chr, p, r) ==
    /\ r \in p..Len(src)
    /\ At(r)'
    /\ \/ chr = EOF /\ state = "S_EOF" /\ Unread' = 0 /\ NoCode(src, p + 1, r)
       \/ chr # EOF /\ r \in Code(src) /\ r > p /\ src[r] = chr /\ NoCode(src, p + 1, r - 1)

\* A call of cf_getc goes forward in the text as Got says.
LEMMA GetcAt ==
  ASSUME ScanInv, NEW p \in 0..Len(src), At(p), NEW chr, cf_getc(chr)
  PROVE  \E r \in p..Len(src) : Got(chr, p, r)
  <1>1. /\ ccv \in Seq(SuperChar) /\ Len(ccv) \in Nat /\ Unread \in Nat
        /\ src \in Seq(Chars) /\ Len(src) \in Nat
    BY UnreadType
  <1>2. /\ CodeAt # {} /\ CodeAt \subseteq 1..Len(ccv) /\ CodeAt \subseteq Nat
    BY <1>1 DEF cf_getc, CodeAt
  <1>3. PICK k \in CodeAt :
           /\ \A j \in CodeAt : k <= j
           /\ chr = (IF ccv[k].ccl = "CC_EOF" THEN EOF ELSE ccv[k].chr)
           /\ ccv' = SubSeq(ccv, k + 1, Len(ccv))
    <2>1. \E i \in CodeAt : \A j \in CodeAt : i <= j
      BY <1>2, NatMin
    <2> DEFINE first == CHOOSE i \in CodeAt : \A j \in CodeAt : i <= j
    <2>2. first \in CodeAt /\ \A j \in CodeAt : first <= j
      BY <2>1
    <2>3. /\ chr = (IF ccv[first].ccl = "CC_EOF" THEN EOF ELSE ccv[first].chr)
          /\ ccv' = SubSeq(ccv, first + 1, Len(ccv))
      BY DEF cf_getc
    <2> HIDE DEF first
    <2>4. QED
      BY <2>2, <2>3
  <1>4. state' = state /\ src' = src
    BY DEF cf_getc
  <1>5. k \in 1..Len(ccv)
    BY <1>2, <1>3
  <1>6. /\ ccv' \in Seq(SuperChar) /\ Len(ccv') = Len(ccv) - k
        /\ \A i \in 1..(Len(ccv) - k) : ccv'[i] = ccv[k + i]
    BY <1>1, <1>3, <1>5
  <1>7. ASSUME NEW j \in Nat, j > p, j < p + k, j <= p + Unread PROVE j \notin Code(src)
    <2> DEFINE i == j - p
    <2>1. i \in 1..Unread /\ p + i = j /\ i < k /\ i \in Nat
      BY <1>1, <1>5, <1>7
    <2> HIDE DEF i
    <2>2. i \notin CodeAt
      BY <1>2, <1>3, <2>1
    <2>3. QED
      BY <2>1, <2>2, CodeInArray
  <1>8. CASE k <= Unread
    <2>1. k \in 1..Unread
      BY <1>1, <1>5, <1>8
    <2>2. /\ p + k \in 1..Len(src) /\ p + k \in Code(src)
          /\ ccv[k].chr = src[p + k] /\ ccv[k].ccl # "CC_EOF"
      BY <1>3, <2>1, CodeInArray
    <2>3. chr = src[p + k] /\ chr # EOF
      <3>1. src[p + k] \in Chars
        BY <1>1, <2>2
      <3>2. QED
        BY <1>3, <2>2, <3>1, EOFNotChar
    <2>4. p + k \in p..Len(src) /\ p + k > p
      BY <1>1, <1>5, <2>2
    <2>5. NoCode(src, p + 1, (p + k) - 1)
      <3>1. \A j \in (p + 1)..((p + k) - 1) : j \in Nat /\ j > p /\ j < p + k /\ j <= p + Unread
        BY <1>1, <1>5, <1>8
      <3>2. QED
        BY <1>7, <3>1 DEF NoCode
    <2>6. Unread' = Unread - k /\ (Marked' <=> Marked)
      <3>1. CASE Marked
        <4>1. Len(ccv) = Unread + 1 /\ ccv[Len(ccv)].ccl = "CC_EOF"
          BY <3>1, UnreadType DEF Marked
        <4>2. Len(ccv') = Len(ccv) - k /\ Len(ccv) - k \in 1..(Len(ccv) - k)
              /\ k + (Len(ccv) - k) = Len(ccv)
          BY <1>1, <1>5, <1>6, <1>8, <4>1
        <4>3. ccv'[Len(ccv')] = ccv[Len(ccv)]
          BY <1>6, <4>2
        <4>4. ccv' # <<>>
          BY <4>2
        <4>5. Marked'
          BY <4>1, <4>3, <4>4 DEF Marked
        <4>6. Unread' = Len(ccv') - 1
          BY <4>5 DEF Unread
        <4>7. Unread' = Unread - k
          BY <1>1, <1>5, <4>1, <4>2, <4>6
        <4>8. QED
          BY <3>1, <4>5, <4>7
      <3>2. CASE ~Marked
        <4>1. Len(ccv) = Unread
          BY <3>2, UnreadType
        <4>2. ~Marked'
          <5>1. SUFFICES ASSUME ccv' # <<>> PROVE ccv'[Len(ccv')].ccl # "CC_EOF"
            BY DEF Marked
          <5>2. Len(ccv') # 0
            BY <1>6, <5>1
          <5>3. /\ Len(ccv) - k \in 1..(Len(ccv) - k)
                /\ k + (Len(ccv) - k) = Len(ccv) /\ Len(ccv) # 0
            BY <1>1, <1>5, <1>6, <5>2
          <5>4. ccv'[Len(ccv')] = ccv[Len(ccv)] /\ ccv # <<>>
            BY <1>6, <5>3
          <5>5. QED
            BY <3>2, <5>4 DEF Marked
        <4>3. Unread' = Len(ccv')
          BY <4>2 DEF Unread
        <4>4. QED
          BY <1>6, <3>2, <4>1, <4>2, <4>3
      <3>3. QED
        BY <3>1, <3>2
    <2>7. (p + k) + Unread' = p + Unread
      BY <1>1, <1>5, <2>6
    <2>8. ASSUME NEW i \in 1..Unread'
          PROVE  ccv'[i] = [chr |-> src[(p + k) + i], ccl |-> ClassOf(src)[(p + k) + i]]
      <3>1. k + i \in 1..Unread /\ p + (k + i) = (p + k) + i
        BY <1>1, <1>5, <2>6
      <3>2. i \in 1..(Len(ccv) - k)
        <4>1. Unread <= Len(ccv)
          BY <1>1, UnreadType
        <4>2. QED
          BY <1>1, <1>5, <2>6, <4>1
      <3>3. ccv'[i] = ccv[k + i]
        BY <1>6, <3>2
      <3>4. ccv[k + i] = [chr |-> src[p + (k + i)], ccl |-> ClassOf(src)[p + (k + i)]]
        BY <3>1 DEF At
      <3>5. QED
        BY <3>1, <3>3, <3>4
    <2>9. At(p + k)'
      <3>1. p + k \in 0..Len(src')
        BY <1>1, <1>4, <2>2
      <3>2. /\ p + Unread \in {Len(src) - 1, Len(src)}
            /\ p + Unread # Len(src) => src[Len(src)] = Slash
            /\ state # "S_EOF" => ~Marked /\ (Holds <=> p + Unread # Len(src))
        BY DEF At
      <3>3. /\ (p + k) + Unread' \in {Len(src') - 1, Len(src')}
            /\ (p + k) + Unread' # Len(src') => src'[Len(src')] = Slash
        BY <1>4, <2>7, <3>2
      <3>4. state' # "S_EOF" => ~Marked' /\ (Holds' <=> (p + k) + Unread' # Len(src'))
        BY <1>4, <2>6, <2>7, <3>2 DEF Holds
      <3>5. QED
        BY <1>4, <2>8, <3>1, <3>3, <3>4 DEF At
    <2>10. Got(chr, p, p + k)
      BY <2>2, <2>3, <2>4, <2>5, <2>9 DEF Got
    <2>11. QED
      BY <2>4, <2>10
  <1>9. CASE k > Unread
    <2>1. Marked /\ k = Unread + 1 /\ Len(ccv) = k /\ ccv[k].ccl = "CC_EOF"
      BY <1>1, <1>5, <1>9, UnreadType
    <2>2. chr = EOF
      BY <1>3, <2>1
    <2>3. ccv' = <<>>
      BY <1>1, <1>6, <2>1
    <2>4. ~Marked' /\ Unread' = 0
      BY <2>3 DEF Marked, Unread
    <2>5. /\ p + Unread \in {Len(src) - 1, Len(src)} /\ state = "S_EOF"
          /\ p + Unread # Len(src) => src[Len(src)] = Slash
      BY <2>1 DEF At
    <2>6. PICK r \in p..Len(src) : r = p + Unread
      BY <1>1, <2>5
    <2>7. r \in 0..Len(src) /\ r + 0 = r /\ r \in {Len(src) - 1, Len(src)}
      BY <1>1, <2>5, <2>6
    <2>8. At(r)'
      BY <1>4, <2>4, <2>5, <2>6, <2>7 DEF At
    <2>9. NoCode(src, p + 1, r)
      <3>1. \A j \in (p + 1)..r : j \in Nat /\ j > p /\ j < p + k /\ j <= p + Unread
        BY <1>1, <2>1, <2>6
      <3>2. QED
        BY <1>7, <3>1 DEF NoCode
    <2>10. Got(chr, p, r)
      BY <2>2, <2>4, <2>5, <2>8, <2>9 DEF Got
    <2>11. QED
      BY <2>10
  <1>10. QED
    BY <1>1, <1>5, <1>8, <1>9

\* A run in the part of the text that cf_getc went through stays one.
LEMMA RunStays ==
  ASSUME NEW p \in Nat, Len(src) \in Nat, Len(src') \in Nat,
         \A k \in 1..p : /\ src'[k] = src[k]
                         /\ k \in Code(src') <=> k \in Code(src),
         idbuf' = idbuf, NEW b \in Code(src), NEW e \in Code(src), RunAt(b, e, p)
  PROVE  b \in Code(src') /\ e \in Code(src') /\ RunAt(b, e, p)'
  <1>1. b \in 1..Len(src) /\ e \in 1..Len(src) /\ b <= e /\ e <= p
    BY DEF RunAt, Code
  <1>2. b \in 1..p /\ e \in 1..p
    BY <1>1
  <1>3. b \in Code(src') /\ e \in Code(src')
    BY <1>2
  <1>4. \A k : k \in Code(src') /\ b <= k /\ k <= e <=> k \in Code(src) /\ b <= k /\ k <= e
    <2>1. \A k : k \in Code(src) \/ k \in Code(src') => k \in Nat /\ k >= 1
      BY DEF Code
    <2>2. \A k \in Nat : k >= 1 /\ k <= e => k \in 1..p
      BY <1>1
    <2>3. QED
      BY <2>1, <2>2
  <1>5. {k \in Code(src') : b <= k /\ k <= e} = {k \in Code(src) : b <= k /\ k <= e}
    BY <1>4
  <1>6. \A k \in Code(src') : b <= k /\ k <= e => is_identifier(src'[k])
    <2>1. \A k \in Code(src) : b <= k /\ k <= e => k \in 1..p
      BY <1>1 DEF Code
    <2>2. \A k \in Code(src) : b <= k /\ k <= e => is_identifier(src[k])
      BY DEF RunAt
    <2>3. QED
      BY <1>4, <2>1, <2>2
  <1>7. NoCode(src', e + 1, p)
    <2>1. \A j \in (e + 1)..p : j \in 1..p
      BY <1>1
    <2>2. QED
      BY <2>1 DEF RunAt, NoCode
  <1>8. Cardinality({k \in Code(src') : b <= k /\ k <= e}) = Len(idbuf')
    <2>1. Cardinality({k \in Code(src) : b <= k /\ k <= e}) = Len(idbuf)
      BY DEF RunAt
    <2>2. QED
      BY <1>5, <2>1
  <1>9. QED
    BY <1>1, <1>3, <1>6, <1>7, <1>8 DEF RunAt

\* The array is filled at the end of the file: the scan stays where it is.
LEMMA FillEndAt ==
  ASSUME NEW chr, Fill(chr), cf_eof(chr), NEW p, At(p)
  PROVE  At(p)'
  <1>1. src' = src /\ state' = "S_EOF" /\ ccv = <<>>
    BY DEF Fill, cf_eof
  <1>2. ccv' = <<[chr |-> Nul, ccl |-> "CC_EOF"]>>
    <2>1. ccv_top.ccl = "CC_CODE"
      BY <1>1 DEF ccv_top
    <2>2. ccv' = ccv_push(ccv, Nul, "CC_EOF")
      BY <2>1 DEF cf_eof, MarkEnd
    <2>3. QED
      BY <1>1, <2>2 DEF ccv_push, NLOOKAHEAD
  <1>3. Unread = 0 /\ Marked' /\ Unread' = 0
    <2>1. ~Marked /\ Len(ccv) = 0
      BY <1>1 DEF Marked
    <2>2. Len(ccv') = 1 /\ ccv'[1].ccl = "CC_EOF" /\ ccv' # <<>>
      BY <1>2
    <2>3. Marked'
      BY <2>2 DEF Marked
    <2>4. QED
      BY <2>1, <2>2, <2>3 DEF Unread
  <1>4. QED
    BY <1>1, <1>3 DEF At

\* The array is filled at the end of the file.
LEMMA FillEndReads ==
  ASSUME ReadsSource, NEW chr, Fill(chr), cf_eof(chr), pc' = pc
  PROVE  ReadsSource'
  <1>1. src' = src /\ state' = "S_EOF" /\ pc \in Reading /\ idbuf' = idbuf
    BY DEF Fill, cf_eof, locals
  <1>2. SUFFICES ASSUME NoSlashQuote(src)
                 PROVE  \E p \in 0..Len(src) : ScannedTo(p)'
    BY <1>1 DEF ReadsSource
  <1>3. PICK p \in 0..Len(src) : ScannedTo(p)
    BY <1>2 DEF ReadsSource
  <1>4. At(p)'
    BY <1>3, FillEndAt DEF ScannedTo
  <1>5. pc' = "ident" => \E b, e \in Code(src') : RunAt(b, e, p)'
    BY <1>1, <1>3 DEF ScannedTo, RunAt
  <1>6. pc' # "word"
    BY <1>1 DEF Reading
  <1>7. QED
    BY <1>4, <1>5, <1>6 DEF ScannedTo

\* An array of two.
LEMMA PushOnOne ==
  ASSUME NEW S, NEW v \in Seq(S), Len(v) = 1, NEW x \in S, NEW w, w = Append(v, x)
  PROVE  w \in Seq(S) /\ Len(w) = 2 /\ w[1] = v[1] /\ w[2] = x
  <1>1. /\ w \in Seq(S) /\ Len(w) = Len(v) + 1
        /\ \A i \in 1..Len(v) : w[i] = v[i]
        /\ w[Len(v) + 1] = x
    BY ONLY v \in Seq(S), x \in S, w = Append(v, x)
  <1>2. QED
    BY ONLY <1>1, Len(v) = 1

\* The array is filled with a character of the file: the machine has read
\* the text with it, and the scan stays where it is.
LEMMA FillCharAt ==
  ASSUME ScanInv, ReadsSource, NEW chr \in Chars, chr # EOF, Fill(chr), CharStep(chr),
         NoSlashQuote(src'), NEW p, At(p)
  PROVE  /\ state # "S_EOF" /\ Reads(src, state) /\ src' = Append(src, chr)
         /\ Reads(src', state') /\ InnerClass(state', cclass')
         /\ At(p)'
  <1> DEFINE n == Len(src)
  <1>1. /\ CFInv /\ src \in Seq(Chars) /\ n \in Nat /\ ccv = <<>>
    BY UnreadType DEF ScanInv, Fill
  <1>2. state # "S_EOF" /\ state' # "S_EOF"
    BY <1>1, CharStepPushes
  <1>3. src' = Append(src, chr)
    BY <1>2 DEF Fill
  <1>4. /\ Grown(src, src') /\ src'[Len(src')] = chr /\ Len(src') = n + 1
        /\ \A k \in 1..n : src'[k] = src[k]
    BY <1>1, <1>3 DEF Grown
  <1>5. NoSlashQuote(src)
    BY <1>4, SlashQuoteStays, GrownExtends
  <1>6. Reads(src, state) /\ InnerClass(state, cclass)
    BY <1>2, <1>5 DEF ReadsSource
  <1>7. ReadsOn(src, src', chr)
    BY <1>4, <1>6, ReadsChar
  <1>8. p \in {n - 1, n} /\ (Holds <=> p # n) /\ p \in Nat
    <2>1. Unread = 0
      BY <1>1 DEF Unread, Marked
    <2>2. p + Unread = p
      BY <1>1, <2>1 DEF At
    <2>3. QED
      BY <1>2, <2>2 DEF At
  <1>9. SUFFICES At(p)'
    BY <1>2, <1>3, <1>6, <1>7 DEF ReadsOn
  \* It is enough to look at what was pushed.
  <1>10. ASSUME NEW m \in 0..2, Len(ccv') = m, ccv' \in Seq(SuperChar),
                p + m = IF Holds' THEN n ELSE n + 1,
                \A i \in 1..m : ccv'[i].ccl = ClassOf(src')[p + i],
                \A i \in 1..m : ccv'[i].chr = src'[p + i]
         PROVE  At(p)'
    <2>1. ASSUME NEW i \in 1..m
          PROVE  /\ ccv'[i] = [chr |-> src'[p + i], ccl |-> ClassOf(src')[p + i]]
                 /\ ccv'[i].ccl # "CC_EOF"
      <3>1. p + i \in 1..Len(src')
        BY <1>1, <1>4, <1>8, <1>10
      <3>2. ClassOf(src')[p + i] \in TextClass
        BY <3>1, ClassOfText
      <3>3. ccv'[i] \in SuperChar
        BY <1>10
      <3>4. ccv'[i] = [chr |-> ccv'[i].chr, ccl |-> ccv'[i].ccl]
        BY <3>3 DEF SuperChar
      <3>5. QED
        BY <1>10, <3>2, <3>4, TextClasses
    <2>2. ~Marked'
      <3>1. ccv' # <<>> => Len(ccv') \in 1..m
        BY <1>10
      <3>2. QED
        BY <2>1, <3>1 DEF Marked
    <2>3. Unread' = m
      BY <1>10, <2>2 DEF Unread
    <2>4. /\ p \in 0..Len(src')
          /\ p + m \in {Len(src') - 1, Len(src')}
          /\ Holds' <=> p + m # Len(src')
      BY <1>1, <1>4, <1>8, <1>10
    <2>5. Holds' => src'[Len(src')] = Slash
      <3>1. SUFFICES ASSUME Holds' PROVE src'[Len(src')] = Slash
        OBVIOUS
      <3>2. Len(src') # 0 /\ Reads(src', "S_START_SLASH")
        BY <1>1, <1>4, <1>7, <3>1 DEF ReadsOn, Holds
      <3>3. ReadsToken(src', TokenStart(src')[Len(src')], "S_START_SLASH")
        BY <3>2 DEF Reads
      <3>4. QED
        BY <3>3 DEF ReadsToken
    <2>6. QED
      BY <2>1, <2>2, <2>3, <2>4, <2>5 DEF At
  <1>11. CASE ~Holds /\ Holds' /\ ccv' = ccv
    <2>1. Len(ccv') = 0 /\ ccv' \in Seq(SuperChar) /\ p + 0 = n /\ 0 \in 0..2
      BY <1>1, <1>8, <1>11
    <2>2. \A i \in 1..0 : FALSE
      OBVIOUS
    <2>3. QED
      BY <1>10, <1>11, <2>1, <2>2
  <1>12. CASE ~Holds /\ ~Holds' /\ ccv' = ccv_push(ccv, chr, ClassOf(src')[Len(src')])
    <2> DEFINE cl == ClassOf(src')[Len(src')]
    <2>1. cl \in CClass
      <3>1. Len(src') \in 1..Len(src')
        BY <1>1, <1>4
      <3>2. QED
        BY <3>1, ClassOfText, TextClasses
    <2> HIDE DEF cl
    <2>2. ccv' = <<[chr |-> chr, ccl |-> cl]>>
      BY <1>1, <1>12 DEF ccv_push, NLOOKAHEAD, cl
    <2>3. [chr |-> chr, ccl |-> cl] \in SuperChar
      BY <2>1 DEF SuperChar
    <2>4. Len(ccv') = 1 /\ ccv' \in Seq(SuperChar) /\ ccv'[1].chr = chr /\ ccv'[1].ccl = cl
      BY <2>2, <2>3
    <2>5. p + 1 = n + 1 /\ p + 1 = Len(src') /\ 1 \in 0..2
      BY <1>1, <1>4, <1>8, <1>12
    <2>6. \A i \in 1..1 : ccv'[i].ccl = ClassOf(src')[p + i] /\ ccv'[i].chr = src'[p + i]
      <3>1. \A i \in 1..1 : i = 1
        OBVIOUS
      <3>2. QED
        BY <1>4, <2>4, <2>5, <3>1 DEF cl
    <2>7. QED
      BY <1>10, <1>12, <2>4, <2>5, <2>6
  <1>13. CASE /\ Holds /\ ~Holds'
              /\ ccv' = ccv_push(ccv_push(ccv, Slash, ClassOf(src')[n]),
                                 chr, ClassOf(src')[Len(src')])
    <2> DEFINE dl == ClassOf(src')[n]
               cl == ClassOf(src')[Len(src')]
    <2>1. p = n - 1 /\ n > 0
      BY <1>1, <1>8, <1>13
    <2>2. cl \in CClass /\ dl \in CClass
      <3>1. Len(src') \in 1..Len(src') /\ n \in 1..Len(src')
        BY <1>1, <1>4, <2>1
      <3>2. QED
        BY <3>1, ClassOfText, TextClasses
    <2>3. src'[n] = Slash
      <3>1. ReadsToken(src, TokenStart(src)[n], "S_START_SLASH")
        BY <1>1, <1>6, <1>13, <2>1 DEF Reads, Holds
      <3>2. src[n] = Slash
        BY <3>1 DEF ReadsToken
      <3>3. QED
        BY <1>1, <1>4, <2>1, <3>2
    <2> HIDE DEF cl, dl
    <2> DEFINE held == [chr |-> Slash, ccl |-> dl]
               top == [chr |-> chr, ccl |-> cl]
               v == <<held>>
    <2>4. held \in SuperChar /\ top \in SuperChar
      BY <2>2 DEF SuperChar, Chars, Special
    <2>5. v \in Seq(SuperChar) /\ Len(v) = 1 /\ v[1] = held
      BY <2>4
    <2>6. ccv' = Append(v, top)
      <3>1. ccv_push(ccv, Slash, dl) = v
        BY <1>1 DEF ccv_push, NLOOKAHEAD
      <3>2. ccv' = ccv_push(v, chr, cl)
        BY <1>13, <3>1 DEF cl, dl
      <3> HIDE DEF v
      <3>3. QED
        BY <2>5, <3>2 DEF ccv_push, NLOOKAHEAD
    <2>7. /\ Len(ccv') = 2 /\ ccv' \in Seq(SuperChar)
          /\ ccv'[1].chr = Slash /\ ccv'[1].ccl = dl
          /\ ccv'[2].chr = chr /\ ccv'[2].ccl = cl
      <3> HIDE DEF v, held, top
      <3>1. Len(ccv') = 2 /\ ccv' \in Seq(SuperChar) /\ ccv'[1] = held /\ ccv'[2] = top
        BY <2>4, <2>5, <2>6, PushOnOne
      <3>2. QED
        BY <3>1 DEF held, top
    <2> HIDE DEF v, held, top
    <2>8. p + 2 = n + 1 /\ p + 2 = Len(src') /\ p + 1 = n /\ 2 \in 0..2
      BY <1>1, <1>4, <2>1
    <2>9. \A i \in 1..2 : ccv'[i].ccl = ClassOf(src')[p + i] /\ ccv'[i].chr = src'[p + i]
      <3>1. \A i \in 1..2 : i = 1 \/ i = 2
        OBVIOUS
      <3>2. QED
        BY <1>4, <2>3, <2>7, <2>8, <3>1 DEF cl, dl
    <2>10. QED
      BY <1>10, <1>13, <2>7, <2>8, <2>9
  <1>14. QED
    BY <1>7, <1>11, <1>12, <1>13 DEF ReadsOn, Pushed

\* The array is filled with a character of the file.
LEMMA FillCharReads ==
  ASSUME ScanInv, ReadsSource, NEW chr \in Chars, chr # EOF, Fill(chr), CharStep(chr),
         pc' = pc
  PROVE  ReadsSource'
  <1>1. src \in Seq(Chars) /\ Len(src) \in Nat /\ pc \in Reading /\ idbuf' = idbuf
    BY UnreadType DEF Fill, locals
  <1>2. SUFFICES ASSUME NoSlashQuote(src')
                 PROVE  /\ Reads(src', state') /\ InnerClass(state', cclass')
                        /\ \E p \in 0..Len(src') : ScannedTo(p)'
    BY DEF ReadsSource
  <1>3. state # "S_EOF"
    BY CharStepPushes DEF ScanInv
  <1>4. Grown(src, src') /\ Len(src') = Len(src) + 1
    BY <1>1, <1>3 DEF Fill, Grown
  <1>5. NoSlashQuote(src)
    BY <1>2, <1>4, SlashQuoteStays, GrownExtends
  <1>6. PICK p \in 0..Len(src) : ScannedTo(p)
    BY <1>5 DEF ReadsSource
  <1>7. /\ Reads(src, state) /\ At(p)
        /\ Reads(src', state') /\ InnerClass(state', cclass') /\ At(p)'
    BY <1>2, <1>6, FillCharAt DEF ScannedTo
  <1>8. p \in 0..Len(src') /\ p \in Nat /\ (p < Len(src) \/ ~Holds)
    <2>1. Unread = 0
      BY DEF Fill, Unread, Marked
    <2>2. QED
      BY <1>1, <1>3, <1>4, <1>6, <1>7, <2>1 DEF At
  <1>9. ASSUME NEW k \in 1..p
        PROVE  src'[k] = src[k] /\ (k \in Code(src') <=> k \in Code(src))
    <2>1. k \in 1..Len(src) /\ k \in 1..Len(src') /\ (k < Len(src) \/ ~Holds)
      BY <1>1, <1>4, <1>6, <1>8
    <2>2. ClassOf(src')[k] = ClassOf(src)[k]
      BY <1>4, <1>7, <2>1, Settled, GrownExtends DEF Holds
    <2>3. QED
      BY <1>4, <2>1, <2>2 DEF Code, Grown
  <1>10. pc' = "ident" => \E b, e \in Code(src') : RunAt(b, e, p)'
    <2>1. SUFFICES ASSUME pc = "ident" PROVE \E b, e \in Code(src') : RunAt(b, e, p)'
      OBVIOUS
    <2>2. PICK b, e \in Code(src) : RunAt(b, e, p)
      BY <1>6, <2>1 DEF ScannedTo
    <2>3. Len(src') \in Nat
      BY <1>1, <1>4
    <2>4. b \in Code(src') /\ e \in Code(src') /\ RunAt(b, e, p)'
      BY <1>1, <1>8, <1>9, <2>2, <2>3, RunStays
    <2>5. QED
      BY <2>4
  <1>11. pc' # "word"
    BY <1>1 DEF Reading
  <1>12. QED
    BY <1>7, <1>8, <1>10, <1>11 DEF ScannedTo

\* The code of a text is finite.
LEMMA CodeFinite ==
  ASSUME NEW s, Len(s) \in Nat, NEW T, T \subseteq Code(s)
  PROVE  IsFiniteSet(T) /\ T \subseteq Nat
  <1>1. T \subseteq 1..Len(s)
    BY DEF Code
  <1>2. IsFiniteSet(1..Len(s))
    BY FS_Interval
  <1>3. IsFiniteSet(T)
    BY <1>1, <1>2, FS_Subset
  <1>4. QED
    BY <1>1, <1>3

\* An identifier starts.
LEMMA RunStarts ==
  ASSUME Len(src) \in Nat, src' = src, NEW r \in Code(src), is_identifier(src[r]),
         Len(idbuf') = 1
  PROVE  RunAt(r, r, r)'
  <1>1. r \in Nat /\ \A k \in Code(src) : k \in Nat
    BY DEF Code
  <1>2. {k \in Code(src) : r <= k /\ k <= r} = {r}
    <2>1. \A k \in Code(src) : r <= k /\ k <= r => k = r
      BY <1>1
    <2>2. r <= r
      BY <1>1
    <2>3. QED
      BY <2>1, <2>2
  <1>3. Cardinality({r}) = 1
    BY FS_Singleton
  <1>4. NoCode(src, r + 1, r)
    BY <1>1 DEF NoCode
  <1>5. \A k \in Code(src) : r <= k /\ k <= r => is_identifier(src[k])
    <2>1. \A k \in Code(src) : r <= k /\ k <= r => k = r
      BY <1>1
    <2>2. QED
      BY <2>1
  <1>6. Cardinality({k \in Code(src) : r <= k /\ k <= r}) = Len(idbuf')
    BY <1>2, <1>3
  <1>7. QED
    BY <1>1, <1>4, <1>5, <1>6 DEF RunAt

\* An identifier goes on with the next character of code.
LEMMA RunGrows ==
  ASSUME Len(src) \in Nat, src' = src, NEW p \in Nat, NEW r \in Code(src), r > p,
         NoCode(src, p + 1, r - 1), is_identifier(src[r]),
         Len(idbuf) \in Nat, Len(idbuf') = Len(idbuf) + 1,
         NEW b \in Code(src), NEW e \in Code(src), RunAt(b, e, p)
  PROVE  RunAt(b, r, r)'
  <1> DEFINE Old == {k \in Code(src) : b <= k /\ k <= e}
             New == {k \in Code(src) : b <= k /\ k <= r}
  <1>1. /\ \A k \in Code(src) : k \in Nat
        /\ b \in Nat /\ e \in Nat /\ r \in Nat /\ b <= e /\ e <= p
    BY DEF RunAt, Code
  <1>2. \A k \in Code(src) : b <= k /\ k <= r => k <= e \/ k = r
    <2>1. SUFFICES ASSUME NEW k \in Code(src), k <= r, ~(k <= e), k # r PROVE FALSE
      OBVIOUS
    <2>2. k \in (e + 1)..p \/ k \in (p + 1)..(r - 1)
      BY <1>1, <2>1
    <2>3. NoCode(src, e + 1, p)
      BY DEF RunAt
    <2>4. QED
      BY <2>2, <2>3 DEF NoCode
  <1>3. New = Old \cup {r} /\ r \notin Old
    <2>1. \A k : k \in New <=> k \in Old \/ k = r
      <3>1. \A k \in Code(src) : k <= e => k <= r
        BY <1>1
      <3>2. b <= r /\ r <= r
        BY <1>1
      <3>3. QED
        BY <1>2, <3>1, <3>2
    <2>2. ~(r <= e)
      BY <1>1
    <2>3. r \notin Old
      BY <2>2
    <2> HIDE DEF New, Old
    <2>4. QED
      BY <2>1, <2>3
  <1>4. IsFiniteSet(Old)
    BY CodeFinite
  <1>5. Cardinality(Old) = Len(idbuf)
    BY DEF RunAt
  <1>6. \A k \in Old : is_identifier(src[k])
    BY DEF RunAt
  <1> HIDE DEF Old
  <1>7. Cardinality(New) = Len(idbuf')
    <2>1. Cardinality(Old \cup {r}) = Cardinality(Old) + 1
      BY <1>3, <1>4, FS_AddElement
    <2> HIDE DEF New
    <2>2. QED
      BY <1>3, <1>5, <2>1
  <1>8. \A k \in Code(src) : b <= k /\ k <= r => is_identifier(src[k])
    <2>1. \A k \in New : is_identifier(src[k])
      <3> HIDE DEF New
      <3>1. QED
        BY <1>3, <1>6
    <2>2. QED
      BY <2>1
  <1>9. NoCode(src, r + 1, r)
    BY <1>1 DEF NoCode
  <1>10. b <= r /\ r <= r
    BY <1>1
  <1>11. QED
    BY <1>7, <1>8, <1>9, <1>10 DEF RunAt

\* Comments and literals are passed.
LEMMA RunWaits ==
  ASSUME Len(src) \in Nat, src' = src, idbuf' = idbuf, NEW p \in Nat, NEW r \in Nat,
         p <= r, NoCode(src, p + 1, r),
         NEW b \in Code(src), NEW e \in Code(src), RunAt(b, e, p)
  PROVE  RunAt(b, e, r)'
  <1>1. e \in Nat /\ e <= p /\ NoCode(src, e + 1, p)
    BY DEF RunAt, Code
  <1>2. NoCode(src, e + 1, r)
    <2>1. \A k \in (e + 1)..r : k \in (e + 1)..p \/ k \in (p + 1)..r
      BY <1>1
    <2>2. QED
      BY <1>1, <2>1 DEF NoCode
  <1>3. e <= r
    BY <1>1
  <1>4. QED
    BY <1>2, <1>3 DEF RunAt

\* An identifier that fills idbuf is in the text.
LEMMA RunTooLong ==
  ASSUME NEW p, NEW b \in Code(src), NEW e \in Code(src), RunAt(b, e, p), Overruns(idbuf)
  PROVE  TooLong(Layout(src))
  <1> DEFINE t == Layout(src)
             between == {n \in t.code : b <= n /\ n <= e}
  <1>1. t.code = Code(src) /\ t.s = src
    BY LayoutIs
  <1> HIDE DEF t
  <1>2. Cardinality(between) >= IdBufSize
    <2>1. between = {n \in Code(src) : b <= n /\ n <= e}
      BY <1>1
    <2>2. Cardinality(between) = Len(idbuf)
      BY <2>1 DEF RunAt
    <2>3. QED
      BY <2>2 DEF Overruns
  <1>3. \A n \in between : is_identifier(t.s[n])
    BY <1>1 DEF RunAt
  <1>4. b \in t.code /\ e \in t.code
    BY <1>1
  <1>5. TooLong(t)
    BY <1>2, <1>3, <1>4 DEF TooLong
  <1>6. QED
    BY <1>5 DEF t

\* An array without code is emptied: the scan is at the end of what libcf
\* has given.
LEMMA SkipAt ==
  ASSUME ScanInv, SkipNonCode, NEW p \in 0..Len(src), At(p)
  PROVE  \E r \in 0..Len(src) : r = p + Unread /\ At(r)' /\ NoCode(src, p + 1, r)
  <1>1. /\ ccv' = <<>> /\ CodeAt = {} /\ ccv # <<>> /\ UNCHANGED <<state, src>>
    BY DEF SkipNonCode
  <1>2. Len(ccv) \in Nat /\ Unread \in Nat /\ Len(src) \in Nat /\ ccv \in Seq(SuperChar)
    BY UnreadType
  <1>3. ~Marked
    <2>1. SUFFICES ASSUME Marked PROVE Len(ccv) \in CodeAt
      BY <1>1
    <2>2. Len(ccv) \in 1..Len(ccv)
      BY <1>1, <1>2
    <2>3. QED
      BY <2>1, <2>2 DEF Marked, CodeAt, IsCode
  <1>4. ~Marked' /\ Unread' = 0
    BY <1>1 DEF Marked, Unread
  <1>5. PICK r \in 0..Len(src) : r = p + Unread
    BY <1>2 DEF At
  <1>6. r \in Nat /\ p \in Nat /\ p <= r /\ r + 0 = r
    BY <1>2, <1>5
  <1>7. At(r)'
    <2>1. /\ r \in {Len(src) - 1, Len(src)}
          /\ r # Len(src) => src[Len(src)] = Slash
          /\ state # "S_EOF" => (Holds <=> r # Len(src))
      BY <1>5 DEF At
    <2>2. QED
      BY <1>1, <1>4, <1>6, <2>1 DEF At, Holds
  <1>8. NoCode(src, p + 1, r)
    <2>1. SUFFICES ASSUME NEW j \in (p + 1)..r PROVE j \notin Code(src)
      BY DEF NoCode
    <2> DEFINE i == j - p
    <2>2. i \in 1..Unread /\ p + i = j
      BY <1>2, <1>5, <1>6
    <2> HIDE DEF i
    <2>3. QED
      BY <1>1, <2>2, CodeInArray
  <1>9. QED
    BY <1>5, <1>7, <1>8

\* cf_ungetc takes the scan one character back.
LEMMA UngotAt ==
  ASSUME ScanInv, NEW p \in 1..Len(src), At(p), src[p] = c,
         ClassOf(src)[p] = "CC_CODE", UNCHANGED <<state, src>>,
         ccv' = <<[chr |-> c, ccl |-> "CC_CODE"]>> \o ccv, NEW r, r = p - 1
  PROVE  At(r)'
  <1> DEFINE sc == [chr |-> c, ccl |-> "CC_CODE"]
  <1>1. /\ ccv \in Seq(SuperChar) /\ Len(ccv) \in Nat /\ Unread \in Nat
        /\ src \in Seq(Chars) /\ Len(src) \in Nat /\ Unread <= Len(ccv)
    BY UnreadType
  <1>2. sc \in SuperChar
    BY <1>1 DEF SuperChar, CClass
  <1>3. sc.ccl # "CC_EOF"
    OBVIOUS
  <1>4. ccv' = <<sc>> \o ccv
    OBVIOUS
  <1>5. sc = [chr |-> src[p], ccl |-> ClassOf(src)[p]]
    OBVIOUS
  <1> HIDE DEF sc
  <1>6. /\ ccv' \in Seq(SuperChar) /\ Len(ccv') = Len(ccv) + 1 /\ ccv'[1] = sc
        /\ \A i \in 1..Len(ccv) : ccv'[i + 1] = ccv[i]
    BY <1>1, <1>2, <1>4
  <1>7. Marked' <=> Marked
    <2>1. ccv' # <<>>
      BY <1>1, <1>6
    <2>2. CASE Len(ccv) = 0
      <3>1. ~Marked /\ ccv'[Len(ccv')] = sc
        BY <1>1, <1>6, <2>2 DEF Marked
      <3>2. QED
        BY <1>3, <3>1 DEF Marked
    <2>3. CASE Len(ccv) # 0
      <3>1. ccv # <<>> /\ Len(ccv) \in 1..Len(ccv)
        BY <1>1, <2>3
      <3>2. ccv'[Len(ccv')] = ccv[Len(ccv)]
        BY <1>6, <3>1
      <3>3. QED
        BY <2>1, <3>1, <3>2 DEF Marked
    <2>4. QED
      BY <2>2, <2>3
  <1>8. Unread' = Unread + 1
    <2>1. CASE Marked
      <3>1. Unread = Len(ccv) - 1 /\ Unread' = Len(ccv') - 1
        BY <1>7, <2>1 DEF Unread
      <3>2. QED
        BY <1>1, <1>6, <3>1
    <2>2. CASE ~Marked
      <3>1. Unread = Len(ccv) /\ Unread' = Len(ccv')
        BY <1>7, <2>2 DEF Unread
      <3>2. QED
        BY <1>1, <1>6, <3>1
    <2>3. QED
      BY <2>1, <2>2
  <1>9. r \in 0..Len(src) /\ r + Unread' = p + Unread
    BY <1>1, <1>8
  <1>10. /\ p + Unread \in {Len(src) - 1, Len(src)}
         /\ p + Unread # Len(src) => src[Len(src)] = Slash
         /\ state # "S_EOF" => ~Marked /\ (Holds <=> p + Unread # Len(src))
    BY DEF At
  <1>11. ASSUME NEW i \in 1..Unread'
         PROVE  ccv'[i] = [chr |-> src[r + i], ccl |-> ClassOf(src)[r + i]]
    <2>1. CASE i = 1
      <3>1. r + 1 = p
        BY <1>1
      <3>2. QED
        BY <1>5, <1>6, <2>1, <3>1
    <2>2. CASE i # 1
      <3> DEFINE j == i - 1
      <3>1. j \in 1..Unread /\ j \in 1..Len(ccv) /\ j + 1 = i /\ p + j = r + i
        BY <1>1, <1>8, <2>2
      <3> HIDE DEF j
      <3>2. ccv'[i] = ccv[j]
        BY <1>6, <3>1
      <3>3. ccv[j] = [chr |-> src[p + j], ccl |-> ClassOf(src)[p + j]]
        BY <3>1 DEF At
      <3>4. QED
        BY <3>1, <3>2, <3>3
    <2>3. QED
      BY <2>1, <2>2
  <1>12. /\ r + Unread' \in {Len(src') - 1, Len(src')}
         /\ r + Unread' # Len(src') => src'[Len(src')] = Slash
    BY <1>9, <1>10
  <1>13. state' # "S_EOF" => ~Marked' /\ (Holds' <=> r + Unread' # Len(src'))
    BY <1>7, <1>9, <1>10 DEF Holds
  <1>14. QED
    BY <1>9, <1>11, <1>12, <1>13 DEF At

\* Every step keeps the place of the scan in the text.
LEMMA CauseNext == CauseInv /\ [Next]_vars => CauseInv'
  <1> SUFFICES ASSUME CauseInv, [Next]_vars PROVE CauseInv'
    OBVIOUS
  <1>1. ScanInv /\ ScanInv' /\ ReadsSource /\ UndefinedHasCause
    BY ScanNext DEF CauseInv
  <1>2. /\ src \in Seq(Chars) /\ Len(src) \in Nat /\ ccv \in Seq(SuperChar)
        /\ Len(ccv) \in Nat /\ Unread \in Nat /\ Len(idbuf) \in Nat
    BY <1>1, UnreadType DEF ScanInv, TypeOK
  <1>3. ASSUME NEW chr \in Chars \cup {EOF}, Fill(chr) PROVE CauseInv'
    <2>1. pc' = pc /\ pc \in Reading
      BY <1>1, <1>3 DEF Fill, ScanInv, NeverExits
    <2>2. ReadsSource'
      <3>1. CASE cf_eof(chr)
        BY <1>1, <1>3, <2>1, <3>1, FillEndReads
      <3>2. CASE chr # EOF /\ CharStep(chr)
        BY <1>1, <1>3, <2>1, <3>2, FillCharReads
      <3>3. QED
        BY <1>3, <3>1, <3>2, NextCases DEF Fill
    <2>3. pc' # "undefined"
      BY <2>1 DEF Reading
    <2>4. QED
      BY <1>1, <2>2, <2>3 DEF CauseInv, UndefinedHasCause
  <1>4. CASE FillChar
    BY <1>3, <1>4, ScannerChars DEF FillChar
  <1>5. CASE FillEOF
    BY <1>3, <1>5 DEF FillEOF
  \* The other steps read nothing from the file: it is enough to find the
  \* new place in the text.
  <1>6. ASSUME UNCHANGED <<state, cclass, src>>,
               ASSUME NEW p \in 0..Len(src), NoSlashQuote(src), ScannedTo(p)
               PROVE  \E r \in 0..Len(src) : ScannedTo(r)'
        PROVE  ReadsSource'
    BY <1>1, <1>6 DEF ReadsSource
  <1>7. CASE SkipNonCode
    <2>1. pc' = pc /\ pc \in Reading /\ UNCHANGED <<state, cclass, src, idbuf>>
      BY <1>7 DEF SkipNonCode, locals
    <2>2. ASSUME NEW p \in 0..Len(src), ScannedTo(p)
          PROVE  \E r \in 0..Len(src) : ScannedTo(r)'
      <3>1. PICK r \in 0..Len(src) : r = p + Unread /\ At(r)' /\ NoCode(src, p + 1, r)
        BY <1>1, <1>7, <2>2, SkipAt DEF ScannedTo
      <3>2. r \in Nat /\ p \in Nat /\ p <= r
        BY <1>2, <3>1
      <3>3. pc' = "ident" => \E b, e \in Code(src') : RunAt(b, e, r)'
        <4>1. SUFFICES ASSUME pc = "ident" PROVE \E b, e \in Code(src') : RunAt(b, e, r)'
          BY <2>1
        <4>2. PICK b, e \in Code(src) : RunAt(b, e, p)
          BY <2>2, <4>1 DEF ScannedTo
        <4>3. RunAt(b, e, r)'
          BY <1>2, <2>1, <3>1, <3>2, <4>2, RunWaits
        <4>4. QED
          BY <2>1, <4>3
      <3>4. pc' # "word"
        BY <2>1 DEF Reading
      <3>5. QED
        BY <3>1, <3>3, <3>4 DEF ScannedTo
    <2>3. ReadsSource'
      BY <1>6, <2>1, <2>2
    <2>4. pc' # "undefined"
      BY <2>1 DEF Reading
    <2>5. QED
      BY <1>1, <2>3, <2>4 DEF CauseInv, UndefinedHasCause
  \* The four places that take a character.
  <1>8. ASSUME NEW chr, cf_getc(chr),
               ASSUME NEW p \in 0..Len(src), NEW r \in p..Len(src),
                      ScannedTo(p), Got(chr, p, r), src' = src
               PROVE  /\ pc' = "ident" => \E b, e \in Code(src) : RunAt(b, e, r)'
                      /\ pc' = "word" /\ is_identifier_start(c') =>
                            r \in Code(src) /\ src[r] = c'
        PROVE  ReadsSource'
    <2>1. UNCHANGED <<state, cclass, src>>
      BY <1>8 DEF cf_getc
    <2>2. ASSUME NEW p \in 0..Len(src), ScannedTo(p)
          PROVE  \E r \in 0..Len(src) : ScannedTo(r)'
      <3>1. PICK r \in p..Len(src) : Got(chr, p, r)
        BY <1>1, <1>8, <2>2, GetcAt DEF ScannedTo
      <3>2. r \in 0..Len(src)
        BY <1>2
      <3>3. At(r)'
        BY <3>1 DEF Got
      <3>4. /\ pc' = "ident" => \E b, e \in Code(src) : RunAt(b, e, r)'
            /\ pc' = "word" /\ is_identifier_start(c') => r \in Code(src) /\ src[r] = c'
        BY <1>8, <2>1, <2>2, <3>1
      <3>5. ScannedTo(r)'
        BY <2>1, <3>3, <3>4 DEF ScannedTo
      <3>6. QED
        BY <3>2, <3>5
    <2>3. QED
      BY <1>6, <2>1, <2>2
  <1>9. ASSUME NEW chr, is_identifier_start(chr) \/ is_identifier(chr)
        PROVE  chr # EOF /\ is_identifier(chr)
    BY <1>9, ScannerChars, EOFNotChar DEF is_identifier_start, is_identifier
  <1>10. CASE MainChar
    <2>1. PICK chr \in Chars \cup {EOF} : MainChar!2!(chr)
      BY <1>10 DEF MainChar
    <2>2. cf_getc(chr) /\ pc' \in {"done", "ident", "main"}
      BY <2>1
    <2>3. pc' = "ident" => is_identifier_start(chr) /\ idbuf' = <<chr>>
      BY <2>1, Zenon
    <2>4. ReadsSource'
      <3>1. ASSUME NEW p \in 0..Len(src), NEW r \in p..Len(src), Got(chr, p, r),
                   src' = src, pc' = "ident"
            PROVE  \E b, e \in Code(src) : RunAt(b, e, r)'
        <4>1. chr # EOF /\ is_identifier(chr)
          BY <1>9, <2>3, <3>1
        <4>2. r \in Code(src) /\ is_identifier(src[r])
          BY <3>1, <4>1 DEF Got
        <4>3. Len(idbuf') = 1
          BY <2>3, <3>1
        <4>4. RunAt(r, r, r)'
          BY <1>2, <3>1, <4>2, <4>3, RunStarts
        <4>5. QED
          BY <4>2, <4>4
      <3>2. pc' # "word"
        BY <2>2
      <3>3. QED
        BY <1>8, <2>2, <3>1, <3>2
    <2>5. QED
      BY <1>1, <2>2, <2>4 DEF CauseInv, UndefinedHasCause
  <1>11. CASE IdentChar
    <2>1. PICK chr \in Chars \cup {EOF} : IdentChar!2!(chr)
      BY <1>11 DEF IdentChar
    <2>2. /\ cf_getc(chr) /\ c' = chr /\ pc = "ident" /\ src' = src
          /\ pc' \in {"ident", "space", "word", "undefined"}
      BY <1>11, <2>1 DEF IdentChar, cf_getc
    <2>3. /\ pc' = "ident" => is_identifier(chr) /\ idbuf' = Append(idbuf, chr)
          /\ pc' = "undefined" => Overruns(idbuf)
      BY <2>1, <2>2
    <2>4. ASSUME NEW p \in 0..Len(src), NEW r \in p..Len(src),
                 ScannedTo(p), Got(chr, p, r)
          PROVE  /\ pc' = "ident" => \E b, e \in Code(src) : RunAt(b, e, r)'
                 /\ pc' = "word" /\ is_identifier_start(c') => r \in Code(src) /\ src[r] = c'
      <3>1. ASSUME pc' = "ident" PROVE \E b, e \in Code(src) : RunAt(b, e, r)'
        <4>1. PICK b, e \in Code(src) : RunAt(b, e, p)
          BY <2>2, <2>4 DEF ScannedTo
        <4>2. chr # EOF /\ is_identifier(chr)
          BY <1>9, <2>3, <3>1
        <4>3. /\ r \in Code(src) /\ is_identifier(src[r]) /\ r > p
              /\ NoCode(src, p + 1, r - 1)
          BY <2>4, <4>2 DEF Got
        <4>4. Len(idbuf') = Len(idbuf) + 1
          <5>1. idbuf \in Seq(Letters \cup Digits)
            BY <1>1 DEF ScanInv, TypeOK
          <5>2. chr \in Letters \cup Digits
            BY <4>2 DEF is_identifier
          <5>3. QED
            BY <2>3, <3>1, <5>1, <5>2
        <4>5. p \in Nat
          BY <1>2
        <4>6. RunAt(b, r, r)'
          BY <1>2, <2>2, <4>1, <4>3, <4>4, <4>5, RunGrows
        <4>7. QED
          BY <4>3, <4>6
      <3>2. ASSUME is_identifier_start(c') PROVE r \in Code(src) /\ src[r] = c'
        BY <1>9, <2>2, <2>4, <3>2 DEF Got
      <3>3. QED
        BY <3>1, <3>2
    <2>5. ReadsSource'
      BY <1>8, <2>2, <2>4
    <2>6. UndefinedHasCause'
      <3>1. SUFFICES ASSUME pc' = "undefined", NoSlashQuote(src)
                     PROVE  TooLong(Layout(src))
        BY <2>2 DEF UndefinedHasCause
      <3>2. PICK p \in 0..Len(src) : ScannedTo(p)
        BY <1>1, <3>1 DEF ReadsSource
      <3>3. PICK b, e \in Code(src) : RunAt(b, e, p)
        BY <2>2, <3>2 DEF ScannedTo
      <3>4. QED
        BY <2>3, <3>1, <3>3, RunTooLong
    <2>7. QED
      BY <1>1, <2>5, <2>6 DEF CauseInv
  <1>12. CASE SpaceChar
    <2>1. PICK chr \in Chars \cup {EOF} : SpaceChar!2!(chr)
      BY <1>12 DEF SpaceChar
    <2>2. cf_getc(chr) /\ c' = chr /\ pc' \in {"space", "word"}
      BY <2>1
    <2>3. ASSUME NEW p \in 0..Len(src), NEW r \in p..Len(src), Got(chr, p, r),
                 is_identifier_start(c')
          PROVE  r \in Code(src) /\ src[r] = c'
      BY <1>9, <2>2, <2>3 DEF Got
    <2>4. ReadsSource'
      BY <1>8, <2>2, <2>3
    <2>5. QED
      BY <1>1, <2>2, <2>4 DEF CauseInv, UndefinedHasCause
  <1>13. CASE IncludeChar
    <2>1. PICK chr \in Chars \cup {EOF} : IncludeChar!2!(chr)
      BY <1>13 DEF IncludeChar
    <2>2. cf_getc(chr) /\ pc' \in {"lookup", "done", "include"}
      BY <2>1 DEF AfterSkipped
    <2>3. ReadsSource'
      BY <1>8, <2>2
    <2>4. QED
      BY <1>1, <2>2, <2>3 DEF CauseInv, UndefinedHasCause
  <1>14. CASE WordEnd
    <2>1. /\ pc = "word" /\ Len(ccv) <= 1 /\ UNCHANGED <<state, cclass, src, c>>
      BY <1>1, <1>14 DEF WordEnd, ScanInv, RoomToUnget
    <2>2. pc' \in {"include", "lookup"}
      BY <1>14, <2>1 DEF WordEnd, cf_ungetc, AfterWord, NLOOKAHEAD
    <2>3. ASSUME NEW p \in 0..Len(src), ScannedTo(p)
          PROVE  \E r \in 0..Len(src) : ScannedTo(r)'
      <3>1. At(p)
        BY <2>3 DEF ScannedTo
      <3>2. CASE ccv' = ccv
        <4>1. Marked' = Marked /\ Unread' = Unread
          BY <3>2 DEF Marked, Unread
        <4>2. At(p)'
          BY <2>1, <3>1, <3>2, <4>1 DEF At, Holds
        <4>3. QED
          BY <2>2, <4>2 DEF ScannedTo
      <3>3. CASE is_identifier_start(c)
        <4>1. p \in Code(src) /\ src[p] = c
          BY <2>1, <2>3, <3>3 DEF ScannedTo
        <4>2. p \in 1..Len(src) /\ ClassOf(src)[p] = "CC_CODE"
          BY <4>1 DEF Code
        <4>3. ccv' = <<[chr |-> c, ccl |-> "CC_CODE"]>> \o ccv
          BY <1>14, <2>1, <3>3 DEF WordEnd, cf_ungetc, NLOOKAHEAD
        <4>4. PICK r \in 0..Len(src) : r = p - 1
          BY <1>2, <4>2
        <4>5. At(r)'
          BY <1>1, <1>2, <2>1, <3>1, <4>1, <4>2, <4>3, <4>4, UngotAt
        <4>6. QED
          BY <2>2, <4>5 DEF ScannedTo
      <3>4. QED
        BY <1>14, <3>2, <3>3 DEF WordEnd
    <2>4. ReadsSource'
      BY <1>6, <2>1, <2>3
    <2>5. QED
      BY <1>1, <2>2, <2>4 DEF CauseInv, UndefinedHasCause
  <1>15. ASSUME UNCHANGED <<state, cclass, src, ccv, idbuf, c>>,
                pc' = pc \/ pc' \in {"main", "done", "undefined"}
         PROVE  ReadsSource'
    <2>1. ASSUME NEW p \in 0..Len(src), ScannedTo(p) PROVE ScannedTo(p)'
      <3>1. Marked' = Marked /\ Unread' = Unread
        BY <1>15 DEF Marked, Unread
      <3>2. At(p)'
        BY <1>15, <2>1, <3>1 DEF ScannedTo, At, Holds
      <3>3. pc' = "ident" => \E b, e \in Code(src') : RunAt(b, e, p)'
        BY <1>15, <2>1 DEF ScannedTo, RunAt
      <3>4. QED
        BY <1>15, <2>1, <3>2, <3>3 DEF ScannedTo
    <2>2. QED
      BY <1>6, <1>15, <2>1
  <1>16. CASE Lookup
    <2>1. /\ UNCHANGED <<state, cclass, src, ccv, idbuf, c>>
          /\ pc' \in {"main", "done", "undefined"}
          /\ pc' = "undefined" => LooksUpDeclaration
      BY <1>16 DEF Lookup
    <2>2. UndefinedHasCause'
      BY <2>1 DEF UndefinedHasCause, LooksUpDeclaration, id_find
    <2>3. QED
      BY <1>1, <1>15, <2>1, <2>2 DEF CauseInv
  <1>17. CASE UNCHANGED vars
    <2>1. UNCHANGED <<state, cclass, src, ccv, idbuf, c>> /\ pc' = pc
      BY <1>17 DEF vars
    <2>2. UndefinedHasCause'
      BY <1>1, <2>1 DEF UndefinedHasCause
    <2>3. QED
      BY <1>1, <1>15, <2>1, <2>2 DEF CauseInv
  <1>18. QED
    BY <1>4, <1>5, <1>7, <1>10, <1>11, <1>12, <1>13, <1>14, <1>16, <1>17 DEF Next

\* The scan leaves its arrays only with an identifier that the text has and
\* that fills idbuf, or at the declaration of a type: whatever the sizes, the
\* table and the text, in which no division sign has a quote right behind it.
THEOREM ScanUndefinedHasCause == Spec => []UndefinedHasCause
  <1>1. CauseInv => UndefinedHasCause
    BY DEF CauseInv
  <1>2. QED
    BY <1>1, CauseInit, CauseNext, PTL DEF Spec
============================================================================
