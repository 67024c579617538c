--------------------------- MODULE CFilterProofs ---------------------------
(***************************************************************************)
(* What one call of cf_next preserves and bounds, for every character and *)
(* every set of other characters; and that it reads a text as CTokens cuts *)
(* it into tokens.                                                         *)
(***************************************************************************)
EXTENDS CTokens, WellFoundedInduction, TLAPS

\* The classes a character of the text can have.
TextClass == {"CC_CODE", "CC_OUTER_STRING", "CC_INNER_STRING", "CC_OUTER_CHAR",
              "CC_INNER_CHAR", "CC_OUTER_COMMENT", "CC_INNER_COMMENT"}

\* The invariant of the state machine.  Inside a character literal the class
\* of the next character is CC_INNER_CHAR, which is what the code checks
\* before it abort()s.
CFInv ==
    /\ CFilterTypeOK
    /\ cclass \in TextClass
    /\ err = "0"
    /\ rv \in {"0", "EOF"}
    /\ state \in {"S_START_SQUOTE", "S_SQUOTE_ESCAPE"} => cclass = "CC_INNER_CHAR"

\* EOF is not a character.
LEMMA EOFNotChar == EOF \notin Chars
  BY OtherCharsAssumption
     DEF EOF, Chars, Special, Quotes, DQuote, SQuote, Slash, Star, Backslash,
         Newline, Nul

\* The classes of text are classes, and CC_EOF is not one of them.
LEMMA TextClasses == TextClass \subseteq CClass /\ "CC_EOF" \notin TextClass
  BY DEF TextClass, CClass

\* A push keeps an array of super-characters one, and within its capacity;
\* it adds one element at most.
LEMMA PushType ==
  ASSUME NEW v \in Seq(SuperChar), Len(v) <= NLOOKAHEAD,
         NEW chr \in Chars, NEW ccl \in CClass
  PROVE  /\ ccv_push(v, chr, ccl) \in Seq(SuperChar)
         /\ Len(ccv_push(v, chr, ccl)) <= NLOOKAHEAD
         /\ Len(ccv_push(v, chr, ccl)) <= Len(v) + 1
  <1>1. [chr |-> chr, ccl |-> ccl] \in SuperChar
    BY DEF SuperChar
  <1>2. CASE Len(v) >= NLOOKAHEAD
    BY <1>2 DEF ccv_push, NLOOKAHEAD
  <1>3. CASE ~(Len(v) >= NLOOKAHEAD)
    <2>1. ccv_push(v, chr, ccl) = Append(v, [chr |-> chr, ccl |-> ccl])
      BY <1>3 DEF ccv_push
    <2>2. QED
      BY <1>1, <1>3, <2>1 DEF NLOOKAHEAD
  <1>4. QED
    BY <1>2, <1>3

\* The steps of the machine on a character, S_EOF aside.
CharStep(chr) ==
    \/ InStart(chr) \/ InDquote(chr) \/ InDquoteEscape(chr) \/ InSquote(chr)
    \/ InSquoteEscape(chr) \/ InStartSlash(chr) \/ InSlashStar(chr)
    \/ InSlashStarStar(chr) \/ InCommentEol(chr)

\* The machine holds back a '/' that may start a comment.
Holds == state = "S_START_SLASH"

\* On a character the machine pushes one super-character, unless the
\* character is a '/' that it holds back or the one behind such a '/', which
\* both go out together.
LEMMA CharStepPushes ==
  ASSUME CFInv, NEW chr \in Chars, CharStep(chr)
  PROVE  /\ state # "S_EOF" /\ state' # "S_EOF"
         /\ \/ ~Holds /\ Holds' /\ chr = Slash /\ ccv' = ccv
            \/ ~Holds /\ ~Holds' /\ \E ccl \in TextClass : ccv' = ccv_push(ccv, chr, ccl)
            \/ Holds /\ ~Holds' /\ \E ccl \in TextClass :
                  ccv' = ccv_push(ccv_push(ccv, Slash, ccl), chr, ccl)
  <1>1. /\ cclass \in TextClass
        /\ state \in {"S_START_SQUOTE", "S_SQUOTE_ESCAPE"}
             => cclass = "CC_INNER_CHAR"
    BY DEF CFInv
  <1>2. "CC_CODE" \in TextClass /\ "CC_OUTER_STRING" \in TextClass
        /\ "CC_OUTER_CHAR" \in TextClass /\ "CC_OUTER_COMMENT" \in TextClass
    BY DEF TextClass
  <1>3. CASE InStart(chr)
    BY <1>2, <1>3 DEF InStart, Emit, Goto, Holds
  <1>4. CASE InDquote(chr) \/ InDquoteEscape(chr)
    BY <1>1, <1>2, <1>4 DEF InDquote, InDquoteEscape, Emit, Goto, Holds
  <1>5. CASE InSquote(chr) \/ InSquoteEscape(chr)
    BY <1>1, <1>2, <1>5 DEF InSquote, InSquoteEscape, EndSquote, Emit, Goto, Holds
  <1>6. CASE InStartSlash(chr)
    BY <1>2, <1>6 DEF InStartSlash, EmitSlashAnd, Goto, Holds
  <1>7. CASE InSlashStar(chr) \/ InSlashStarStar(chr) \/ InCommentEol(chr)
    BY <1>1, <1>7 DEF InSlashStar, InSlashStarStar, InCommentEol, Emit, Goto, Holds
  <1>8. QED
    BY <1>3, <1>4, <1>5, <1>6, <1>7 DEF CharStep

\* Where the machine goes on a character: to one of its states, with a class
\* for the next character that fits the state, and without an error.
LEMMA CharStepControl ==
  ASSUME CFInv, NEW chr \in Chars, CharStep(chr)
  PROVE  /\ state' \in States
         /\ cclass' \in TextClass
         /\ err' = "0"
         /\ rv' = "0"
         /\ state' \in {"S_START_SQUOTE", "S_SQUOTE_ESCAPE"}
              => cclass' = "CC_INNER_CHAR"
  <1>1. /\ cclass \in TextClass
        /\ err = "0"
        /\ state \in {"S_START_SQUOTE", "S_SQUOTE_ESCAPE"}
             => cclass = "CC_INNER_CHAR"
    BY DEF CFInv
  <1>2. CASE InStart(chr)
    BY <1>1, <1>2 DEF InStart, Goto, States, TextClass
  <1>3. CASE InDquote(chr) \/ InDquoteEscape(chr)
    BY <1>1, <1>3 DEF InDquote, InDquoteEscape, Goto, States, TextClass
  <1>4. CASE InSquote(chr) \/ InSquoteEscape(chr)
    BY <1>1, <1>4 DEF InSquote, InSquoteEscape, EndSquote, Goto, States, TextClass
  <1>5. CASE InStartSlash(chr)
    BY <1>1, <1>5 DEF InStartSlash, Goto, States, TextClass
  <1>6. CASE InSlashStar(chr) \/ InSlashStarStar(chr) \/ InCommentEol(chr)
    BY <1>1, <1>6 DEF InSlashStar, InSlashStarStar, InCommentEol, Goto, States, TextClass
  <1>7. QED
    BY <1>2, <1>3, <1>4, <1>5, <1>6 DEF CharStep

\* At the end of the file the message about an open state is out of reach,
\* and at most one mark is pushed.
LEMMA EofStep ==
  ASSUME CFInv, NEW chr, cf_eof(chr)
  PROVE  /\ CFInv'
         /\ Len(ccv') <= Len(ccv) + 1
         /\ state' = "S_EOF"
  <1>1. ccv \in Seq(SuperChar) /\ Len(ccv) <= NLOOKAHEAD
    BY DEF CFInv, CFilterTypeOK
  <1>2. ccv_top \in SuperChar
    <2>1. [chr |-> Nul, ccl |-> "CC_CODE"] \in SuperChar
      BY DEF SuperChar, Chars, CClass
    <2>2. ccv # <<>> => ccv[Len(ccv)] \in SuperChar
      BY <1>1
    <2>3. QED
      BY <2>1, <2>2 DEF ccv_top
  <1>3. ~ReportsOpenState(ccv_top)
    BY <1>2, EOFNotChar DEF ReportsOpenState, SuperChar
  <1>4. err' = "0" /\ rv' = "EOF" /\ state' = "S_EOF" /\ cclass' = cclass
    BY <1>3 DEF cf_eof, MarkEnd, CFInv
  <1>5. Nul \in Chars /\ "CC_EOF" \in CClass
    BY DEF Chars, CClass
  <1>6. ccv' = ccv \/ ccv' = ccv_push(ccv, Nul, "CC_EOF")
    BY DEF cf_eof, MarkEnd
  <1>7. /\ ccv' \in Seq(SuperChar)
        /\ Len(ccv') <= NLOOKAHEAD
        /\ Len(ccv') <= Len(ccv) + 1
    <2>1. CASE ccv' = ccv
      BY <1>1, <2>1
    <2>2. CASE ccv' = ccv_push(ccv, Nul, "CC_EOF")
      BY <1>1, <1>5, <2>2, PushType
    <2>3. QED
      BY <1>6, <2>1, <2>2
  <1>8. QED
    BY <1>4, <1>7 DEF CFInv, CFilterTypeOK, States, ErrNo

\* A call of cf_next is a step of the machine on a character, or of the end.
LEMMA NextCases ==
  ASSUME NEW chr, cf_next(chr)
  PROVE  cf_eof(chr) \/ (chr # EOF /\ CharStep(chr))
  BY DEF cf_next, CharStep

\* One call of cf_next, whatever the character: the invariant is kept, so
\* the call neither aborts nor fails, and it adds two super-characters at
\* most ("Each call to cf_next() can return 0, 1, or 2 super-characters").
THEOREM CallPreserves ==
  ASSUME CFInv, NEW chr \in Chars \cup {EOF}, cf_next(chr)
  PROVE  CFInv' /\ Len(ccv') <= Len(ccv) + 2
  <1>1. CASE cf_eof(chr)
    <2>1. Len(ccv) \in Nat
      BY DEF CFInv, CFilterTypeOK
    <2>2. Len(ccv') \in Nat
      BY <1>1, EofStep DEF CFInv, CFilterTypeOK
    <2>3. QED
      BY <1>1, <2>1, <2>2, EofStep
  <1>2. CASE chr # EOF /\ CharStep(chr)
    <2>1. chr \in Chars
      BY <1>2
    <2>2. ccv \in Seq(SuperChar) /\ Len(ccv) <= NLOOKAHEAD /\ Len(ccv) \in Nat
      BY DEF CFInv, CFilterTypeOK
    <2>3. /\ ccv' \in Seq(SuperChar)
          /\ Len(ccv') <= NLOOKAHEAD
          /\ Len(ccv') <= Len(ccv) + 2
      <3>1. CASE ccv' = ccv
        BY <2>2, <3>1
      <3>2. CASE \E ccl \in TextClass : ccv' = ccv_push(ccv, chr, ccl)
        <4>1. PICK ccl \in CClass : ccv' = ccv_push(ccv, chr, ccl)
          BY <3>2, TextClasses
        <4>2. Len(ccv') \in Nat /\ Len(ccv') <= Len(ccv) + 1 /\ ccv' \in Seq(SuperChar)
          BY <2>1, <2>2, <4>1, PushType
        <4>3. QED
          BY <2>1, <2>2, <4>1, <4>2, PushType
      <3>3. CASE \E ccl \in TextClass :
                    ccv' = ccv_push(ccv_push(ccv, Slash, ccl), chr, ccl)
        <4>1. PICK ccl \in CClass :
                 ccv' = ccv_push(ccv_push(ccv, Slash, ccl), chr, ccl)
          BY <3>3, TextClasses
        <4>2. Slash \in Chars
          BY DEF Chars, Special
        <4> DEFINE v == ccv_push(ccv, Slash, ccl)
        <4>3. v \in Seq(SuperChar) /\ Len(v) <= NLOOKAHEAD /\ Len(v) <= Len(ccv) + 1
          BY <2>2, <4>2, PushType
        <4>4. /\ ccv' \in Seq(SuperChar)
              /\ Len(ccv') <= NLOOKAHEAD
              /\ Len(ccv') <= Len(v) + 1
          <5> HIDE DEF v
          <5> QED
            BY <2>1, <4>1, <4>3, PushType DEF v
        <4>5. Len(v) \in Nat /\ Len(ccv') \in Nat
          BY <4>3, <4>4
        <4> HIDE DEF v
        <4>6. QED
          BY <2>2, <4>3, <4>4, <4>5
      <3>4. QED
        BY <1>2, <2>1, <3>1, <3>2, <3>3, CharStepPushes
    <2>4. QED
      BY <1>2, <2>1, <2>3, CharStepControl, TextClasses DEF CFInv, CFilterTypeOK, ErrNo
  <1>3. QED
    BY <1>1, <1>2, NextCases

\* A fresh context satisfies the invariant.
LEMMA InitEstablishes ==
  ASSUME cf_init
  PROVE  CFInv
  BY DEF cf_init, CFInv, CFilterTypeOK, States, CClass, TextClass, ErrNo, NLOOKAHEAD

----------------------------------------------------------------------------
\* The smallest member of a set of numbers: what takes the place of induction
\* below, with the set of the counterexamples.
LEMMA NatMin ==
  ASSUME NEW T, T \subseteq Nat, T # {}
  PROVE  \E x \in T : \A y \in T : x <= y
  <1> DEFINE R == OpToRel(<, Nat)
  <1>1. IsWellFoundedOn(R, Nat)
    BY NatLessThanWellFounded
  <1>2. \A x, y \in Nat : x < y => <<x, y>> \in R
    BY DEF OpToRel
  <1> HIDE DEF R
  <1>3. \E x \in T : \A y \in T : ~ (<<y, x>> \in R)
    BY <1>1, WFMin
  <1>4. PICK x \in T : \A y \in T : ~ (<<y, x>> \in R)
    BY <1>3
  <1>5. ASSUME NEW y \in T PROVE x <= y
    <2>1. x \in Nat /\ y \in Nat
      OBVIOUS
    <2>2. ~(y < x)
      BY <1>2, <1>4, <2>1
    <2>3. QED
      BY <2>1, <2>2
  <1>6. QED
    BY <1>5

\* The special characters differ from one another.
LEMMA Distinct ==
  /\ DQuote # SQuote /\ DQuote # Slash /\ SQuote # Slash
  /\ DQuote # Backslash /\ SQuote # Backslash /\ Slash # Star /\ Slash # Backslash
  BY DEF DQuote, SQuote, Slash, Star, Backslash

\* The cases of Kind.
LEMMA KindCases ==
  ASSUME NEW s, NEW i
  PROVE  /\ s[i] = DQuote => Kind(s, i) = "string"
         /\ s[i] = SQuote => Kind(s, i) = "char"
         /\ s[i] = Slash /\ Follows(s, i, Star) => Kind(s, i) = "block"
         /\ s[i] = Slash /\ Follows(s, i, Slash) => Kind(s, i) = "line"
         /\ /\ s[i] \notin Quotes
            /\ ~(s[i] = Slash /\ Follows(s, i, Star))
            /\ ~(s[i] = Slash /\ Follows(s, i, Slash))
            => Kind(s, i) = "code"
  <1> DEFINE block == s[i] = Slash /\ Follows(s, i, Star)
             line == s[i] = Slash /\ Follows(s, i, Slash)
  <1>1. block /\ line => FALSE
    BY Distinct DEF Follows
  <1>2. Quotes = {DQuote, SQuote}
    BY DEF Quotes
  <1>3. Kind(s, i) = CASE s[i] = DQuote -> "string"
                       [] s[i] = SQuote -> "char"
                       [] block -> "block"
                       [] line -> "line"
                       [] OTHER -> "code"
    BY DEF Kind
  <1>4. s[i] = DQuote => ~(s[i] = SQuote) /\ ~block /\ ~line
    BY Distinct
  <1>5. s[i] = SQuote => ~(s[i] = DQuote) /\ ~block /\ ~line
    BY Distinct
  <1>6. block \/ line => ~(s[i] = SQuote) /\ ~(s[i] = DQuote)
    BY Distinct
  <1> HIDE DEF block, line
  <1>7. s[i] = DQuote => Kind(s, i) = "string"
    BY <1>3, <1>4, Zenon
  <1>8. s[i] = SQuote => Kind(s, i) = "char"
    BY <1>3, <1>5, Zenon
  <1>9. block => Kind(s, i) = "block"
    BY <1>1, <1>3, <1>6, Zenon
  <1>10. line => Kind(s, i) = "line"
    BY <1>1, <1>3, <1>6, Zenon
  <1>11. s[i] \notin Quotes /\ ~block /\ ~line => Kind(s, i) = "code"
    <2>1. s[i] \notin Quotes => ~(s[i] = SQuote) /\ ~(s[i] = DQuote)
      BY <1>2
    <2>2. QED
      BY <1>3, <2>1, Zenon
  <1>12. QED
    BY <1>7, <1>8, <1>9, <1>10, <1>11 DEF block, line

\* The kinds differ from one another.
LEMMA KindsDiffer ==
  /\ "string" # "char" /\ "string" # "block" /\ "string" # "line" /\ "string" # "code"
  /\ "char" # "block" /\ "char" # "line" /\ "char" # "code"
  /\ "block" # "line" /\ "block" # "code" /\ "line" # "code"
  OBVIOUS

\* The cases of Closes.
LEMMA ClosesCases ==
  ASSUME NEW s, NEW i, NEW k
  PROVE  /\ Closes(s, i, "string", k) <=> k > i /\ s[k] = DQuote /\ ~Escaped(s, i, k)
         /\ Closes(s, i, "char", k) <=> k > i /\ s[k] = SQuote /\ ~Escaped(s, i, k)
         /\ Closes(s, i, "block", k) <=> k > i + 2 /\ s[k] = Slash /\ s[k - 1] = Star
         /\ Closes(s, i, "line", k) <=> k > i + 1 /\ s[k] = Newline
         /\ Closes(s, i, "code", k) <=> k = i
  <1>1. Closes(s, i, "string", k) <=> k > i /\ s[k] = DQuote /\ ~Escaped(s, i, k)
    BY KindsDiffer, Zenon DEF Closes
  <1>2. Closes(s, i, "char", k) <=> k > i /\ s[k] = SQuote /\ ~Escaped(s, i, k)
    BY KindsDiffer, Zenon DEF Closes
  <1>3. Closes(s, i, "block", k) <=> k > i + 2 /\ s[k] = Slash /\ s[k - 1] = Star
    BY KindsDiffer, Zenon DEF Closes
  <1>4. Closes(s, i, "line", k) <=> k > i + 1 /\ s[k] = Newline
    BY KindsDiffer, Zenon DEF Closes
  <1>5. Closes(s, i, "code", k) <=> k = i
    BY KindsDiffer, Zenon DEF Closes
  <1>6. QED
    BY <1>1, <1>2, <1>3, <1>4, <1>5

\* The cases of ClassInToken.
LEMMA ClassCases ==
  ASSUME NEW s, NEW i, NEW k
  PROVE  /\ Kind(s, i) = "code" => ClassInToken(s, i, k) = "CC_CODE"
         /\ Kind(s, i) = "string" =>
              ClassInToken(s, i, k) = IF k = i \/ k \in Closers(s, i)
                              THEN "CC_OUTER_STRING" ELSE "CC_INNER_STRING"
         /\ Kind(s, i) = "char" =>
              ClassInToken(s, i, k) = IF k = i \/ k \in Closers(s, i)
                              THEN "CC_OUTER_CHAR" ELSE "CC_INNER_CHAR"
         /\ Kind(s, i) \in {"block", "line"} =>
              ClassInToken(s, i, k) = IF k <= i + 1 
                              THEN "CC_OUTER_COMMENT" ELSE "CC_INNER_COMMENT"
  <1>1. Kind(s, i) = "code" => ClassInToken(s, i, k) = "CC_CODE"
    BY KindsDiffer, Zenon DEF ClassInToken
  <1>2. Kind(s, i) = "string" =>
              ClassInToken(s, i, k) = IF k = i \/ k \in Closers(s, i)
                              THEN "CC_OUTER_STRING" ELSE "CC_INNER_STRING"
    BY KindsDiffer, Zenon DEF ClassInToken
  <1>3. Kind(s, i) = "char" =>
              ClassInToken(s, i, k) = IF k = i \/ k \in Closers(s, i)
                              THEN "CC_OUTER_CHAR" ELSE "CC_INNER_CHAR"
    BY KindsDiffer, Zenon DEF ClassInToken
  <1>4. Kind(s, i) = "block" =>
              ClassInToken(s, i, k) = IF k <= i + 1 
                              THEN "CC_OUTER_COMMENT" ELSE "CC_INNER_COMMENT"
    BY KindsDiffer, Zenon DEF ClassInToken
  <1>5. Kind(s, i) = "line" =>
              ClassInToken(s, i, k) = IF k <= i + 1 
                              THEN "CC_OUTER_COMMENT" ELSE "CC_INNER_COMMENT"
    BY KindsDiffer, Zenon DEF ClassInToken
  <1>6. QED
    BY <1>1, <1>2, <1>3, <1>4, <1>5, Zenon
----------------------------------------------------------------------------
\* The token that starts at i is not closed up to position k.
Open(s, i, k) == \A j \in i..k : ~Closes(s, i, Kind(s, i), j)

\* A token goes on behind a position exactly when it is open there.
LEMMA EndBeyond ==
  ASSUME NEW s, Len(s) \in Nat, NEW k \in Nat, k < Len(s), NEW i \in 1..k
  PROVE  TokenEnd(s, i) >= k + 1 <=> Open(s, i, k)
  <1> DEFINE C == Closers(s, i)
  <1>1. C \subseteq i..Len(s) /\ \A j \in i..Len(s) :
            j \in C <=> Closes(s, i, Kind(s, i), j)
    BY DEF Closers
  <1>2. CASE C = {}
    <2>1. TokenEnd(s, i) = Len(s)
      BY <1>2, Zenon DEF TokenEnd
    <2> HIDE DEF C
    <2>2. Open(s, i, k)
      BY <1>1, <1>2 DEF Open
    <2>3. QED
      BY <2>1, <2>2
  <1>3. CASE C # {}
    <2>1. TokenEnd(s, i) = CHOOSE x \in C : \A j \in C : x <= j
      BY <1>3, Zenon DEF TokenEnd
    <2> HIDE DEF C
    <2>2. C \subseteq Nat
      BY <1>1
    <2>3. \E x \in C : \A j \in C : x <= j
      BY <1>3, <2>2, NatMin
    <2>4. TokenEnd(s, i) \in C /\ \A j \in C : TokenEnd(s, i) <= j
      BY <2>1, <2>3, Zenon
    <2> DEFINE e == TokenEnd(s, i)
    <2>5. e \in C /\ \A j \in C : e <= j
      BY <2>4
    <2> HIDE DEF e
    <2>6. e \in i..Len(s) /\ Closes(s, i, Kind(s, i), e)
      BY <1>1, <2>5
    <2>7. e >= k + 1 => Open(s, i, k)
      BY <1>1, <2>5, <2>6 DEF Open
    <2>8. Open(s, i, k) => e >= k + 1
      BY <2>6 DEF Open
    <2>9. QED
      BY <2>7, <2>8 DEF e
  <1>4. QED
    BY <1>2, <1>3

\* What defines TokenStart, on the first m positions of s.
IsStart(s, m, f) ==
    f = [i \in 1..m |->
           IF i = 1 THEN 1
           ELSE IF TokenEnd(s, f[i - 1]) >= i THEN f[i - 1] ELSE i]

\* Such a function exists, for every m.
LEMMA StartExists ==
  ASSUME NEW s, NEW n \in Nat
  PROVE  \E f : IsStart(s, n, f)
  <1> DEFINE T == {m \in Nat : ~\E f : IsStart(s, m, f)}
  <1>1. SUFFICES ASSUME n \in T PROVE FALSE
    OBVIOUS
  <1>2. T \subseteq Nat
    OBVIOUS
  <1> HIDE DEF T
  <1>3. PICK m \in T : \A y \in T : m <= y
    BY <1>1, <1>2, NatMin
  <1>4. m \in Nat /\ ~\E f : IsStart(s, m, f)
    BY DEF T
  <1>5. m # 0
    <2>1. SUFFICES ASSUME m = 0 PROVE FALSE
      OBVIOUS
    <2> DEFINE f == [i \in 1..0 |-> 1]
    <2>2. IsStart(s, 0, f)
      BY DEF IsStart
    <2>3. QED
      BY <1>4, <2>1, <2>2
  <1>6. m - 1 \in Nat /\ m - 1 \notin T
    BY <1>2, <1>3, <1>4, <1>5
  <1>7. PICK f : IsStart(s, m - 1, f)
    BY <1>6 DEF T
  <1> DEFINE last == IF m = 1 THEN 1
                     ELSE IF TokenEnd(s, f[m - 1]) >= m THEN f[m - 1] ELSE m
             g == [i \in 1..m |-> IF i = m THEN last ELSE f[i]]
             h == [i \in 1..m |->
                     IF i = 1 THEN 1
                     ELSE IF TokenEnd(s, g[i - 1]) >= i THEN g[i - 1] ELSE i]
  <1>8. ASSUME NEW i \in 1..m PROVE g[i] = h[i]
    <2>1. CASE i = m
      <3>1. m > 1 => m - 1 \in 1..m /\ m - 1 # m
        BY <1>4, <1>5
      <3>2. m > 1 => g[m - 1] = f[m - 1]
        BY <3>1
      <3>3. m = 1 \/ m > 1
        BY <1>4, <1>5
      <3>4. QED
        BY <2>1, <3>2, <3>3
    <2>2. CASE i # m
      <3>1. i \in 1..(m - 1)
        BY <1>4, <2>2
      <3>2. f[i] = IF i = 1 THEN 1
                   ELSE IF TokenEnd(s, f[i - 1]) >= i THEN f[i - 1] ELSE i
        BY <1>7, <3>1 DEF IsStart
      <3>3. i # 1 => i - 1 \in 1..m /\ i - 1 # m
        BY <1>4, <3>1
      <3>4. i # 1 => g[i - 1] = f[i - 1]
        BY <3>3
      <3>5. g[i] = f[i]
        BY <2>2
      <3>6. QED
        BY <3>2, <3>4, <3>5
    <2>3. QED
      BY <2>1, <2>2
  <1>9. g = h
    BY <1>8
  <1>10. IsStart(s, m, g)
    BY <1>9 DEF IsStart
  <1>11. QED
    BY <1>4, <1>10

\* So TokenStart satisfies its recursive definition.
LEMMA StartIs ==
  ASSUME NEW s, Len(s) \in Nat
  PROVE  IsStart(s, Len(s), TokenStart(s))
  <1>1. \E f : IsStart(s, Len(s), f)
    BY StartExists
  <1>2. TokenStart(s) = CHOOSE f : IsStart(s, Len(s), f)
    BY DEF TokenStart, IsStart
  <1>3. QED
    BY <1>1, <1>2
\* TokenStart by the positions up to i only: a token starts right behind one
\* that is closed.
LEMMA StartFacts ==
  ASSUME NEW s, Len(s) \in Nat
  PROVE  /\ \A i \in 1..Len(s) : TokenStart(s)[i] \in 1..i
         /\ Len(s) > 0 => TokenStart(s)[1] = 1
         /\ \A i \in 1..(Len(s) - 1) :
               TokenStart(s)[i + 1] = IF Open(s, TokenStart(s)[i], i)
                                        THEN TokenStart(s)[i] ELSE i + 1
  <1> DEFINE n == Len(s)
             f == TokenStart(s)
             e(i) == TokenEnd(s, f[i])
  <1>1. IsStart(s, n, f)
    BY StartIs
  <1>2. n \in Nat
    OBVIOUS
  <1> HIDE DEF n, f
  <1>3. ASSUME NEW i \in 1..n
        PROVE  f[i] = IF i = 1 THEN 1 ELSE IF e(i - 1) >= i THEN f[i - 1] ELSE i
    BY <1>1 DEF IsStart
  <1>4. n > 0 => f[1] = 1
    BY <1>2, <1>3
  <1>5. \A i \in 1..n : f[i] \in 1..i
    <2> DEFINE T == {i \in Nat : i \in 1..n /\ f[i] \notin 1..i}
    <2>1. SUFFICES ASSUME T # {} PROVE FALSE
      BY <1>2
    <2>2. T \subseteq Nat /\ \A i \in T : i \in 1..n /\ f[i] \notin 1..i
      OBVIOUS
    <2>3. \A i \in 1..n : i \notin T => f[i] \in 1..i
      BY <1>2
    <2> HIDE DEF T
    <2>4. PICK m \in T : \A y \in T : m <= y
      BY <2>1, <2>2, NatMin
    <2>5. m \in 1..n /\ f[m] \notin 1..m
      BY <2>2
    <2>6. m # 1
      BY <1>2, <1>4, <2>5
    <2>7. m - 1 \in 1..n /\ m - 1 \notin T
      BY <1>2, <2>2, <2>4, <2>5, <2>6
    <2>8. f[m - 1] \in 1..(m - 1)
      BY <2>3, <2>7
    <2>9. f[m] = f[m - 1] \/ f[m] = m
      BY <1>3, <2>5, <2>6
    <2>10. QED
      BY <1>2, <2>5, <2>8, <2>9
  <1>6. ASSUME NEW i \in 1..(n - 1)
        PROVE  f[i + 1] = IF Open(s, f[i], i) THEN f[i] ELSE i + 1
    <2>1. i \in 1..n /\ i \in Nat /\ i < n /\ i + 1 \in 1..n /\ i + 1 # 1 /\ (i + 1) - 1 = i
      BY <1>2
    <2>2. f[i] \in 1..i
      BY <1>5, <2>1
    <2>3. TokenEnd(s, f[i]) >= i + 1 <=> Open(s, f[i], i)
      BY <2>1, <2>2, EndBeyond DEF n
    <2>4. f[i + 1] = IF e((i + 1) - 1) >= i + 1 THEN f[(i + 1) - 1] ELSE i + 1
      BY <1>3, <2>1
    <2>5. f[i + 1] = IF TokenEnd(s, f[i]) >= i + 1 THEN f[i] ELSE i + 1
      BY <2>1, <2>4
    <2>6. QED
      BY <2>3, <2>5
  <1>7. QED
    BY <1>4, <1>5, <1>6 DEF n, f

----------------------------------------------------------------------------
\* A text that grows, and one that grows by one character.
Extends(s, t) ==
    /\ Len(s) \in Nat /\ Len(t) \in Nat /\ Len(s) <= Len(t)
    /\ \A i \in 1..Len(s) : t[i] = s[i]

Grown(s, t) ==
    /\ Len(s) \in Nat
    /\ Len(t) = Len(s) + 1
    /\ \A i \in 1..Len(s) : t[i] = s[i]

\* The second is a case of the first.
LEMMA GrownExtends ==
  ASSUME NEW s, NEW t, Grown(s, t)
  PROVE  Extends(s, t)
  BY DEF Grown, Extends

KindNames == {"string", "char", "block", "line", "code"}

\* There are five kinds of tokens.
LEMMA KindType ==
  ASSUME NEW s, NEW i
  PROVE  Kind(s, i) \in KindNames
  <1> DEFINE block == s[i] = Slash /\ Follows(s, i, Star)
             line == s[i] = Slash /\ Follows(s, i, Slash)
  <1>1. \/ s[i] = DQuote \/ s[i] = SQuote \/ block \/ line
        \/ s[i] \notin Quotes /\ ~block /\ ~line
    BY DEF Quotes
  <1>2. QED
    BY <1>1, KindCases DEF KindNames

\* Whether a position is escaped depends on the text before it.
LEMMA SameEscaped ==
  ASSUME NEW s, NEW t, Extends(s, t), NEW i \in 1..Len(s), NEW k \in Nat, k <= Len(s) + 1
  PROVE  Escaped(t, i, k) <=> Escaped(s, i, k)
  <1>1. Len(s) \in Nat /\ \A j \in 1..Len(s) : t[j] = s[j]
    BY DEF Extends
  <1>2. \A m \in i..(k - 1) : m \in 1..Len(s) /\ \A j \in (m + 1)..(k - 1) : j \in 1..Len(s)
    BY <1>1
  <1>3. \A m \in i..(k - 1) : /\ t[m] = s[m]
                              /\ \A j \in (m + 1)..(k - 1) : t[j] = s[j]
    BY <1>1, <1>2
  <1>4. QED
    BY <1>3, Zenon DEF Escaped

\* Whether a token closes at a position depends on the text up to there.
LEMMA SameCloses ==
  ASSUME NEW s, NEW t, Extends(s, t), NEW i \in 1..Len(s), NEW k \in i..Len(s),
         NEW kind \in KindNames
  PROVE  Closes(t, i, kind, k) <=> Closes(s, i, kind, k)
  <1>1. Len(s) \in Nat /\ \A j \in 1..Len(s) : t[j] = s[j]
    BY DEF Extends
  <1>2. t[k] = s[k] /\ (k > i + 2 => t[k - 1] = s[k - 1])
    BY <1>1
  <1>3. Escaped(t, i, k) <=> Escaped(s, i, k)
    <2>1. k \in Nat /\ k <= Len(s) + 1
      BY <1>1
    <2>2. QED
      BY <2>1, SameEscaped
  <1>4. CASE kind = "string"
    BY <1>2, <1>3, <1>4, ClosesCases
  <1>5. CASE kind = "char"
    BY <1>2, <1>3, <1>5, ClosesCases
  <1>6. CASE kind = "block"
    BY <1>2, <1>6, ClosesCases
  <1>7. CASE kind = "line"
    BY <1>2, <1>7, ClosesCases
  <1>8. CASE kind = "code"
    BY <1>8, ClosesCases
  <1>9. QED
    BY <1>4, <1>5, <1>6, <1>7, <1>8 DEF KindNames

\* The kind of a token is known once its first two characters are, or the
\* first if that is not a '/'.
LEMMA SameKind ==
  ASSUME NEW s, NEW t, Extends(s, t), NEW i \in 1..Len(s), i < Len(s) \/ s[i] # Slash
  PROVE  Kind(t, i) = Kind(s, i)
  <1>1. /\ Len(s) \in Nat /\ Len(t) \in Nat /\ Len(s) <= Len(t)
        /\ \A j \in 1..Len(s) : t[j] = s[j]
    BY DEF Extends
  <1>2. t[i] = s[i]
    BY <1>1
  <1>3. s[i] = Slash => \A chr : Follows(t, i, chr) <=> Follows(s, i, chr)
    BY <1>1 DEF Follows
  <1> DEFINE block == s[i] = Slash /\ Follows(s, i, Star)
             line == s[i] = Slash /\ Follows(s, i, Slash)
  <1>4. \/ s[i] = DQuote \/ s[i] = SQuote \/ block \/ line
        \/ s[i] \notin Quotes /\ ~block /\ ~line
    BY DEF Quotes
  <1>5. CASE s[i] = DQuote
    BY <1>2, <1>5, KindCases
  <1>6. CASE s[i] = SQuote
    BY <1>2, <1>6, KindCases
  <1>7. CASE block
    BY <1>2, <1>3, <1>7, KindCases
  <1>8. CASE line
    BY <1>2, <1>3, <1>8, KindCases
  <1>9. CASE s[i] \notin Quotes /\ ~block /\ ~line
    BY <1>2, <1>3, <1>9, KindCases
  <1>10. QED
    BY <1>4, <1>5, <1>6, <1>7, <1>8, <1>9

\* Whether a token is open at a position of the old text does not change.
LEMMA SameOpen ==
  ASSUME NEW s, NEW t, Extends(s, t), NEW i \in 1..Len(s), i < Len(s) \/ s[i] # Slash,
         NEW k \in Int, k <= Len(s)
  PROVE  Open(t, i, k) <=> Open(s, i, k)
  <1>1. Kind(t, i) = Kind(s, i)
    BY SameKind
  <1>2. Kind(s, i) \in KindNames
    BY KindType
  <1>3. \A j \in i..k : j \in i..Len(s)
    BY DEF Extends
  <1>4. QED
    BY <1>1, <1>2, <1>3, SameCloses DEF Open

\* Where the tokens of the old text start does not change.
LEMMA SameStart ==
  ASSUME NEW s, NEW t, Extends(s, t)
  PROVE  \A i \in 1..Len(s) : TokenStart(t)[i] = TokenStart(s)[i]
  <1> DEFINE n == Len(s)
             f == TokenStart(s)
             g == TokenStart(t)
  <1>1. n \in Nat /\ Len(t) \in Nat /\ n <= Len(t)
    BY DEF Extends
  <1>2. /\ \A i \in 1..n : f[i] \in 1..i
        /\ n > 0 => f[1] = 1
        /\ \A i \in 1..(n - 1) : f[i + 1] = IF Open(s, f[i], i) THEN f[i] ELSE i + 1
    BY <1>1, StartFacts
  <1>3. /\ n > 0 => g[1] = 1
        /\ \A i \in 1..(n - 1) : g[i + 1] = IF Open(t, g[i], i) THEN g[i] ELSE i + 1
    <2>1. (n > 0 => Len(t) > 0) /\ \A i \in 1..(n - 1) : i \in 1..(Len(t) - 1)
      BY <1>1
    <2>2. QED
      BY <1>1, <2>1, StartFacts
  <1>4. \A i \in 1..(n - 1) : Open(t, f[i], i) <=> Open(s, f[i], i)
    <2> TAKE i \in 1..(n - 1)
    <2>1. f[i] \in 1..n /\ f[i] < n /\ i \in Int /\ i <= n
      BY <1>1, <1>2
    <2>2. QED
      BY <2>1, SameOpen
  <1> HIDE DEF n, f, g
  <1> DEFINE T == {i \in Nat : i \in 1..n /\ g[i] # f[i]}
  <1>5. SUFFICES ASSUME T # {} PROVE FALSE
    BY <1>1 DEF n, f, g
  <1>6. T \subseteq Nat /\ \A i \in T : i \in 1..n /\ g[i] # f[i]
    OBVIOUS
  <1>7. \A i \in 1..n : i \notin T => g[i] = f[i]
    BY <1>1
  <1> HIDE DEF T
  <1>8. PICK m \in T : \A y \in T : m <= y
    BY <1>5, <1>6, NatMin
  <1>9. m \in 1..n /\ g[m] # f[m]
    BY <1>6
  <1>10. m # 1
    BY <1>1, <1>2, <1>3, <1>9
  <1> DEFINE j == m - 1
  <1>11. j \in 1..(n - 1) /\ j \in 1..n /\ j \notin T /\ j + 1 = m
    BY <1>1, <1>6, <1>8, <1>9, <1>10
  <1> HIDE DEF j
  <1>12. g[j] = f[j]
    BY <1>7, <1>11
  <1>13. g[j + 1] = f[j + 1]
    BY <1>2, <1>3, <1>4, <1>11, <1>12
  <1>14. QED
    BY <1>9, <1>11, <1>13
\* The class of a position, without the function around it.
LEMMA ClassIs ==
  ASSUME NEW s, NEW k \in 1..Len(s)
  PROVE  ClassOf(s)[k] = ClassInToken(s, TokenStart(s)[k], k)
  BY DEF ClassOf

\* Nor does the class of a character, but for a '/' at the end.
LEMMA SameClass ==
  ASSUME NEW s, NEW t, Extends(s, t), NEW k \in 1..Len(s),
         k < Len(s) \/ TokenStart(s)[k] < Len(s) \/ s[k] # Slash
  PROVE  ClassOf(t)[k] = ClassOf(s)[k]
  <1> DEFINE i == TokenStart(s)[k]
  <1>1. Len(s) \in Nat /\ k \in 1..Len(t)
    BY DEF Extends
  <1>2. i \in 1..k
    BY <1>1, StartFacts
  <1>3. TokenStart(t)[k] = i
    BY SameStart
  <1> HIDE DEF i
  <1>4. i \in 1..Len(s) /\ k \in i..Len(s) /\ k \in i..Len(t)
    BY <1>1, <1>2
  <1>5. i < Len(s) \/ s[i] # Slash
    BY <1>1, <1>2 DEF i
  <1>6. Kind(t, i) = Kind(s, i) /\ Kind(s, i) \in KindNames
    BY <1>4, <1>5, SameKind, KindType
  <1>7. k \in Closers(t, i) <=> k \in Closers(s, i)
    <2>1. Closes(t, i, Kind(s, i), k) <=> Closes(s, i, Kind(s, i), k)
      BY <1>4, <1>6, SameCloses
    <2>2. QED
      BY <1>4, <1>6, <2>1 DEF Closers
  <1>8. ClassInToken(t, i, k) = ClassInToken(s, i, k)
    <2>1. CASE Kind(s, i) = "string"
      BY <1>6, <1>7, <2>1, ClassCases, Zenon
    <2>2. CASE Kind(s, i) = "char"
      BY <1>6, <1>7, <2>2, ClassCases, Zenon
    <2>3. CASE Kind(s, i) \in {"block", "line"}
      BY <1>6, <2>3, ClassCases, Zenon
    <2>4. CASE Kind(s, i) = "code"
      BY <1>6, <2>4, ClassCases, Zenon
    <2>5. QED
      BY <1>6, <2>1, <2>2, <2>3, <2>4 DEF KindNames
  <1>9. QED
    BY <1>1, <1>3, <1>8, ClassIs DEF i

----------------------------------------------------------------------------
\* The character behind the opening quote is not escaped.
LEMMA NotEscaped ==
  ASSUME NEW s, NEW i \in Nat
  PROVE  ~Escaped(s, i, i + 1)
  <1>1. SUFFICES ASSUME NEW m \in i..((i + 1) - 1), ((i + 1) - 1 - m) % 2 = 1
                 PROVE  FALSE
    BY DEF Escaped
  <1>2. m = i
    OBVIOUS
  <1>3. QED
    BY <1>1, <1>2

\* A character is escaped by a backslash that is not escaped itself.
LEMMA EscapeStep ==
  ASSUME NEW s, NEW i \in Nat, NEW k \in Nat, i < k, s[i] # Backslash
  PROVE  Escaped(s, i, k + 1) <=> s[k] = Backslash /\ ~Escaped(s, i, k)
  <1> DEFINE Last(m) == s[m] # Backslash /\ \A j \in (m + 1)..(k - 1) : s[j] = Backslash
             T == {d \in Nat : d <= k - 1 - i /\ s[k - 1 - d] # Backslash}
  <1>1. \E m \in i..(k - 1) : Last(m)
    <2>1. T \subseteq Nat /\ (\A d \in Nat : d \in T <=> d <= k - 1 - i /\ s[k - 1 - d] # Backslash)
      OBVIOUS
    <2>2. k - 1 - i \in T
      <3>1. k - 1 - i \in Nat /\ k - 1 - (k - 1 - i) = i
        OBVIOUS
      <3> HIDE DEF T
      <3>2. QED
        BY <2>1, <3>1
    <2> HIDE DEF T
    <2>3. PICK d \in T : \A y \in T : d <= y
      BY <2>1, <2>2, NatMin
    <2> DEFINE m == k - 1 - d
    <2>4. d \in Nat /\ m \in i..(k - 1) /\ s[m] # Backslash
      BY <2>1, <2>3
    <2>5. ASSUME NEW j \in (m + 1)..(k - 1) PROVE s[j] = Backslash
      <3> DEFINE e == k - 1 - j
      <3>1. e \in Nat /\ e < d /\ e <= k - 1 - i /\ k - 1 - e = j
        BY <2>4
      <3>2. e \notin T
        <4>1. d \in Nat
          BY <2>4
        <4> HIDE DEF e
        <4>2. QED
          BY <2>3, <3>1, <4>1
      <3>3. s[k - 1 - e] = Backslash
        <4> HIDE DEF e
        <4>1. QED
          BY <2>1, <3>1, <3>2
      <3>4. QED
        BY <3>1, <3>3
    <2>6. Last(m)
      BY <2>4, <2>5
    <2>7. QED
      BY <2>4, <2>6
  <1>2. PICK m \in i..(k - 1) : Last(m)
    BY <1>1
  <1>3. \A x \in i..(k - 1) : Last(x) => x = m
    <2> SUFFICES ASSUME NEW x \in i..(k - 1), Last(x), x # m PROVE FALSE
      OBVIOUS
    <2>1. CASE x < m
      <3>1. m \in (x + 1)..(k - 1)
        BY <2>1
      <3>2. QED
        BY <1>2, <3>1
    <2>2. CASE m < x
      <3>1. x \in (m + 1)..(k - 1)
        BY <2>2
      <3>2. QED
        BY <1>2, <3>1
    <2>3. QED
      BY <2>1, <2>2
  <1> HIDE DEF Last, T
  <1>4. Escaped(s, i, k) <=> (k - 1 - m) % 2 = 1
    <2>1. Escaped(s, i, k) <=> \E x \in i..(k - 1) : Last(x) /\ (k - 1 - x) % 2 = 1
      BY DEF Escaped, Last
    <2>2. QED
      BY <1>2, <1>3, <2>1
  <1>5. CASE s[k] # Backslash
    <2>1. SUFFICES ASSUME NEW x \in i..((k + 1) - 1), ((k + 1) - 1 - x) % 2 = 1,
                          \A j \in (x + 1)..((k + 1) - 1) : s[j] = Backslash
                   PROVE  FALSE
      BY <1>5, Zenon DEF Escaped
    <2>2. x = k
      <3>1. SUFFICES ASSUME x # k PROVE FALSE
        OBVIOUS
      <3>2. k \in (x + 1)..((k + 1) - 1)
        BY <3>1
      <3>3. QED
        BY <1>5, <2>1, <3>2
    <2>3. (k + 1) - 1 - x = 0
      BY <2>2
    <2>4. QED
      BY <2>1, <2>3
  <1>6. CASE s[k] = Backslash
    <2>1. Escaped(s, i, k + 1) <=> \E x \in i..((k + 1) - 1) :
              /\ s[x] # Backslash
              /\ \A j \in (x + 1)..((k + 1) - 1) : s[j] = Backslash
              /\ ((k + 1) - 1 - x) % 2 = 1
      BY DEF Escaped
    <2>2. ASSUME NEW x \in i..k
          PROVE  /\ s[x] # Backslash
                 /\ \A j \in (x + 1)..k : s[j] = Backslash
                 <=> x \in i..(k - 1) /\ Last(x)
      <3>1. CASE x = k
        BY <1>6, <3>1
      <3>2. CASE x # k
        <4>1. x \in i..(k - 1) /\ \A j : j \in (x + 1)..k <=> j \in (x + 1)..(k - 1) \/ j = k
          BY <3>2
        <4>2. QED
          BY <1>6, <4>1 DEF Last
      <3>3. QED
        BY <3>1, <3>2
    <2>3. (k + 1) - 1 = k
      OBVIOUS
    <2>4. Escaped(s, i, k + 1) <=> \E x \in i..(k - 1) : Last(x) /\ (k - x) % 2 = 1
      <3>1. \A x \in i..(k - 1) : x \in i..k
        OBVIOUS
      <3>2. QED
        BY <2>1, <2>2, <2>3, <3>1
    <2>5. Escaped(s, i, k + 1) <=> (k - m) % 2 = 1
      BY <1>2, <1>3, <2>4
    <2>6. (k - m) % 2 = 1 <=> (k - 1 - m) % 2 # 1
      OBVIOUS
    <2>7. QED
      BY <1>4, <1>6, <2>5, <2>6
  <1>7. QED
    BY <1>5, <1>6
----------------------------------------------------------------------------
\* What the machine knows of the text s in each of its states, when the last
\* token of s starts at i: whether the token is closed, and where in it the
\* text ends.
ReadsToken(s, i, st) ==
    LET n == Len(s) IN
    \/ st = "S_START" /\ ~Open(s, i, n) /\ ~(i = n /\ s[n] = Slash)
    \/ st = "S_START_SLASH" /\ i = n /\ s[n] = Slash
    \/ /\ st \in {"S_START_DQUOTE", "S_DQUOTE_ESCAPE"}
       /\ s[i] = DQuote /\ Open(s, i, n)
       /\ st = "S_DQUOTE_ESCAPE" <=> Escaped(s, i, n + 1)
    \/ /\ st \in {"S_START_SQUOTE", "S_SQUOTE_ESCAPE"}
       /\ s[i] = SQuote /\ Open(s, i, n)
       /\ st = "S_SQUOTE_ESCAPE" <=> Escaped(s, i, n + 1)
    \/ /\ st \in {"S_SLASH_STAR", "S_SLASH_STAR_STAR"}
       /\ s[i] = Slash /\ i < n /\ s[i + 1] = Star /\ Open(s, i, n)
       /\ st = "S_SLASH_STAR_STAR" <=> n > i + 1 /\ s[n] = Star
    \/ /\ st = "S_COMMENT_EOL"
       /\ s[i] = Slash /\ i < n /\ s[i + 1] = Slash /\ Open(s, i, n)

Reads(s, st) == IF Len(s) = 0 THEN st = "S_START"
                              ELSE ReadsToken(s, TokenStart(s)[Len(s)], st)

\* The class that a character inside a literal or a comment gets.
InnerClass(st, ccl) ==
    /\ st \in {"S_START_DQUOTE", "S_DQUOTE_ESCAPE"} => ccl = "CC_INNER_STRING"
    /\ st \in {"S_START_SQUOTE", "S_SQUOTE_ESCAPE"} => ccl = "CC_INNER_CHAR"
    /\ st \in {"S_SLASH_STAR", "S_SLASH_STAR_STAR", "S_COMMENT_EOL"}
         => ccl = "CC_INNER_COMMENT"

\* A token is open at a position if it was before and does not close there.
LEMMA OpenNext ==
  ASSUME NEW t, NEW i \in Nat, NEW k \in Nat, i <= k + 1
  PROVE  Open(t, i, k + 1) <=> Open(t, i, k) /\ ~Closes(t, i, Kind(t, i), k + 1)
  <1>1. \A j : j \in i..(k + 1) <=> j \in i..k \/ j = k + 1
    OBVIOUS
  <1>2. QED
    BY <1>1 DEF Open

\* The members of Closers.
LEMMA InClosers ==
  ASSUME NEW t, NEW i \in Nat, NEW k \in i..Len(t)
  PROVE  k \in Closers(t, i) <=> Closes(t, i, Kind(t, i), k)
  BY DEF Closers

\* The first character of a token, which is the last one of the text.
LEMMA FreshToken ==
  ASSUME NEW t, Len(t) \in Nat, Len(t) > 0, NEW i, i = Len(t)
  PROVE  /\ t[i] = DQuote => ReadsToken(t, i, "S_START_DQUOTE")
                             /\ ClassInToken(t, i, i) = "CC_OUTER_STRING"
         /\ t[i] = SQuote => ReadsToken(t, i, "S_START_SQUOTE")
                             /\ ClassInToken(t, i, i) = "CC_OUTER_CHAR"
         /\ t[i] = Slash => ReadsToken(t, i, "S_START_SLASH")
         /\ t[i] \notin {DQuote, SQuote, Slash} =>
               ReadsToken(t, i, "S_START") /\ ClassInToken(t, i, i) = "CC_CODE"
  <1>1. i \in Nat /\ ~Escaped(t, i, i + 1) /\ ~(i > i)
    BY NotEscaped
  <1>2. Open(t, i, i) <=> ~Closes(t, i, Kind(t, i), i)
    <2>1. i..i = {i}
      BY <1>1
    <2>2. QED
      BY <2>1 DEF Open
  <1>3. CASE t[i] = DQuote
    <2>1. Kind(t, i) = "string"
      BY <1>3, KindCases
    <2>2. Open(t, i, i)
      BY <1>1, <1>2, <2>1, ClosesCases
    <2>3. ReadsToken(t, i, "S_START_DQUOTE")
      BY <1>1, <1>3, <2>2 DEF ReadsToken
    <2>4. ClassInToken(t, i, i) = "CC_OUTER_STRING"
      BY <2>1, ClassCases
    <2>5. QED
      BY <1>3, <2>3, <2>4, Distinct
  <1>4. CASE t[i] = SQuote
    <2>1. Kind(t, i) = "char"
      BY <1>4, KindCases
    <2>2. Open(t, i, i)
      BY <1>1, <1>2, <2>1, ClosesCases
    <2>3. ReadsToken(t, i, "S_START_SQUOTE")
      BY <1>1, <1>4, <2>2 DEF ReadsToken
    <2>4. ClassInToken(t, i, i) = "CC_OUTER_CHAR"
      BY <2>1, ClassCases
    <2>5. QED
      BY <1>4, <2>3, <2>4, Distinct
  <1>5. CASE t[i] = Slash
    BY <1>5, Distinct DEF ReadsToken
  <1>6. CASE t[i] \notin {DQuote, SQuote, Slash}
    <2>1. Kind(t, i) = "code"
      BY <1>6, KindCases DEF Quotes
    <2>2. ~Open(t, i, i)
      BY <1>2, <2>1, ClosesCases
    <2>3. ReadsToken(t, i, "S_START")
      BY <1>6, <2>2 DEF ReadsToken
    <2>4. ClassInToken(t, i, i) = "CC_CODE"
      BY <2>1, ClassCases
    <2>5. QED
      BY <1>6, <2>3, <2>4
  <1>7. QED
    BY <1>3, <1>4, <1>5, <1>6

\* A character inside a literal that is open.
LEMMA LiteralGoesOn ==
  ASSUME NEW s, NEW t, Grown(s, t), NEW i \in 1..Len(s), Open(s, i, Len(s)),
         NEW q \in Quotes, s[i] = q
  PROVE  LET k == Len(s) + 1
             ends == t[k] = q /\ ~Escaped(s, i, k)
         IN  /\ Open(t, i, Len(s))
             /\ ends <=> ~Open(t, i, k)
             /\ ends <=> k \in Closers(t, i)
             /\ Escaped(t, i, k + 1) <=> t[k] = Backslash /\ ~Escaped(s, i, k)
  <1> DEFINE k == Len(s) + 1
             ends == t[k] = q /\ ~Escaped(s, i, k)
  <1>1. /\ Len(s) \in Nat /\ Len(t) = k /\ t[i] = q /\ k \in Nat /\ i \in Nat /\ i < k
        /\ k \in i..Len(t)
    BY DEF Grown
  <1>2. s[i] # Slash /\ s[i] # Backslash
    BY Distinct DEF Quotes
  <1>3. Open(t, i, Len(s))
    BY <1>1, <1>2, SameOpen, GrownExtends
  <1>4. Escaped(t, i, k) <=> Escaped(s, i, k)
    BY <1>1, SameEscaped, GrownExtends
  <1>5. Closes(t, i, Kind(t, i), k) <=> ends
    <2>1. CASE q = DQuote
      <3>1. Kind(t, i) = "string"
        BY <1>1, <2>1, KindCases
      <3>2. QED
        BY <1>1, <1>4, <2>1, <3>1, ClosesCases
    <2>2. CASE q = SQuote
      <3>1. Kind(t, i) = "char"
        BY <1>1, <2>2, KindCases
      <3>2. QED
        BY <1>1, <1>4, <2>2, <3>1, ClosesCases
    <2>3. QED
      BY <2>1, <2>2 DEF Quotes
  <1>6. ends <=> ~Open(t, i, k)
    BY <1>1, <1>3, <1>5, OpenNext
  <1>7. ends <=> k \in Closers(t, i)
    BY <1>1, <1>5, InClosers
  <1>8. Escaped(t, i, k + 1) <=> t[k] = Backslash /\ ~Escaped(s, i, k)
    BY <1>1, <1>2, <1>4, EscapeStep
  <1>9. QED
    BY <1>3, <1>6, <1>7, <1>8
\* A character inside a comment that is open.
LEMMA CommentGoesOn ==
  ASSUME NEW s, NEW t, Grown(s, t), NEW i \in 1..Len(s), Open(s, i, Len(s)),
         s[i] = Slash, i < Len(s), s[i + 1] \in {Star, Slash}
  PROVE  LET k == Len(s) + 1
         IN  /\ Open(t, i, Len(s))
             /\ t[i] = Slash /\ t[i + 1] = s[i + 1]
             /\ s[i + 1] = Star =>
                  (Open(t, i, k) <=> ~(k > i + 2 /\ t[k] = Slash /\ s[Len(s)] = Star))
             /\ s[i + 1] = Slash => (Open(t, i, k) <=> t[k] # Newline)
             /\ ClassInToken(t, i, k) = "CC_INNER_COMMENT"
  <1> DEFINE k == Len(s) + 1
  <1>1. /\ Len(s) \in Nat /\ Len(t) = k /\ t[i] = Slash /\ k \in Nat /\ i \in Nat
        /\ i + 1 < k /\ t[i + 1] = s[i + 1] /\ t[k - 1] = s[Len(s)] /\ i < Len(t)
    BY DEF Grown
  <1>2. Open(t, i, Len(s))
    BY <1>1, SameOpen, GrownExtends
  <1>3. Open(t, i, k) <=> ~Closes(t, i, Kind(t, i), k)
    <2>1. i <= Len(s) + 1
      BY <1>1
    <2>2. QED
      BY <1>1, <1>2, <2>1, OpenNext
  <1>4. ~(k <= i + 1)
    BY <1>1
  <1>5. CASE s[i + 1] = Star
    <2>1. Kind(t, i) = "block"
      BY <1>1, <1>5, KindCases DEF Follows
    <2>2. Open(t, i, k) <=> ~(k > i + 2 /\ t[k] = Slash /\ s[Len(s)] = Star)
      BY <1>1, <1>3, <2>1, ClosesCases
    <2>3. ClassInToken(t, i, k) = "CC_INNER_COMMENT"
      BY <1>4, <2>1, ClassCases
    <2>4. QED
      BY <1>1, <1>2, <1>5, <2>2, <2>3, Distinct
  <1>6. CASE s[i + 1] = Slash
    <2>1. Kind(t, i) = "line"
      BY <1>1, <1>6, KindCases DEF Follows
    <2>2. Open(t, i, k) <=> t[k] # Newline
      BY <1>1, <1>3, <2>1, ClosesCases
    <2>3. ClassInToken(t, i, k) = "CC_INNER_COMMENT"
      BY <1>4, <2>1, ClassCases
    <2>4. QED
      BY <1>1, <1>2, <1>6, <2>2, <2>3, Distinct
  <1>7. QED
    BY <1>5, <1>6

\* The token that the last character of a text belongs to.
LEMMA LastToken ==
  ASSUME NEW s, NEW t, Grown(s, t)
  PROVE  LET n == Len(s)
             p == TokenStart(s)[n]
             q == TokenStart(t)[n + 1]
         IN  /\ n = 0 => q = n + 1
             /\ n > 0 => /\ p \in 1..n /\ TokenStart(t)[n] = p
                         /\ q = IF Open(t, p, n) THEN p ELSE n + 1
             /\ \A st : Reads(t, st) <=> ReadsToken(t, q, st)
             /\ ClassOf(t)[n + 1] = ClassInToken(t, q, n + 1)
             /\ n > 0 => ClassOf(t)[n] = ClassInToken(t, p, n)
  <1> DEFINE n == Len(s)
             p == TokenStart(s)[n]
             q == TokenStart(t)[n + 1]
  <1>1. n \in Nat /\ Len(t) = n + 1 /\ Len(t) \in Nat /\ Len(t) > 0 /\ Len(t) # 0
        /\ n + 1 \in 1..Len(t)
    BY DEF Grown
  <1>2. n = 0 => q = n + 1
    <2>1. TokenStart(t)[1] = 1
      BY <1>1, StartFacts
    <2>2. n = 0 => n + 1 = 1
      OBVIOUS
    <2>3. QED
      BY <2>1, <2>2
  <1>3. ASSUME n > 0
        PROVE  /\ p \in 1..n /\ TokenStart(t)[n] = p
               /\ q = IF Open(t, p, n) THEN p ELSE n + 1
               /\ ClassOf(t)[n] = ClassInToken(t, p, n)
    <2>1. n \in 1..n /\ n \in 1..(Len(t) - 1) /\ n \in 1..Len(t)
      BY <1>1, <1>3
    <2>2. p \in 1..n
      BY <1>1, <2>1, StartFacts
    <2>3. TokenStart(t)[n] = p
      BY <2>1, SameStart, GrownExtends
    <2>4. q = IF Open(t, p, n) THEN p ELSE n + 1
      BY <1>1, <2>1, <2>3, StartFacts
    <2>5. ClassOf(t)[n] = ClassInToken(t, p, n)
      BY <2>1, <2>3, ClassIs
    <2>6. QED
      BY <2>2, <2>3, <2>4, <2>5
  <1>4. \A st : Reads(t, st) <=> ReadsToken(t, q, st)
    BY <1>1 DEF Reads
  <1>5. ClassOf(t)[n + 1] = ClassInToken(t, q, n + 1)
    BY <1>1, ClassIs
  <1>6. QED
    BY <1>2, <1>3, <1>4, <1>5

\* What it pushes for the last character of t, with the classes of t.
Pushed(s, t, chr) ==
    \/ ~Holds /\ Holds' /\ ccv' = ccv
    \/ ~Holds /\ ~Holds' /\ ccv' = ccv_push(ccv, chr, ClassOf(t)[Len(t)])
    \/ /\ Holds /\ ~Holds'
       /\ ccv' = ccv_push(ccv_push(ccv, Slash, ClassOf(t)[Len(s)]), chr, ClassOf(t)[Len(t)])

\* It has read t, and has pushed what it had to.
ReadsOn(s, t, chr) ==
    /\ Reads(t, state')
    /\ InnerClass(state', cclass')
    /\ Pushed(s, t, chr)

\* A character outside of comments and literals.
LEMMA ReadsStart ==
  ASSUME NEW s, NEW t, NEW chr, Grown(s, t), t[Len(t)] = chr,
         Reads(s, state), InStart(chr)
  PROVE  ReadsOn(s, t, chr)
  <1> DEFINE n == Len(s)
             p == TokenStart(s)[n]
             k == Len(t)
  <1>1. n \in Nat /\ k = n + 1 /\ k \in Nat /\ k > 0 /\ state = "S_START"
    BY DEF Grown, InStart
  <1>2. TokenStart(t)[k] = k
    <2>1. CASE n = 0
      BY <1>1, <2>1, LastToken
    <2>2. CASE n > 0
      <3>1. p \in 1..n
        BY <2>2, LastToken
      <3>2. ~Open(s, p, n) /\ ~(p = n /\ s[n] = Slash)
        <4>1. ReadsToken(s, p, "S_START")
          BY <1>1, <2>2 DEF Reads
        <4>2. QED
          BY <4>1 DEF ReadsToken
      <3>3. p < n \/ s[p] # Slash
        BY <1>1, <3>1, <3>2
      <3>4. ~Open(t, p, n)
        BY <1>1, <3>1, <3>2, <3>3, SameOpen, GrownExtends
      <3>5. QED
        BY <1>1, <2>2, <3>4, LastToken
    <2>3. QED
      BY <1>1, <2>1, <2>2
  <1>3. /\ \A st : Reads(t, st) <=> ReadsToken(t, k, st)
        /\ ClassOf(t)[k] = ClassInToken(t, k, k)
    BY <1>1, <1>2, LastToken
  <1>4. CASE chr = DQuote
    <2>1. Reads(t, "S_START_DQUOTE") /\ ClassOf(t)[k] = "CC_OUTER_STRING"
      BY <1>1, <1>3, <1>4, FreshToken
    <2>2. /\ state' = "S_START_DQUOTE" /\ cclass' = "CC_INNER_STRING"
          /\ ccv' = ccv_push(ccv, chr, "CC_OUTER_STRING")
      BY <1>4, Distinct DEF InStart, Goto, Emit
    <2>3. QED
      BY <1>1, <2>1, <2>2 DEF ReadsOn, InnerClass, Pushed, Holds
  <1>5. CASE chr = SQuote
    <2>1. Reads(t, "S_START_SQUOTE") /\ ClassOf(t)[k] = "CC_OUTER_CHAR"
      BY <1>1, <1>3, <1>5, FreshToken
    <2>2. /\ state' = "S_START_SQUOTE" /\ cclass' = "CC_INNER_CHAR"
          /\ ccv' = ccv_push(ccv, chr, "CC_OUTER_CHAR")
      BY <1>5, Distinct DEF InStart, Goto, Emit
    <2>3. QED
      BY <1>1, <2>1, <2>2 DEF ReadsOn, InnerClass, Pushed, Holds
  <1>6. CASE chr = Slash
    <2>1. Reads(t, "S_START_SLASH")
      BY <1>1, <1>3, <1>6, FreshToken
    <2>2. state' = "S_START_SLASH" /\ ccv' = ccv
      BY <1>6, Distinct DEF InStart, Goto, Emit
    <2>3. QED
      BY <1>1, <2>1, <2>2 DEF ReadsOn, InnerClass, Pushed, Holds
  <1>7. CASE chr \notin {DQuote, SQuote, Slash}
    <2>1. Reads(t, "S_START") /\ ClassOf(t)[k] = "CC_CODE"
      BY <1>1, <1>3, <1>7, FreshToken
    <2>2. state' = "S_START" /\ ccv' = ccv_push(ccv, chr, "CC_CODE")
      BY <1>7 DEF InStart, Goto, Emit
    <2>3. QED
      BY <1>1, <2>1, <2>2 DEF ReadsOn, InnerClass, Pushed, Holds
  <1>8. QED
    BY <1>4, <1>5, <1>6, <1>7

\* The character behind a '/' that was held back.
LEMMA ReadsSlash ==
  ASSUME NEW s, NEW t, NEW chr, Grown(s, t), t[Len(t)] = chr,
         Reads(s, state), NoSlashQuote(t), InStartSlash(chr)
  PROVE  ReadsOn(s, t, chr)
  <1> DEFINE n == Len(s)
             k == Len(t)
  <1>1. n \in Nat /\ k = n + 1 /\ k \in Nat /\ k > 0 /\ state = "S_START_SLASH"
    BY DEF Grown, InStartSlash
  <1>2. n > 0 /\ TokenStart(s)[n] = n /\ s[n] = Slash
    <2>1. n # 0 /\ ReadsToken(s, TokenStart(s)[n], "S_START_SLASH")
      BY <1>1 DEF Reads
    <2>2. QED
      BY <1>1, <2>1 DEF ReadsToken
  <1>3. t[n] = Slash /\ n < k /\ t[n + 1] = chr
    BY <1>1, <1>2 DEF Grown
  <1>4. /\ TokenStart(t)[n] = n
        /\ TokenStart(t)[k] = IF Open(t, n, n) THEN n ELSE k
        /\ \A st : Reads(t, st) <=> ReadsToken(t, TokenStart(t)[k], st)
        /\ ClassOf(t)[k] = ClassInToken(t, TokenStart(t)[k], k)
        /\ ClassOf(t)[n] = ClassInToken(t, n, n)
    BY <1>1, <1>2, LastToken
  <1>5. Open(t, n, n) <=> ~Closes(t, n, Kind(t, n), n)
    <2>1. n..n = {n}
      BY <1>1
    <2>2. QED
      BY <2>1 DEF Open
  <1>6. Open(t, n, k) <=> Open(t, n, n) /\ ~Closes(t, n, Kind(t, n), k)
    <2>1. n <= n + 1
      BY <1>1
    <2>2. Open(t, n, n + 1) <=> Open(t, n, n) /\ ~Closes(t, n, Kind(t, n), n + 1)
      BY <1>1, <2>1, OpenNext
    <2>3. QED
      BY <1>1, <2>2
  <1>7. n <= n + 1 /\ k <= n + 1 /\ ~(n > n + 1) /\ ~(k > n + 1) /\ ~(n > n + 2) /\ ~(k > n + 2)
        /\ n # k
    BY <1>1
  <1>8. CASE chr = Slash
    <2>1. Kind(t, n) = "line"
      BY <1>3, <1>8, KindCases DEF Follows
    <2>2. Open(t, n, n) /\ Open(t, n, k)
      BY <1>5, <1>6, <1>7, <2>1, ClosesCases
    <2>3. Reads(t, "S_COMMENT_EOL")
      BY <1>3, <1>4, <1>8, <2>2 DEF ReadsToken
    <2>4. ClassOf(t)[n] = "CC_OUTER_COMMENT" /\ ClassOf(t)[k] = "CC_OUTER_COMMENT"
      BY <1>4, <1>7, <2>1, <2>2, ClassCases
    <2>5. /\ state' = "S_COMMENT_EOL" /\ cclass' = "CC_INNER_COMMENT"
          /\ EmitSlashAnd(chr, "CC_OUTER_COMMENT")
      BY <1>8, Distinct DEF InStartSlash, Goto
    <2>6. QED
      BY <1>1, <2>3, <2>4, <2>5 DEF ReadsOn, InnerClass, Pushed, Holds, EmitSlashAnd
  <1>9. CASE chr = Star
    <2>1. Kind(t, n) = "block"
      BY <1>3, <1>9, KindCases DEF Follows
    <2>2. Open(t, n, n) /\ Open(t, n, k)
      BY <1>5, <1>6, <1>7, <2>1, ClosesCases
    <2>3. Reads(t, "S_SLASH_STAR")
      BY <1>3, <1>4, <1>7, <1>9, <2>2 DEF ReadsToken
    <2>4. ClassOf(t)[n] = "CC_OUTER_COMMENT" /\ ClassOf(t)[k] = "CC_OUTER_COMMENT"
      BY <1>4, <1>7, <2>1, <2>2, ClassCases
    <2>5. /\ state' = "S_SLASH_STAR" /\ cclass' = "CC_INNER_COMMENT"
          /\ EmitSlashAnd(chr, "CC_OUTER_COMMENT")
      BY <1>9, Distinct DEF InStartSlash, Goto
    <2>6. QED
      BY <1>1, <2>3, <2>4, <2>5 DEF ReadsOn, InnerClass, Pushed, Holds, EmitSlashAnd
  <1>10. CASE chr \notin {Slash, Star}
    <2>1. Kind(t, n) = "code"
      <3>1. ~Follows(t, n, Star) /\ ~Follows(t, n, Slash) /\ t[n] \notin Quotes
        BY <1>3, <1>10, Distinct DEF Follows, Quotes
      <3>2. QED
        BY <3>1, KindCases
    <2>2. ~Open(t, n, n) /\ TokenStart(t)[k] = k
      BY <1>4, <1>5, <2>1, ClosesCases
    <2>3. chr \notin Quotes
      <3>1. n \in 1..(Len(t) - 1)
        BY <1>1, <1>2
      <3>2. QED
        BY <1>3, <1>4, <2>1, <3>1 DEF NoSlashQuote
    <2>4. Reads(t, "S_START") /\ ClassOf(t)[k] = "CC_CODE"
      <3>1. t[k] \notin {DQuote, SQuote, Slash}
        BY <1>10, <2>3 DEF Quotes
      <3>2. QED
        BY <1>1, <1>4, <2>2, <3>1, FreshToken
    <2>5. ClassOf(t)[n] = "CC_CODE"
      BY <1>4, <2>1, ClassCases
    <2>6. state' = "S_START" /\ EmitSlashAnd(chr, "CC_CODE")
      BY <1>10 DEF InStartSlash, Goto
    <2>7. QED
      BY <1>1, <2>4, <2>5, <2>6 DEF ReadsOn, InnerClass, Pushed, Holds, EmitSlashAnd
  <1>11. QED
    BY <1>8, <1>9, <1>10

\* A character in a string literal.
LEMMA ReadsDquote ==
  ASSUME NEW s, NEW t, NEW chr, Grown(s, t), t[Len(t)] = chr,
         Reads(s, state), InnerClass(state, cclass),
         InDquote(chr) \/ InDquoteEscape(chr)
  PROVE  ReadsOn(s, t, chr)
  <1> DEFINE n == Len(s)
             p == TokenStart(s)[n]
             k == Len(t)
             ends == chr = DQuote /\ state = "S_START_DQUOTE"
             escapes == chr = Backslash /\ state = "S_START_DQUOTE"
  <1>1. /\ n \in Nat /\ k = n + 1 /\ k \in Nat
        /\ state \in {"S_START_DQUOTE", "S_DQUOTE_ESCAPE"}
        /\ cclass = "CC_INNER_STRING"
    BY DEF Grown, InDquote, InDquoteEscape, InnerClass
  <1>2. n > 0 /\ s[p] = DQuote /\ Open(s, p, n) /\ (state = "S_DQUOTE_ESCAPE" <=> Escaped(s, p, k))
    <2>1. n # 0 /\ ReadsToken(s, p, state)
      BY <1>1 DEF Reads
    <2>2. QED
      BY <1>1, <2>1 DEF ReadsToken
  <1>3. p \in 1..n
    BY <1>2, LastToken
  <1> HIDE DEF p
  <1>4. /\ Open(t, p, n) /\ (ends <=> ~Open(t, p, k)) /\ (ends <=> k \in Closers(t, p))
        /\ Escaped(t, p, k + 1) <=> escapes
    <2>1. DQuote \in Quotes
      BY DEF Quotes
    <2>2. chr = t[n + 1]
      BY <1>1
    <2>3. QED
      BY <1>1, <1>2, <1>3, <2>1, <2>2, LiteralGoesOn
  <1>5. /\ \A st : Reads(t, st) <=> ReadsToken(t, p, st)
        /\ ClassOf(t)[k] = ClassInToken(t, p, k)
    BY <1>1, <1>2, <1>4, LastToken DEF p
  <1>6. t[p] = DQuote /\ p # k
    BY <1>1, <1>2, <1>3 DEF Grown
  <1>7. Kind(t, p) = "string"
    BY <1>6, KindCases
  <1>8. ~Holds
    BY <1>1 DEF Holds
  <1>9. CASE ends
    <2>1. Reads(t, "S_START")
      BY <1>4, <1>5, <1>6, <1>9 DEF ReadsToken
    <2>2. ClassOf(t)[k] = "CC_OUTER_STRING"
      BY <1>4, <1>5, <1>7, <1>9, ClassCases
    <2>3. state' = "S_START" /\ ccv' = ccv_push(ccv, chr, "CC_OUTER_STRING")
      BY <1>1, <1>9, Distinct DEF InDquote, InDquoteEscape, Goto, Emit
    <2>4. QED
      BY <1>8, <2>1, <2>2, <2>3 DEF ReadsOn, InnerClass, Pushed, Holds
  <1>10. CASE ~ends
    <2>1. ClassOf(t)[k] = "CC_INNER_STRING"
      BY <1>4, <1>5, <1>6, <1>7, <1>10, ClassCases
    <2>2. /\ state' = IF escapes THEN "S_DQUOTE_ESCAPE" ELSE "S_START_DQUOTE"
          /\ cclass' = "CC_INNER_STRING"
          /\ ccv' = ccv_push(ccv, chr, "CC_INNER_STRING")
      BY <1>1, <1>10, Distinct DEF InDquote, InDquoteEscape, Goto, Emit
    <2>3. Reads(t, state')
      BY <1>1, <1>4, <1>5, <1>6, <1>10, <2>2 DEF ReadsToken
    <2>4. QED
      BY <1>8, <2>1, <2>2, <2>3 DEF ReadsOn, InnerClass, Pushed, Holds
  <1>11. QED
    BY <1>9, <1>10

\* A character in a character literal.
LEMMA ReadsSquote ==
  ASSUME NEW s, NEW t, NEW chr, Grown(s, t), t[Len(t)] = chr,
         Reads(s, state), InnerClass(state, cclass),
         InSquote(chr) \/ InSquoteEscape(chr)
  PROVE  ReadsOn(s, t, chr)
  <1> DEFINE n == Len(s)
             p == TokenStart(s)[n]
             k == Len(t)
             ends == chr = SQuote /\ state = "S_START_SQUOTE"
             escapes == chr = Backslash /\ state = "S_START_SQUOTE"
  <1>1. /\ n \in Nat /\ k = n + 1 /\ k \in Nat
        /\ state \in {"S_START_SQUOTE", "S_SQUOTE_ESCAPE"}
        /\ cclass = "CC_INNER_CHAR"
    BY DEF Grown, InSquote, InSquoteEscape, InnerClass
  <1>2. n > 0 /\ s[p] = SQuote /\ Open(s, p, n) /\ (state = "S_SQUOTE_ESCAPE" <=> Escaped(s, p, k))
    <2>1. n # 0 /\ ReadsToken(s, p, state)
      BY <1>1 DEF Reads
    <2>2. QED
      BY <1>1, <2>1 DEF ReadsToken
  <1>3. p \in 1..n
    BY <1>2, LastToken
  <1> HIDE DEF p
  <1>4. /\ Open(t, p, n) /\ (ends <=> ~Open(t, p, k)) /\ (ends <=> k \in Closers(t, p))
        /\ Escaped(t, p, k + 1) <=> escapes
    <2>1. SQuote \in Quotes
      BY DEF Quotes
    <2>2. chr = t[n + 1]
      BY <1>1
    <2>3. QED
      BY <1>1, <1>2, <1>3, <2>1, <2>2, LiteralGoesOn
  <1>5. /\ \A st : Reads(t, st) <=> ReadsToken(t, p, st)
        /\ ClassOf(t)[k] = ClassInToken(t, p, k)
    BY <1>1, <1>2, <1>4, LastToken DEF p
  <1>6. t[p] = SQuote /\ p # k
    BY <1>1, <1>2, <1>3 DEF Grown
  <1>7. Kind(t, p) = "char"
    BY <1>6, KindCases
  <1>8. ~Holds
    BY <1>1 DEF Holds
  <1>9. CASE ends
    <2>1. Reads(t, "S_START")
      BY <1>4, <1>5, <1>6, <1>9 DEF ReadsToken
    <2>2. ClassOf(t)[k] = "CC_OUTER_CHAR"
      BY <1>4, <1>5, <1>7, <1>9, ClassCases
    <2>3. state' = "S_START" /\ ccv' = ccv_push(ccv, chr, "CC_OUTER_CHAR")
      BY <1>1, <1>9, Distinct DEF InSquote, InSquoteEscape, Goto, Emit, EndSquote
    <2>4. QED
      BY <1>8, <2>1, <2>2, <2>3 DEF ReadsOn, InnerClass, Pushed, Holds
  <1>10. CASE ~ends
    <2>1. ClassOf(t)[k] = "CC_INNER_CHAR"
      BY <1>4, <1>5, <1>6, <1>7, <1>10, ClassCases
    <2>2. /\ state' = IF escapes THEN "S_SQUOTE_ESCAPE" ELSE "S_START_SQUOTE"
          /\ cclass' = "CC_INNER_CHAR"
          /\ ccv' = ccv_push(ccv, chr, "CC_INNER_CHAR")
      BY <1>1, <1>10, Distinct DEF InSquote, InSquoteEscape, Goto, Emit, EndSquote
    <2>3. Reads(t, state')
      BY <1>1, <1>4, <1>5, <1>6, <1>10, <2>2 DEF ReadsToken
    <2>4. QED
      BY <1>8, <2>1, <2>2, <2>3 DEF ReadsOn, InnerClass, Pushed, Holds
  <1>11. QED
    BY <1>9, <1>10

\* A character in a comment.
LEMMA ReadsComment ==
  ASSUME NEW s, NEW t, NEW chr, Grown(s, t), t[Len(t)] = chr,
         Reads(s, state), InnerClass(state, cclass),
         InSlashStar(chr) \/ InSlashStarStar(chr) \/ InCommentEol(chr)
  PROVE  ReadsOn(s, t, chr)
  <1> DEFINE n == Len(s)
             p == TokenStart(s)[n]
             k == Len(t)
  <1>1. /\ n \in Nat /\ k = n + 1 /\ k \in Nat
        /\ state \in {"S_SLASH_STAR", "S_SLASH_STAR_STAR", "S_COMMENT_EOL"}
        /\ cclass = "CC_INNER_COMMENT"
        /\ ccv' = ccv_push(ccv, chr, "CC_INNER_COMMENT")
    BY DEF Grown, InSlashStar, InSlashStarStar, InCommentEol, InnerClass, Emit
  <1>2. /\ n > 0 /\ s[p] = Slash /\ p < n /\ Open(s, p, n)
        /\ state = "S_COMMENT_EOL" => s[p + 1] = Slash
        /\ state # "S_COMMENT_EOL" =>
              /\ s[p + 1] = Star
              /\ state = "S_SLASH_STAR_STAR" <=> n > p + 1 /\ s[n] = Star
    <2>1. n # 0 /\ ReadsToken(s, p, state)
      BY <1>1 DEF Reads
    <2>2. QED
      BY <1>1, <2>1 DEF ReadsToken
  <1>3. p \in 1..n
    BY <1>2, LastToken
  <1> HIDE DEF p
  <1>4. s[p + 1] \in {Star, Slash}
    BY <1>2
  <1>5. /\ Open(t, p, n) /\ t[p] = Slash /\ t[p + 1] = s[p + 1]
        /\ s[p + 1] = Star =>
             (Open(t, p, n + 1) <=> ~(n + 1 > p + 2 /\ t[n + 1] = Slash /\ s[n] = Star))
        /\ s[p + 1] = Slash => (Open(t, p, n + 1) <=> t[n + 1] # Newline)
        /\ ClassInToken(t, p, n + 1) = "CC_INNER_COMMENT"
    BY <1>2, <1>3, <1>4, CommentGoesOn
  <1>6. /\ \A st : Reads(t, st) <=> ReadsToken(t, p, st)
        /\ ClassOf(t)[k] = "CC_INNER_COMMENT"
    BY <1>1, <1>2, <1>5, LastToken DEF p
  <1>7. (n + 1 > p + 2 <=> n > p + 1) /\ k > p + 1 /\ p < k /\ p # k
    BY <1>1, <1>2, <1>3
  <1>8. ~Holds
    BY <1>1 DEF Holds
  <1>9. CASE state = "S_COMMENT_EOL"
    <2>1. state' = IF chr = Newline THEN "S_START" ELSE "S_COMMENT_EOL"
      BY <1>9 DEF InSlashStar, InSlashStarStar, InCommentEol, Goto
    <2>2. chr # Newline => cclass' = "CC_INNER_COMMENT"
      BY <1>1, <1>9 DEF InSlashStar, InSlashStarStar, InCommentEol, Goto
    <2>3. Open(t, p, k) <=> chr # Newline
      BY <1>1, <1>2, <1>5, <1>9
    <2>4. t[p + 1] = Slash
      BY <1>2, <1>5, <1>9
    <2>5. Reads(t, state')
      BY <1>5, <1>6, <1>7, <2>1, <2>3, <2>4 DEF ReadsToken
    <2>6. QED
      BY <1>1, <1>6, <1>8, <2>1, <2>2, <2>5 DEF ReadsOn, InnerClass, Pushed, Holds
  <1>10. CASE state # "S_COMMENT_EOL"
    <2> DEFINE ends == chr = Slash /\ state = "S_SLASH_STAR_STAR"
    <2>1. /\ state' = IF ends THEN "S_START"
                      ELSE IF chr = Star THEN "S_SLASH_STAR_STAR" ELSE "S_SLASH_STAR"
          /\ ~ends => cclass' = "CC_INNER_COMMENT"
      BY <1>1, <1>10, Distinct DEF InSlashStar, InSlashStarStar, InCommentEol, Goto
    <2>2. Open(t, p, k) <=> ~ends
      BY <1>1, <1>2, <1>5, <1>7, <1>10
    <2>3. t[p + 1] = Star
      BY <1>2, <1>5, <1>10
    <2>4. Reads(t, state')
      BY <1>5, <1>6, <1>7, <2>1, <2>2, <2>3 DEF ReadsToken
    <2>5. QED
      BY <1>1, <1>6, <1>8, <2>1, <2>4 DEF ReadsOn, InnerClass, Pushed, Holds
  <1>11. QED
    BY <1>9, <1>10

\* Every character: as long as no division sign has a quote behind it, the
\* machine knows in which part of which token the text ends, and the class
\* of what it pushes is the one that the text calls for.
LEMMA ReadsChar ==
  ASSUME NEW s, NEW t, NEW chr, Grown(s, t), t[Len(t)] = chr,
         Reads(s, state), InnerClass(state, cclass), NoSlashQuote(t), CharStep(chr)
  PROVE  ReadsOn(s, t, chr)
  BY ReadsStart, ReadsSlash, ReadsDquote, ReadsSquote, ReadsComment DEF CharStep

\* A text with a quote behind a division sign keeps it.
LEMMA SlashQuoteStays ==
  ASSUME NEW s, NEW t, Extends(s, t), NoSlashQuote(t)
  PROVE  NoSlashQuote(s)
  <1>1. SUFFICES ASSUME NEW i \in 1..(Len(s) - 1), TokenStart(s)[i] = i,
                        Kind(s, i) = "code", s[i] = Slash
                 PROVE  s[i + 1] \notin Quotes
    BY DEF NoSlashQuote
  <1>2. /\ i \in 1..Len(s) /\ i < Len(s) /\ i + 1 \in 1..Len(s) /\ i \in 1..(Len(t) - 1)
        /\ t[i] = s[i] /\ t[i + 1] = s[i + 1]
    BY DEF Extends
  <1>3. TokenStart(t)[i] = i
    BY <1>1, <1>2, SameStart
  <1>4. Kind(t, i) = "code"
    BY <1>1, <1>2, SameKind
  <1>5. QED
    BY <1>1, <1>2, <1>3, <1>4 DEF NoSlashQuote

\* The class of every character is settled, but for a '/' held back.
LEMMA Settled ==
  ASSUME NEW s, NEW t, Extends(s, t), NEW st, Reads(s, st), NEW i \in 1..Len(s),
         i < Len(s) \/ st # "S_START_SLASH"
  PROVE  ClassOf(t)[i] = ClassOf(s)[i]
  <1> DEFINE n == Len(s)
             p == TokenStart(s)[n]
  <1>1. n \in Nat
    BY DEF Extends
  <1>2. CASE i < n
    BY <1>2, SameClass
  <1>3. CASE i = n
    <2>1. n # 0 /\ st # "S_START_SLASH"
      BY <1>1, <1>3
    <2>2. ReadsToken(s, p, st)
      BY <2>1 DEF Reads
    <2>3. p \in 1..n
      BY <1>1, <1>3, StartFacts
    <2> HIDE DEF p
    <2>4. p < n \/ s[n] # Slash
      <3>1. SUFFICES ASSUME p = n, s[n] = Slash PROVE FALSE
        BY <1>1, <2>3
      <3>2. QED
        BY <1>1, <2>1, <2>2, <3>1, Distinct DEF ReadsToken
    <2>5. QED
      BY <1>3, <2>4, SameClass DEF p
  <1>4. QED
    BY <1>1, <1>2, <1>3

\* The class of a position is one of text.
LEMMA ClassOfText ==
  ASSUME NEW s, NEW k \in 1..Len(s)
  PROVE  ClassOf(s)[k] \in TextClass
  <1> DEFINE i == TokenStart(s)[k]
  <1>1. ClassOf(s)[k] = ClassInToken(s, i, k)
    BY ClassIs
  <1> HIDE DEF i
  <1>2. Kind(s, i) \in KindNames
    BY KindType
  <1>3. ClassInToken(s, i, k) \in TextClass
    <2>1. ClassInToken(s, i, k) \in
            {"CC_CODE", "CC_OUTER_STRING", "CC_INNER_STRING", "CC_OUTER_CHAR",
             "CC_INNER_CHAR", "CC_OUTER_COMMENT", "CC_INNER_COMMENT"}
      BY <1>2, ClassCases DEF KindNames
    <2>2. QED
      BY <2>1 DEF TextClass
  <1>4. QED
    BY <1>1, <1>3
============================================================================
