--------------------------- MODULE CStreamProofs ---------------------------
(***************************************************************************)
(* For every alphabet and every length of text: libcf never reports an     *)
(* internal error, its lookahead loses no character, and each character    *)
(* gets its class.                                                         *)
(***************************************************************************)
EXTENDS CStream, CFilterProofs

\* What NoCharLost needs to be inductive: before the end of the file no mark
\* is in the array, and the text lags behind by one character exactly while
\* the machine holds a '/' back.
HeldSlash ==
    state # "S_EOF" =>
        /\ \A i \in 1..Len(ccv) : ccv[i].ccl # "CC_EOF"
        /\ Holds <=> TextLen # Len(src)

StreamInv ==
    /\ CFInv
    /\ src \in Seq(Chars)
    /\ out \in Seq(SuperChar)
    /\ EofLast
    /\ NoCharLost
    /\ HeldSlash

\* The characters of a text are characters that cf_next takes.
LEMMA AlphabetChars == Alphabet \subseteq Chars
  BY CStreamAssumption

\* The initial state.
LEMMA StreamInit == Init => StreamInv
  <1> SUFFICES ASSUME Init PROVE StreamInv
    OBVIOUS
  <1>1. CFInv
    BY InitEstablishes DEF Init
  <1>2. src = <<>> /\ out = <<>> /\ ccv = <<>> /\ state = "S_START"
    BY DEF Init, cf_init
  <1>3. ~EndMarked
    BY <1>2 DEF EndMarked
  <1>4. TextLen = 0
    BY <1>2, <1>3 DEF TextLen
  <1>5. QED
    BY <1>1, <1>2, <1>4 DEF StreamInv, EofLast, NoCharLost, HeldSlash, Holds

\* A push on an array with room appends.
LEMMA PushAppends ==
  ASSUME NEW v \in Seq(SuperChar), Len(v) < NLOOKAHEAD, NEW chr, NEW ccl
  PROVE  ccv_push(v, chr, ccl) = Append(v, [chr |-> chr, ccl |-> ccl])
  BY DEF ccv_push, NLOOKAHEAD

\* A call with a character before the end of the file.
LEMMA FeedText ==
  ASSUME StreamInv, NEW chr \in Chars, chr # EOF, Feed(chr), CharStep(chr)
  PROVE  (EofLast /\ NoCharLost /\ HeldSlash)'
  <1> DEFINE n == Len(out) + Len(ccv)
  <1>1. /\ CFInv /\ src \in Seq(Chars) /\ out \in Seq(SuperChar)
        /\ ccv \in Seq(SuperChar) /\ Len(ccv) + 2 <= NLOOKAHEAD
        /\ Len(ccv) \in Nat /\ Len(out) \in Nat /\ Len(src) \in Nat
    BY DEF StreamInv, CFInv, CFilterTypeOK, Feed
  <1>2. state # "S_EOF" /\ state' # "S_EOF"
    BY <1>1, CharStepPushes
  <1>3. /\ \A i \in 1..Len(ccv) : ccv[i].ccl # "CC_EOF"
        /\ Holds <=> TextLen # Len(src)
    BY <1>2 DEF StreamInv, HeldSlash
  <1>4. ~EndMarked /\ TextLen = n
    BY <1>1, <1>3 DEF EndMarked, TextLen
  <1>5. src' = Append(src, chr) /\ out' = out
    BY <1>2 DEF Feed
  <1>6. /\ n \in {Len(src) - 1, Len(src)}
        /\ \A i \in 1..n : Text(i).chr = src[i]
        /\ n # Len(src) => src[Len(src)] = Slash
    BY <1>4 DEF StreamInv, NoCharLost
  <1>7. Len(src') = Len(src) + 1 /\ src'[Len(src')] = chr
        /\ \A i \in 1..Len(src) : src'[i] = src[i]
    BY <1>1, <1>5
  \* It is enough to look at the array as it is afterwards.
  <1>8. ASSUME NEW m \in Nat, Len(ccv') = m, ccv' \in Seq(SuperChar),
               \A i \in 1..m : ccv'[i].ccl # "CC_EOF",
               \A i \in 1..Len(ccv) : ccv'[i] = ccv[i],
               m >= Len(ccv),
               \A i \in (Len(ccv) + 1)..m : ccv'[i].chr = src'[Len(out) + i],
               \/ ~Holds' /\ Len(out) + m = Len(src')
               \/ Holds' /\ Len(out) + m = Len(src') - 1 /\ chr = Slash
        PROVE  (EofLast /\ NoCharLost /\ HeldSlash)'
    <2>1. ~EndMarked'
      BY <1>8 DEF EndMarked
    <2>2. TextLen' = Len(out) + m
      BY <1>5, <1>8, <2>1 DEF TextLen
    <2>3. EofLast'
      BY <1>8 DEF EofLast
    <2>4. HeldSlash'
      BY <1>1, <1>2, <1>7, <1>8, <2>2 DEF HeldSlash
    <2>5. ASSUME NEW i \in 1..(Len(out) + m)
          PROVE  Text(i)'.chr = src'[i]
      <3>1. CASE i <= Len(out)
        <4>1. Text(i)' = out[i] /\ Text(i) = out[i] /\ i \in 1..n /\ i \in 1..Len(src)
          BY <1>1, <1>5, <1>6, <3>1 DEF Text
        <4>2. QED
          BY <1>6, <1>7, <4>1
      <3>2. CASE i > Len(out) /\ i <= n
        <4>1. i - Len(out) \in 1..Len(ccv) /\ i \in 1..n /\ i \in 1..Len(src)
          BY <1>1, <1>6, <3>2
        <4>2. Text(i)' = ccv'[i - Len(out)] /\ Text(i) = ccv[i - Len(out)]
          BY <1>1, <1>5, <3>2 DEF Text
        <4>3. QED
          BY <1>6, <1>7, <1>8, <4>1, <4>2
      <3>3. CASE i > n
        <4>1. i - Len(out) \in (Len(ccv) + 1)..m
          BY <1>1, <1>8, <3>3
        <4>2. Text(i)' = ccv'[i - Len(out)]
          BY <1>1, <1>5, <3>3 DEF Text
        <4>3. Len(out) + (i - Len(out)) = i
          BY <1>1
        <4>4. ccv'[i - Len(out)].chr = src'[Len(out) + (i - Len(out))]
          BY <1>8, <4>1
        <4>5. QED
          BY <4>2, <4>3, <4>4
      <3>4. QED
        BY <1>1, <3>1, <3>2, <3>3
    <2>6. NoCharLost'
      BY <1>1, <1>2, <1>7, <1>8, <2>2, <2>5 DEF NoCharLost, Holds
    <2>7. QED
      BY <2>3, <2>4, <2>6
  <1>9. CASE ~Holds /\ Holds' /\ chr = Slash /\ ccv' = ccv
    BY <1>1, <1>3, <1>4, <1>7, <1>8, <1>9
  <1>10. CASE ~Holds /\ ~Holds' /\ \E ccl \in TextClass : ccv' = ccv_push(ccv, chr, ccl)
    <2>1. PICK ccl \in TextClass : ccv' = ccv_push(ccv, chr, ccl)
      BY <1>10
    <2>2. ccv' = Append(ccv, [chr |-> chr, ccl |-> ccl])
      <3>1. Len(ccv) < NLOOKAHEAD
        BY <1>1 DEF NLOOKAHEAD
      <3>2. ccv_push(ccv, chr, ccl) = Append(ccv, [chr |-> chr, ccl |-> ccl])
        BY <1>1, <3>1, PushAppends
      <3>3. QED
        BY <2>1, <3>2
    <2>3. ccv' \in Seq(SuperChar)
      BY <1>1, <2>2, TextClasses DEF SuperChar
    <2>4. /\ Len(ccv') = Len(ccv) + 1
          /\ \A i \in 1..Len(ccv) : ccv'[i] = ccv[i]
          /\ ccv'[Len(ccv) + 1] = [chr |-> chr, ccl |-> ccl]
      BY <1>1, <2>2
    <2>5. n = Len(src)
      BY <1>3, <1>4, <1>10
    <2>6. \A i \in 1..(Len(ccv) + 1) : ccv'[i].ccl # "CC_EOF"
      <3>1. \A i \in 1..(Len(ccv) + 1) : i \in 1..Len(ccv) \/ i = Len(ccv) + 1
        BY <1>1
      <3>2. \A i \in 1..Len(ccv) : ccv'[i].ccl # "CC_EOF"
        BY <1>3, <2>4
      <3>3. ccv'[Len(ccv) + 1].ccl = ccl /\ ccl # "CC_EOF"
        BY <2>4, TextClasses
      <3>4. QED
        BY <3>1, <3>2, <3>3
    <2>7. \A i \in (Len(ccv) + 1)..(Len(ccv) + 1) : ccv'[i].chr = src'[Len(out) + i]
      BY <1>1, <1>7, <2>4, <2>5
    <2>8. QED
      BY <1>1, <1>7, <1>8, <1>10, <2>3, <2>4, <2>5, <2>6, <2>7
  <1>11. CASE Holds /\ ~Holds' /\ \E ccl \in TextClass :
                 ccv' = ccv_push(ccv_push(ccv, Slash, ccl), chr, ccl)
    <2>1. PICK ccl \in TextClass :
             ccv' = ccv_push(ccv_push(ccv, Slash, ccl), chr, ccl)
      BY <1>11
    <2> DEFINE v == Append(ccv, [chr |-> Slash, ccl |-> ccl])
    <2>2. ccv_push(ccv, Slash, ccl) = v
      BY <1>1, PushAppends DEF NLOOKAHEAD
    <2>3. v \in Seq(SuperChar) /\ Len(v) = Len(ccv) + 1
      BY <1>1, TextClasses DEF SuperChar, Chars, Special
    <2>4. ccv' = Append(v, [chr |-> chr, ccl |-> ccl])
      <3> HIDE DEF v
      <3> QED
        BY <1>1, <2>1, <2>2, <2>3, PushAppends DEF NLOOKAHEAD
    <2>5. ccv' \in Seq(SuperChar)
      <3> HIDE DEF v
      <3> QED
        BY <2>3, <2>4, TextClasses DEF SuperChar
    <2>6. /\ Len(ccv') = Len(ccv) + 2
          /\ \A i \in 1..Len(ccv) : ccv'[i] = ccv[i]
          /\ ccv'[Len(ccv) + 1] = [chr |-> Slash, ccl |-> ccl]
          /\ ccv'[Len(ccv) + 2] = [chr |-> chr, ccl |-> ccl]
      BY <1>1, <2>3, <2>4
    <2>7. n = Len(src) - 1 /\ src[Len(src)] = Slash
      BY <1>1, <1>3, <1>4, <1>6, <1>11
    <2>8. \A i \in 1..(Len(ccv) + 2) : ccv'[i].ccl # "CC_EOF"
      <3>1. \A i \in 1..(Len(ccv) + 2) :
               i \in 1..Len(ccv) \/ i = Len(ccv) + 1 \/ i = Len(ccv) + 2
        BY <1>1
      <3>2. \A i \in 1..Len(ccv) : ccv'[i].ccl # "CC_EOF"
        BY <1>3, <2>6
      <3>3. ccv'[Len(ccv) + 1].ccl = ccl /\ ccv'[Len(ccv) + 2].ccl = ccl /\ ccl # "CC_EOF"
        BY <2>6, TextClasses
      <3>4. QED
        BY <3>1, <3>2, <3>3
    <2>9. \A i \in (Len(ccv) + 1)..(Len(ccv) + 2) : ccv'[i].chr = src'[Len(out) + i]
      <3>1. Len(out) + (Len(ccv) + 1) = Len(src) /\ Len(out) + (Len(ccv) + 2) = Len(src')
        BY <1>1, <1>7, <2>7
      <3>2. src'[Len(src)] = Slash
        BY <1>1, <1>7, <2>7, <3>1
      <3>3. SUFFICES ASSUME NEW i \in (Len(ccv) + 1)..(Len(ccv) + 2)
                     PROVE  ccv'[i].chr = src'[Len(out) + i]
        OBVIOUS
      <3>4. i = Len(ccv) + 1 \/ i = Len(ccv) + 2
        BY <1>1
      <3>5. CASE i = Len(ccv) + 1
        <4>1. ccv'[Len(ccv) + 1].chr = Slash
          BY <2>6
        <4>2. QED
          BY <3>1, <3>2, <3>5, <4>1
      <3>6. CASE i = Len(ccv) + 2
        <4>1. ccv'[Len(ccv) + 2].chr = chr
          BY <2>6
        <4>2. QED
          BY <1>7, <3>1, <3>6, <4>1
      <3>7. QED
        BY <3>4, <3>5, <3>6
    <2>10. Len(ccv) + 2 \in Nat /\ Len(ccv) + 2 >= Len(ccv)
           /\ Len(out) + (Len(ccv) + 2) = Len(src')
      BY <1>1, <1>7, <2>7
    <2> HIDE DEF n, v
    <2>11. QED
      BY <1>8, <1>11, <2>5, <2>6, <2>8, <2>9, <2>10
  <1>12. QED
    BY <1>1, <1>9, <1>10, <1>11, CharStepPushes

\* A step that leaves what came out, taken or not, as it is.
SameText ==
    /\ src' = src
    /\ TextLen' = TextLen
    /\ \A i \in 1..TextLen : Text(i)' = Text(i)

\* A call at the end of the file, or after it.
LEMMA FeedEnd ==
  ASSUME StreamInv, NEW chr \in Chars \cup {EOF}, Feed(chr), cf_eof(chr)
  PROVE  (EofLast /\ NoCharLost /\ HeldSlash)' /\ SameText
  <1>1. /\ CFInv /\ src \in Seq(Chars) /\ out \in Seq(SuperChar)
        /\ ccv \in Seq(SuperChar) /\ Len(ccv) + 2 <= NLOOKAHEAD
        /\ Len(ccv) \in Nat /\ Len(out) \in Nat /\ Len(src) \in Nat
    BY DEF StreamInv, CFInv, CFilterTypeOK, Feed
  <1>2. state' = "S_EOF" /\ src' = src /\ out' = out
    BY DEF cf_eof, MarkEnd, Feed
  <1>3. HeldSlash'
    BY <1>2 DEF HeldSlash
  <1>4. CASE EndMarked
    <2>1. ccv' = ccv
      BY <1>4 DEF cf_eof, MarkEnd, ccv_top, EndMarked
    <2>2. QED
      BY <1>2, <1>3, <2>1
         DEF StreamInv, EofLast, NoCharLost, TextLen, Text, EndMarked, SameText
  <1>5. CASE ~EndMarked
    <2> DEFINE mark == [chr |-> Nul, ccl |-> "CC_EOF"]
    <2>1. ccv_top.ccl # "CC_EOF"
      BY <1>5 DEF ccv_top, EndMarked
    <2>2. ccv' = Append(ccv, mark)
      <3>1. ccv' = ccv_push(ccv, Nul, "CC_EOF")
        BY <2>1 DEF cf_eof, MarkEnd
      <3>2. Len(ccv) < NLOOKAHEAD
        BY <1>1 DEF NLOOKAHEAD
      <3>3. QED
        BY <1>1, <3>1, <3>2, PushAppends
    <2>3. /\ Len(ccv') = Len(ccv) + 1
          /\ \A i \in 1..Len(ccv) : ccv'[i] = ccv[i]
          /\ ccv'[Len(ccv')] = mark
          /\ ccv' # <<>>
      BY <1>1, <2>2
    <2>4. EndMarked' /\ TextLen' = TextLen
      BY <1>1, <1>2, <1>5, <2>3 DEF EndMarked, TextLen
    <2>5. \A i \in 1..Len(ccv) : ccv[i].ccl # "CC_EOF"
      BY <1>1, <1>5 DEF StreamInv, EofLast, EndMarked
    <2>6. EofLast'
      BY <1>1, <2>3, <2>5 DEF EofLast
    <2>7. TextLen = Len(out) + Len(ccv)
      BY <1>5 DEF TextLen
    <2>8. ASSUME NEW i \in 1..TextLen PROVE Text(i)' = Text(i)
      <3>1. CASE i <= Len(out)
        BY <1>2, <3>1 DEF Text
      <3>2. CASE ~(i <= Len(out))
        <4>1. i - Len(out) \in 1..Len(ccv)
          BY <1>1, <2>7, <3>2
        <4>2. QED
          BY <1>2, <2>3, <3>2, <4>1 DEF Text
      <3>3. QED
        BY <3>1, <3>2
    <2>9. NoCharLost'
      BY <1>2, <2>4, <2>8 DEF StreamInv, NoCharLost
    <2>10. SameText
      BY <1>2, <2>4, <2>8 DEF SameText
    <2>11. QED
      BY <1>3, <2>6, <2>9, <2>10
  <1>6. QED
    BY <1>4, <1>5

\* Taking the first super-character out.
LEMMA TakeKeeps ==
  ASSUME StreamInv, Take
  PROVE  /\ (out \in Seq(SuperChar) /\ CFInv /\ EofLast /\ NoCharLost /\ HeldSlash)'
         /\ SameText
  <1>1. /\ CFInv /\ src \in Seq(Chars) /\ out \in Seq(SuperChar)
        /\ ccv \in Seq(SuperChar) /\ Len(ccv) <= NLOOKAHEAD /\ ccv # <<>>
        /\ Len(ccv) \in Nat /\ Len(out) \in Nat /\ Len(src) \in Nat
    BY DEF StreamInv, CFInv, CFilterTypeOK, Take
  <1>2. /\ ccv' = Tail(ccv) /\ src' = src /\ state' = state
        /\ UNCHANGED <<cclass, err, rv>>
    BY DEF Take
  <1>3. /\ Len(ccv) > 0
        /\ ccv' \in Seq(SuperChar) /\ Len(ccv') = Len(ccv) - 1
        /\ \A i \in 1..(Len(ccv) - 1) : ccv'[i] = ccv[i + 1]
        /\ Head(ccv) = ccv[1] /\ Head(ccv) \in SuperChar
    BY <1>1, <1>2
  <1>4. CFInv'
    BY <1>1, <1>2, <1>3 DEF CFInv, CFilterTypeOK, NLOOKAHEAD
  <1>5. EofLast'
    BY <1>1, <1>3 DEF StreamInv, EofLast
  <1>6. CASE Head(ccv).ccl = "CC_EOF"
    <2>1. Len(ccv) = 1 /\ EndMarked
      BY <1>1, <1>3, <1>6 DEF StreamInv, EofLast, EndMarked
    <2>2. out' = out /\ ccv' = <<>>
      BY <1>1, <1>2, <1>3, <1>6, <2>1 DEF Take
    <2>3. ~EndMarked' /\ TextLen' = TextLen /\ TextLen = Len(out)
      BY <1>1, <2>1, <2>2 DEF EndMarked, TextLen
    <2>4. \A i \in 1..TextLen : Text(i)' = Text(i)
      BY <2>2, <2>3 DEF Text
    <2>5. NoCharLost'
      BY <1>2, <2>3, <2>4 DEF StreamInv, NoCharLost
    <2>6. HeldSlash'
      BY <1>2, <2>2, <2>3 DEF StreamInv, HeldSlash, Holds
    <2>7. QED
      BY <1>1, <1>2, <1>4, <1>5, <2>2, <2>3, <2>4, <2>5, <2>6 DEF SameText
  <1>7. CASE Head(ccv).ccl # "CC_EOF"
    <2>1. out' = Append(out, Head(ccv))
      BY <1>7 DEF Take
    <2>2. /\ out' \in Seq(SuperChar) /\ Len(out') = Len(out) + 1
          /\ \A i \in 1..Len(out) : out'[i] = out[i]
          /\ out'[Len(out) + 1] = ccv[1]
      BY <1>1, <1>3, <2>1
    <2>3. EndMarked' <=> EndMarked
      <3>1. CASE Len(ccv) = 1
        BY <1>1, <1>2, <1>3, <1>7, <3>1 DEF EndMarked
      <3>2. CASE Len(ccv) > 1
        <4>1. ccv'[Len(ccv')] = ccv[Len(ccv)] /\ ccv' # <<>>
          BY <1>1, <1>3, <3>2
        <4>2. QED
          BY <1>1, <4>1 DEF EndMarked
      <3>3. QED
        BY <1>1, <1>3, <3>1, <3>2
    <2>4. TextLen' = TextLen
      <3>1. CASE EndMarked
        <4>1. /\ TextLen = Len(out) + (Len(ccv) - 1)
              /\ TextLen' = Len(out') + (Len(ccv') - 1)
          BY <2>3, <3>1 DEF TextLen
        <4>2. QED
          BY <1>1, <1>3, <2>2, <4>1
      <3>2. CASE ~EndMarked
        <4>1. TextLen = Len(out) + Len(ccv) /\ TextLen' = Len(out') + Len(ccv')
          BY <2>3, <3>2 DEF TextLen
        <4>2. QED
          BY <1>1, <1>3, <2>2, <4>1
      <3>3. QED
        BY <3>1, <3>2
    <2>5. TextLen <= Len(out) + Len(ccv) /\ TextLen \in Int
      BY <1>1, <1>3 DEF TextLen
    <2>6. ASSUME NEW i \in 1..TextLen PROVE Text(i)' = Text(i)
      <3>1. CASE i <= Len(out)
        <4>1. i \in 1..Len(out) /\ i <= Len(out')
          BY <1>1, <2>2, <2>5, <3>1
        <4>2. QED
          BY <2>2, <3>1, <4>1 DEF Text
      <3>2. CASE i = Len(out) + 1
        <4>1. ~(i <= Len(out)) /\ i <= Len(out') /\ i - Len(out) = 1
          BY <1>1, <2>2, <3>2
        <4>2. QED
          BY <2>2, <3>2, <4>1 DEF Text
      <3>3. CASE i > Len(out) + 1
        <4>1. /\ ~(i <= Len(out)) /\ ~(i <= Len(out'))
              /\ i - Len(out') \in 1..(Len(ccv) - 1)
              /\ (i - Len(out')) + 1 = i - Len(out)
          BY <1>1, <2>2, <2>5, <3>3
        <4>2. QED
          BY <1>3, <4>1 DEF Text
      <3>4. QED
        BY <1>1, <2>5, <3>1, <3>2, <3>3
    <2>7. NoCharLost'
      BY <1>2, <2>4, <2>6 DEF StreamInv, NoCharLost
    <2>8. HeldSlash'
      BY <1>1, <1>2, <1>3, <2>4 DEF StreamInv, HeldSlash, Holds
    <2>9. QED
      BY <1>2, <1>4, <1>5, <2>2, <2>4, <2>6, <2>7, <2>8 DEF SameText
  <1>8. QED
    BY <1>6, <1>7

\* Every step keeps the invariant.
LEMMA StreamNext == StreamInv /\ [Next]_vars => StreamInv'
  <1> SUFFICES ASSUME StreamInv, [Next]_vars PROVE StreamInv'
    OBVIOUS
  <1>1. ASSUME NEW chr \in Chars \cup {EOF}, Feed(chr) PROVE StreamInv'
    <2>1. CFInv' /\ out' \in Seq(SuperChar) /\ src' \in Seq(Chars)
      <3>1. CFInv'
        BY <1>1, CallPreserves DEF StreamInv, Feed
      <3>2. out' \in Seq(SuperChar)
        BY <1>1 DEF StreamInv, Feed
      <3>3. src' \in Seq(Chars)
        BY <1>1 DEF StreamInv, Feed
      <3>4. QED
        BY <3>1, <3>2, <3>3
    <2>2. CASE cf_eof(chr)
      BY <1>1, <2>1, <2>2, FeedEnd DEF StreamInv
    <2>3. CASE chr # EOF /\ CharStep(chr)
      BY <1>1, <2>1, <2>3, FeedText DEF StreamInv
    <2>4. QED
      BY <1>1, <2>2, <2>3, NextCases DEF Feed
  <1>2. CASE FeedChar
    BY <1>1, <1>2, AlphabetChars DEF FeedChar
  <1>3. CASE FeedEOF
    BY <1>1, <1>3 DEF FeedEOF
  <1>4. CASE Take
    <2>1. src' = src
      BY <1>4 DEF Take
    <2>2. QED
      BY <1>4, <2>1, TakeKeeps DEF StreamInv
  <1>5. CASE UNCHANGED vars
    <2>1. CFInv'
      BY <1>5 DEF vars, StreamInv, CFInv, CFilterTypeOK
    <2>2. TextLen' = TextLen /\ \A i : Text(i)' = Text(i)
      BY <1>5 DEF vars, TextLen, Text, EndMarked
    <2>3. QED
      BY <1>5, <2>1, <2>2
         DEF vars, StreamInv, EofLast, NoCharLost, HeldSlash, Holds
  <1>6. QED
    BY <1>2, <1>3, <1>4, <1>5 DEF Next

\* Every variable of libcf keeps its type, whatever it is fed.
THEOREM StreamTypeOK == Spec => []TypeOK
  <1>1. StreamInv => TypeOK
    BY DEF StreamInv, CFInv, TypeOK
  <1>2. QED
    BY <1>1, StreamInit, StreamNext, PTL DEF Spec

\* No text makes the state machine abort or fail.
THEOREM StreamNoInternalError == Spec => []NoInternalError
  <1>1. StreamInv => NoInternalError
    BY DEF StreamInv, CFInv, NoInternalError
  <1>2. QED
    BY <1>1, StreamInit, StreamNext, PTL DEF Spec

\* The super-characters that come out are the text that went in, in order,
\* up to a '/' at its end.
THEOREM StreamNoCharLost == Spec => []NoCharLost
  <1>1. StreamInv => NoCharLost
    BY DEF StreamInv
  <1>2. QED
    BY <1>1, StreamInit, StreamNext, PTL DEF Spec

\* The array has at most one end-of-file mark, as its last element.
THEOREM StreamEofLast == Spec => []EofLast
  <1>1. StreamInv => EofLast
    BY DEF StreamInv
  <1>2. QED
    BY <1>1, StreamInit, StreamNext, PTL DEF Spec

----------------------------------------------------------------------------
\* What ClassifiesAsC needs to be inductive: before the end of the file the
\* state of the machine says in which part of which token the text ends.
ReadsText ==
    state # "S_EOF" /\ NoSlashQuote(src) =>
        Reads(src, state) /\ InnerClass(state, cclass)

ClassInv == StreamInv /\ ReadsText /\ ClassifiesAsC

\* The initial state.
LEMMA ClassInit == Init => ClassInv
  <1> SUFFICES ASSUME Init PROVE ClassInv
    OBVIOUS
  <1>1. StreamInv
    BY StreamInit
  <1>2. src = <<>> /\ out = <<>> /\ ccv = <<>> /\ state = "S_START"
    BY DEF Init, cf_init
  <1>3. ReadsText
    BY <1>2 DEF ReadsText, Reads, InnerClass
  <1>4. TextLen = 0
    <2>1. ~EndMarked
      BY <1>2 DEF EndMarked
    <2>2. QED
      BY <1>2, <2>1 DEF TextLen
  <1>5. ClassifiesAsC
    BY <1>4 DEF ClassifiesAsC
  <1>6. QED
    BY <1>1, <1>3, <1>5 DEF ClassInv

\* A step that adds nothing to the text.
LEMMA SameTextKeeps ==
  ASSUME ClassInv, SameText
  PROVE  ClassifiesAsC'
  BY DEF ClassInv, SameText, ClassifiesAsC

\* A call with a character before the end of the file.
LEMMA FeedClasses ==
  ASSUME ClassInv, StreamInv', NEW chr \in Chars, chr # EOF, Feed(chr), CharStep(chr)
  PROVE  (ReadsText /\ ClassifiesAsC)'
  <1> DEFINE n == Len(src)
             t == src'
  <1>1. /\ StreamInv /\ CFInv /\ src \in Seq(Chars) /\ out \in Seq(SuperChar)
        /\ ccv \in Seq(SuperChar) /\ Len(ccv) + 2 <= NLOOKAHEAD
        /\ Len(ccv) \in Nat /\ Len(out) \in Nat /\ n \in Nat
    BY DEF ClassInv, StreamInv, CFInv, CFilterTypeOK, Feed
  <1>2. state # "S_EOF" /\ state' # "S_EOF"
    BY <1>1, CharStepPushes
  <1>3. src' = Append(src, chr) /\ out' = out
    BY <1>2 DEF Feed
  <1>4. Grown(src, t) /\ t[Len(t)] = chr /\ Len(t) = n + 1
    BY <1>1, <1>3 DEF Grown
  <1>5. SUFFICES ASSUME NoSlashQuote(t)
                 PROVE  /\ Reads(t, state') /\ InnerClass(state', cclass')
                        /\ \A i \in 1..TextLen' : Text(i)'.ccl = ClassOf(t)[i]
    BY DEF ReadsText, ClassifiesAsC
  <1>6. NoSlashQuote(src)
    BY <1>4, <1>5, SlashQuoteStays, GrownExtends
  <1>7. Reads(src, state) /\ InnerClass(state, cclass)
    BY <1>2, <1>6 DEF ClassInv, ReadsText
  <1>8. ReadsOn(src, t, chr)
    BY <1>4, <1>5, <1>7, ReadsChar
  <1>9. /\ TextLen = Len(out) + Len(ccv)
        /\ TextLen' = Len(out) + Len(ccv')
        /\ Holds <=> TextLen # n
        /\ TextLen \in {n - 1, n}
    <2>1. ~EndMarked
      BY <1>1, <1>2 DEF StreamInv, HeldSlash, EndMarked
    <2>2. ccv' \in Seq(SuperChar) /\ \A i \in 1..Len(ccv') : ccv'[i].ccl # "CC_EOF"
      BY <1>2 DEF StreamInv, HeldSlash, CFInv, CFilterTypeOK
    <2>3. ~EndMarked'
      BY <2>2 DEF EndMarked
    <2>4. QED
      BY <1>1, <1>2, <1>3, <2>1, <2>3 DEF TextLen, StreamInv, HeldSlash, NoCharLost
  <1>10. \A i \in 1..TextLen : Text(i).ccl = ClassOf(t)[i]
    <2>1. \A i \in 1..TextLen : Text(i).ccl = ClassOf(src)[i]
      BY <1>6 DEF ClassInv, ClassifiesAsC
    <2>2. \A i \in 1..TextLen : i \in 1..n /\ (i < n \/ ~Holds)
      BY <1>1, <1>9
    <2>3. QED
      BY <1>4, <1>7, <2>1, <2>2, Settled, GrownExtends DEF Holds
  <1> HIDE DEF t
  \* It is enough to look at what was pushed.
  <1>11. ASSUME NEW m \in Nat, Len(ccv') = m, m >= Len(ccv),
                \A i \in 1..Len(ccv) : ccv'[i] = ccv[i],
                \A i \in (Len(ccv) + 1)..m : ccv'[i].ccl = ClassOf(t)[Len(out) + i]
         PROVE  \A i \in 1..TextLen' : Text(i)'.ccl = ClassOf(t)[i]
    <2> TAKE i \in 1..TextLen'
    <2>1. i \in 1..(Len(out) + m)
      BY <1>9, <1>11
    <2>2. CASE i <= Len(out)
      <3>1. Text(i)' = Text(i) /\ i \in 1..TextLen
        BY <1>1, <1>3, <1>9, <2>1, <2>2 DEF Text
      <3>2. QED
        BY <1>10, <3>1
    <2>3. CASE i > Len(out) /\ i <= Len(out) + Len(ccv)
      <3>1. i - Len(out) \in 1..Len(ccv) /\ i \in 1..TextLen /\ ~(i <= Len(out))
        BY <1>1, <1>9, <2>1, <2>3
      <3>2. Text(i)' = ccv'[i - Len(out)] /\ Text(i) = ccv[i - Len(out)]
        BY <1>3, <3>1 DEF Text
      <3>3. QED
        BY <1>10, <1>11, <3>1, <3>2
    <2>4. CASE i > Len(out) + Len(ccv)
      <3>1. /\ i - Len(out) \in (Len(ccv) + 1)..m /\ ~(i <= Len(out))
            /\ Len(out) + (i - Len(out)) = i
        BY <1>1, <1>11, <2>1, <2>4
      <3>2. Text(i)' = ccv'[i - Len(out)]
        BY <1>3, <3>1 DEF Text
      <3>3. ccv'[i - Len(out)].ccl = ClassOf(t)[Len(out) + (i - Len(out))]
        BY <1>11, <3>1
      <3>4. QED
        BY <3>1, <3>2, <3>3
    <2>5. QED
      BY <1>1, <2>1, <2>2, <2>3, <2>4
  <1>12. CASE ~Holds /\ Holds' /\ ccv' = ccv
    <2>1. \A i \in (Len(ccv) + 1)..Len(ccv) : FALSE
      BY <1>1
    <2>2. \A i \in 1..TextLen' : Text(i)'.ccl = ClassOf(t)[i]
      BY <1>1, <1>11, <1>12, <2>1
    <2>3. QED
      BY <1>8, <2>2 DEF ReadsOn
  <1>13. CASE ~Holds /\ ccv' = ccv_push(ccv, chr, ClassOf(t)[Len(t)])
    <2> DEFINE top == [chr |-> chr, ccl |-> ClassOf(t)[Len(t)]]
    <2>1. ccv' = Append(ccv, top)
      BY <1>1, <1>13, PushAppends DEF NLOOKAHEAD
    <2>2. /\ Len(ccv') = Len(ccv) + 1 /\ \A i \in 1..Len(ccv) : ccv'[i] = ccv[i]
          /\ ccv'[Len(ccv) + 1] = top
      BY <1>1, <2>1
    <2>3. \A i \in (Len(ccv) + 1)..(Len(ccv) + 1) :
             ccv'[i].ccl = ClassOf(t)[Len(out) + i]
      <3>1. Len(out) + (Len(ccv) + 1) = Len(t)
        BY <1>1, <1>4, <1>9, <1>13
      <3>2. ccv'[Len(ccv) + 1].ccl = ClassOf(t)[Len(t)]
        BY <2>2
      <3>3. \A i \in (Len(ccv) + 1)..(Len(ccv) + 1) : i = Len(ccv) + 1
        BY <1>1
      <3>4. QED
        BY <3>1, <3>2, <3>3
    <2>4. Len(ccv) + 1 \in Nat /\ Len(ccv) + 1 >= Len(ccv)
      BY <1>1
    <2> HIDE DEF top
    <2>5. \A i \in 1..TextLen' : Text(i)'.ccl = ClassOf(t)[i]
      BY <1>11, <2>2, <2>3, <2>4
    <2>6. QED
      BY <1>8, <2>5 DEF ReadsOn
  <1>14. CASE /\ Holds
              /\ ccv' = ccv_push(ccv_push(ccv, Slash, ClassOf(t)[n]),
                                 chr, ClassOf(t)[Len(t)])
    <2> DEFINE held == [chr |-> Slash, ccl |-> ClassOf(t)[n]]
               top == [chr |-> chr, ccl |-> ClassOf(t)[Len(t)]]
               v == Append(ccv, held)
    <2>1. ccv_push(ccv, Slash, ClassOf(t)[n]) = v
      BY <1>1, PushAppends DEF NLOOKAHEAD
    <2>2. ccv' = ccv_push(v, chr, ClassOf(t)[Len(t)])
      BY <1>14, <2>1
    <2>3. Len(v) = Len(ccv) + 1 /\ v[Len(ccv) + 1] = held
          /\ \A i \in 1..Len(ccv) : v[i] = ccv[i]
      BY <1>1
    <2>4. ccv' = Append(v, top)
      <3>1. ~(Len(v) >= NLOOKAHEAD)
        BY <1>1, <2>3 DEF NLOOKAHEAD
      <3>2. QED
        BY <2>2, <3>1 DEF ccv_push
    <2>5. /\ Len(ccv') = Len(ccv) + 2
          /\ \A i \in 1..Len(ccv) : ccv'[i] = ccv[i]
          /\ ccv'[Len(ccv) + 1] = held
          /\ ccv'[Len(ccv) + 2] = top
      <3>1. v \in Seq({ccv[i] : i \in 1..Len(ccv)} \cup {held})
        BY <1>1
      <3> HIDE DEF v, held, top
      <3>2. QED
        BY <1>1, <2>3, <2>4, <3>1
    <2>6. \A i \in (Len(ccv) + 1)..(Len(ccv) + 2) :
             ccv'[i].ccl = ClassOf(t)[Len(out) + i]
      <3>1. Len(out) + (Len(ccv) + 1) = n /\ Len(out) + (Len(ccv) + 2) = Len(t)
        <4>1. Len(out) + Len(ccv) = n - 1
          BY <1>1, <1>9, <1>14
        <4>2. QED
          BY <1>1, <1>4, <4>1
      <3>2. /\ ccv'[Len(ccv) + 1].ccl = ClassOf(t)[n]
            /\ ccv'[Len(ccv) + 2].ccl = ClassOf(t)[Len(t)]
        BY <2>5
      <3>3. \A i \in (Len(ccv) + 1)..(Len(ccv) + 2) :
               i = Len(ccv) + 1 \/ i = Len(ccv) + 2
        BY <1>1
      <3>4. QED
        BY <3>1, <3>2, <3>3
    <2>7. Len(ccv) + 2 \in Nat /\ Len(ccv) + 2 >= Len(ccv)
      BY <1>1
    <2> HIDE DEF held, top, v
    <2>8. \A i \in 1..TextLen' : Text(i)'.ccl = ClassOf(t)[i]
      BY <1>11, <2>5, <2>6, <2>7
    <2>9. QED
      BY <1>8, <2>8 DEF ReadsOn
  <1>15. QED
    BY <1>8, <1>12, <1>13, <1>14 DEF ReadsOn, Pushed

\* Every step keeps the classes right.
LEMMA ClassNext == ClassInv /\ [Next]_vars => ClassInv'
  <1> SUFFICES ASSUME ClassInv, [Next]_vars PROVE ClassInv'
    OBVIOUS
  <1>1. StreamInv /\ StreamInv'
    BY StreamNext DEF ClassInv
  <1>2. ASSUME NEW chr \in Chars \cup {EOF}, Feed(chr) PROVE ClassInv'
    <2>1. CASE cf_eof(chr)
      <3>1. SameText
        BY <1>1, <1>2, <2>1, FeedEnd
      <3>2. ReadsText'
        BY <2>1 DEF cf_eof, ReadsText
      <3>3. QED
        BY <1>1, <3>1, <3>2, SameTextKeeps DEF ClassInv
    <2>2. CASE chr # EOF /\ CharStep(chr)
      BY <1>1, <1>2, <2>2, FeedClasses DEF ClassInv
    <2>3. QED
      BY <1>2, <2>1, <2>2, NextCases DEF Feed
  <1>3. CASE FeedChar
    BY <1>2, <1>3, AlphabetChars DEF FeedChar
  <1>4. CASE FeedEOF
    BY <1>2, <1>4 DEF FeedEOF
  <1>5. CASE Take
    <2>1. SameText
      BY <1>1, <1>5, TakeKeeps
    <2>2. ReadsText'
      BY <1>5 DEF Take, ClassInv, ReadsText
    <2>3. QED
      BY <1>1, <2>1, <2>2, SameTextKeeps DEF ClassInv
  <1>6. CASE UNCHANGED vars
    <2>1. SameText
      BY <1>6 DEF vars, SameText, TextLen, Text, EndMarked
    <2>2. ReadsText'
      BY <1>6 DEF vars, ClassInv, ReadsText
    <2>3. QED
      BY <1>1, <2>1, <2>2, SameTextKeeps DEF ClassInv
  <1>7. QED
    BY <1>3, <1>4, <1>5, <1>6 DEF Next

\* In every text in which no division sign has a quote right behind it, the
\* machine gives every character the class that its place in the text calls
\* for.
THEOREM StreamClassifiesAsC == Spec => []ClassifiesAsC
  <1>1. ClassInv => ClassifiesAsC
    BY DEF ClassInv
  <1>2. QED
    BY <1>1, ClassInit, ClassNext, PTL DEF Spec
============================================================================
