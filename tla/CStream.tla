------------------------------ MODULE CStream ------------------------------
(***************************************************************************)
(* libcf in the use its header describes: a caller feeds cf_next one      *)
(* character after the other and takes the super-characters out of the    *)
(* array at its own pace, as long as it leaves room for the two that one   *)
(* call can add.  src and out record what was fed and what was taken.      *)
(***************************************************************************)
EXTENDS CTokens

CONSTANTS Alphabet,     \* the characters of the texts that are fed
          MaxLen        \* the length of the longest text

ASSUME CStreamAssumption == Alphabet \subseteq Chars /\ MaxLen \in Nat

VARIABLES src, out

vars == <<state, cclass, err, ccv, rv, src, out>>

Init == cf_init /\ src = <<>> /\ out = <<>>

\* A call of cf_next by a caller whose earlier calls did not fail.  Once the
\* end of the file was seen, characters are fed in vain.
Feed(chr) ==
    /\ rv \in {"0", "EOF"}
    /\ Len(ccv) + 2 <= NLOOKAHEAD
    /\ cf_next(chr)
    /\ src' = IF chr = EOF \/ state = "S_EOF" THEN src ELSE Append(src, chr)
    /\ UNCHANGED out

FeedChar ==
    /\ Len(src) < MaxLen
    /\ \E chr \in Alphabet : Feed(chr)

FeedEOF == Feed(EOF)

\* The caller takes the first super-character out; the end-of-file mark is
\* not text.
Take ==
    /\ ccv # <<>>
    /\ out' = IF Head(ccv).ccl = "CC_EOF" THEN out ELSE Append(out, Head(ccv))
    /\ ccv' = Tail(ccv)
    /\ UNCHANGED <<state, cclass, err, rv, src>>

Next == FeedChar \/ FeedEOF \/ Take

Spec == Init /\ [][Next]_vars

----------------------------------------------------------------------------
\* Every variable has its type.
TypeOK ==
    /\ CFilterTypeOK
    /\ src \in Seq(Chars)
    /\ out \in Seq(SuperChar)

\* The super-characters of the text that came out, taken or not: TextLen of
\* them, a mark of the end of the file at the end of the array not counted.
EndMarked == ccv # <<>> /\ ccv[Len(ccv)].ccl = "CC_EOF"
TextLen == Len(out) + (IF EndMarked THEN Len(ccv) - 1 ELSE Len(ccv))
Text(i) == IF i <= Len(out) THEN out[i] ELSE ccv[i - Len(out)]

\* The state machine never reports an internal error: the abort() in the
\* S_START_SQUOTE case (a closing quote outside a character literal) and the
\* error return of cf_next are out of reach of every text.
NoInternalError == rv \in {"0", "EOF"} /\ err = "0"

\* Lookahead neither loses, repeats, alters nor reorders a character: the
\* super-characters that came out are the text that went in, up to a last
\* '/' whose meaning the next character decides.  At the end of the file
\* that '/' is dropped.
NoCharLost ==
    /\ TextLen \in {Len(src) - 1, Len(src)}
    /\ \A i \in 1..TextLen : Text(i).chr = src[i]
    /\ TextLen # Len(src) =>
          src[Len(src)] = Slash /\ state \in {"S_START_SLASH", "S_EOF"}

\* The array holds at most one end-of-file mark, as its last element,
\* however often cf_next is called at the end of the file.
EofLast == \A i \in 1..(Len(ccv) - 1) : ccv[i].ccl # "CC_EOF"

\* Every super-character has the class that the position of its character
\* in the text calls for (reference: CTokens), in every text in which no
\* division sign has a quote right behind it.
ClassifiesAsC ==
    NoSlashQuote(src) =>
        LET class == ClassOf(src)
        IN  \A i \in 1..TextLen : Text(i).ccl = class[i]

\* libcf.c:53-55: a search for an identifier in code "would not be confused
\* with some similar looking string inside a comment or inside quotes".  In a
\* text whose comments and literals are all closed, a character other than
\* the special ones that is inside of one is not given out as code.
NotConfused ==
    LET class == ClassOf(src)
    IN  ~EndsOpen(src) =>
            \A i \in 1..TextLen :
                src[i] \in OtherChars /\ class[i] # "CC_CODE" => Text(i).ccl # "CC_CODE"

\* libcf.c:254-258: at the end of the file in any state but S_START, cf_next
\* prints "Error: EOF and state==..." and records ENOTRECOVERABLE.
OpenEndReported == state = "S_EOF" /\ EndsOpen(src) => err = "ENOTRECOVERABLE"
============================================================================
