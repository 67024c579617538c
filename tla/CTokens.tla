------------------------------ MODULE CTokens ------------------------------
(***************************************************************************)
(* The reference for libcf: which characters of a source text belong to    *)
(* comments, string literals and character literals, said with positions  *)
(* in the whole text and not with the states of a machine that reads it.   *)
(*                                                                         *)
(* A text is cut into tokens from the left.  A token starts with a quote, *)
(* a comment opener, or is one character of code; it ends where its own    *)
(* closing delimiter is, or at the end of the text when there is none.     *)
(* Lines joined by a backslash and trigraphs are not considered: libcf     *)
(* knows neither.  The newline that ends a //-comment counts as part of   *)
(* the comment, as it does for libcf.                                      *)
(***************************************************************************)
EXTENDS CFilter, FiniteSets

\* Position k of s holds a backslash escaped by no other one of its literal,
\* which starts at i, when the run of backslashes before k is even.
Escaped(s, i, k) ==
    \E m \in i..(k - 1) :
        /\ s[m] # Backslash
        /\ \A j \in (m + 1)..(k - 1) : s[j] = Backslash
        /\ (k - 1 - m) % 2 = 1

Closes(s, i, kind, k) ==
    CASE kind = "string" -> k > i /\ s[k] = DQuote /\ ~Escaped(s, i, k)
      [] kind = "char"   -> k > i /\ s[k] = SQuote /\ ~Escaped(s, i, k)
      [] kind = "block"  -> k > i + 2 /\ s[k] = Slash /\ s[k - 1] = Star
      [] kind = "line"   -> k > i + 1 /\ s[k] = Newline
      [] kind = "code"   -> k = i

Follows(s, i, chr) == i < Len(s) /\ s[i + 1] = chr

\* The kind of the token that starts at position i.
Kind(s, i) ==
    CASE s[i] = DQuote -> "string"
      [] s[i] = SQuote -> "char"
      [] s[i] = Slash /\ Follows(s, i, Star) -> "block"
      [] s[i] = Slash /\ Follows(s, i, Slash) -> "line"
      [] OTHER -> "code"

Closers(s, i) == {k \in i..Len(s) : Closes(s, i, Kind(s, i), k)}

TokenEnd(s, i) ==
    IF Closers(s, i) = {} THEN Len(s)
    ELSE CHOOSE k \in Closers(s, i) : \A j \in Closers(s, i) : k <= j

\* TokenStart(s)[i]: for every position, where the token it is in starts.
TokenStart(s) ==
    LET start[i \in 1..Len(s)] ==
          IF i = 1 THEN 1
          ELSE IF TokenEnd(s, start[i - 1]) >= i THEN start[i - 1] ELSE i
    IN  start

\* The class of position k, in a token that starts at i: the delimiters are
\* the outer part.  Of a comment only the opener is (libcf classes the
\* closing one as inner).
ClassInToken(s, i, k) ==
    LET kind == Kind(s, i) IN
    CASE kind = "code" -> "CC_CODE"
      [] kind = "string" -> IF k = i \/ k \in Closers(s, i)
                              THEN "CC_OUTER_STRING" ELSE "CC_INNER_STRING"
      [] kind = "char" -> IF k = i \/ k \in Closers(s, i)
                            THEN "CC_OUTER_CHAR" ELSE "CC_INNER_CHAR"
      [] OTHER -> IF k <= i + 1 THEN "CC_OUTER_COMMENT" ELSE "CC_INNER_COMMENT"

ClassOf(s) ==
    LET start == TokenStart(s)
    IN  [k \in 1..Len(s) |-> ClassInToken(s, start[k], k)]

\* The text ends inside a literal or a comment that is not closed, or with
\* a '/' that may open one.
EndsOpen(s) ==
    /\ s # <<>>
    /\ LET i == TokenStart(s)[Len(s)]
       IN  \/ Kind(s, i) # "code" /\ Closers(s, i) = {}
           \/ Kind(s, i) = "code" /\ s[i] = Slash

\* No division sign has a quote right behind it, as in  n/'a' .
NoSlashQuote(s) ==
    LET start == TokenStart(s)
    IN  \A i \in 1..(Len(s) - 1) :
            start[i] = i /\ Kind(s, i) = "code" /\ s[i] = Slash
              => s[i + 1] \notin Quotes
============================================================================
